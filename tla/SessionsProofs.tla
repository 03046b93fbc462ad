--------------------------- MODULE SessionsProofs ---------------------------
(***************************************************************************)
(* Proofs about Sessions, for every number of accounts, browsers, logins,  *)
(* faults and moves of the directory, and every lifetime of a session.     *)
(***************************************************************************)
EXTENDS Sessions, FiniteSetTheorems, TLAPS

-----------------------------------------------------------------------------
(* Type correctness.                                                       *)

\* What TypeOK leaves out: the ghosts, the tabs, who is signing in, and the
\* attempts that the boot loop has left.
FlowTypeOK ==
    /\ tab \in [Logins -> Browsers]
    /\ who \in [Logins -> Subjects \cup {None}]
    /\ crossed \subseteq Logins
    /\ owners \in [Emails -> SUBSET Subjects]
    /\ server \in {"migrate", "discover"} => attempts < MaxDiscovery

\* A callback that has passed the state check knows its account.
Working == {"exchange", "upsertUser", "upsertSettings", "issue"}
WhoIsKnown ==
    \A p \in Logins :
        (pc[p] \in Working \/ (pc[p] = "answered" /\ answer[p] = "302")) => who[p] \in Subjects

TypeInv == TypeOK /\ FlowTypeOK /\ WhoIsKnown

\* DecodeRoles returns role names.
LEMMA DecodeType == \A g : DecodeRoles(g) \in SUBSET RoleNames
BY DEF DecodeRoles, RoleNames

\* The types hold at the start.
LEMMA TypeInit == Init => TypeInv
BY SessionBounds
   DEF Init, TypeInv, TypeOK, FlowTypeOK, WhoIsKnown, Working, EmptyJar, Jar, Answers, NoSession,
       RoleNames

\* run() and the operator change where the server stands and nothing else.
LEMMA TypeBoot == TypeInv /\ (Boot \/ Restart) => TypeInv'
BY SessionBounds
   DEF Boot, Migrate, DiscoverFails, Discover, Restart, TypeInv, TypeOK, FlowTypeOK, WhoIsKnown,
       idpVars, flowVars

\* A login keeps its types, from the first redirect to the answer.
LEMMA TypeLogin ==
    ASSUME TypeInv, NEW p \in Logins,
           Login(p) \/ Serve(p) \/ CallbackFails(p) \/ \E s \in Subjects : Callback(p, s)
    PROVE  TypeInv'
<1>. USE DEF TypeInv, TypeOK, FlowTypeOK, WhoIsKnown, Working, bootVars, idpVars, Goto
<1>1. CASE Login(p)
  <2>1. cookies' \in [Browsers -> Jar]
    BY <1>1 DEF Login, Jar
  <2>. QED  BY <1>1, <2>1 DEF Login, Meet
<1>2. ASSUME NEW s \in Subjects, Callback(p, s) PROVE TypeInv'
  <2>1. CASE cookies[tab[p]].state # p \/ cookies[tab[p]].verifier = None
    <3>1. /\ answer' = [answer EXCEPT ![p] = "400"] /\ pc' = [pc EXCEPT ![p] = "done"]
          /\ UNCHANGED who
      BY <1>2, <2>1 DEF Callback
    <3>2. UNCHANGED <<bootVars, now, idpVars, users, settings, cookies, tab, roles, crossed,
                      granted, faults>>
      BY <1>2 DEF Callback
    <3>. QED  BY <3>1, <3>2 DEF Answers
  <2>2. CASE ~(cookies[tab[p]].state # p \/ cookies[tab[p]].verifier = None)
    <3>1. /\ who' = [who EXCEPT ![p] = s] /\ pc' = [pc EXCEPT ![p] = "exchange"]
          /\ UNCHANGED answer
      BY <1>2, <2>2 DEF Callback
    <3>2. UNCHANGED <<bootVars, now, idpVars, users, settings, cookies, tab, roles, crossed,
                      granted, faults>>
      BY <1>2 DEF Callback
    <3>. QED  BY <3>1, <3>2
  <2>. QED  BY <2>1, <2>2
<1>3. CASE Exchange(p)
  BY <1>3, DecodeType DEF Exchange, Reply, Answers
<1>4. CASE UpsertUser(p)
  <2>1. who[p] \in Subjects /\ directory[who[p]].email \in Emails
    BY <1>4 DEF UpsertUser
  <2>2. CASE \E s \in Subjects \ {who[p]} : users[s] = directory[who[p]].email
    BY <1>4, <2>2 DEF UpsertUser, Reply, Answers
  <2>3. CASE ~\E s \in Subjects \ {who[p]} : users[s] = directory[who[p]].email
    BY <1>4, <2>1, <2>3 DEF UpsertUser
  <2>. QED  BY <2>2, <2>3
<1>5. CASE UpsertUserSettings(p)
  BY <1>5 DEF UpsertUserSettings
<1>6. CASE Issue(p)
  BY <1>6 DEF Issue, Reply, Answers
<1>7. CASE Deliver(p)
  <2>1. /\ now + TTL \in Nat /\ tab[p] \in Browsers
        /\ answer[p] = "302" => who[p] \in Subjects
    BY <1>7, SessionBounds DEF Deliver
  <2>2. cookies' \in [Browsers -> Jar]
    BY <1>7, <2>1 DEF Deliver, Jar, Session
  <2>. QED  BY <1>7, <2>2 DEF Deliver, Meet
<1>8. CASE CallbackFails(p)
  <2>1. PICK a \in {"401", "500", "502"} : Reply(p, a)
    BY <1>8 DEF CallbackFails
  <2>2. faults' \in 0..MaxFaults
    BY <1>8, SessionBounds DEF CallbackFails
  <2>. QED  BY <1>8, <2>1, <2>2 DEF CallbackFails, Reply, Answers
<1>. QED  BY <1>1, <1>2, <1>3, <1>4, <1>5, <1>6, <1>7, <1>8 DEF Serve

\* So do crashes, browsers, the directory and the clock.
LEMMA TypeRest ==
    TypeInv /\ (\/ Crash \/ Advance
                \/ \E b \in Browsers : Logout(b) \/ CookiesExpire(b)
                \/ \E s \in Subjects, g \in Groups, e \in Emails : MoveAccount(s, g, e))
    => TypeInv'
<1>. USE DEF TypeInv, TypeOK, FlowTypeOK, WhoIsKnown, Working, bootVars, idpVars, flowVars
<1>1. TypeInv /\ Crash => TypeInv'
  BY SessionBounds DEF Crash
<1>2. TypeInv /\ Advance => TypeInv'
  BY SessionBounds DEF Advance
<1>3. ASSUME TypeInv, NEW b \in Browsers, Logout(b) PROVE TypeInv'
  <2>1. cookies' \in [Browsers -> Jar]
    BY <1>3 DEF Logout, Jar
  <2>. QED  BY <1>3, <2>1 DEF Logout
<1>4. ASSUME TypeInv, NEW b \in Browsers, CookiesExpire(b) PROVE TypeInv'
  <2>1. cookies' \in [Browsers -> Jar]
    BY <1>4 DEF CookiesExpire, Jar
  <2>. QED  BY <1>4, <2>1 DEF CookiesExpire
<1>5. ASSUME TypeInv, NEW s \in Subjects, NEW g \in Groups, NEW e \in Emails,
             MoveAccount(s, g, e)
      PROVE  TypeInv'
  BY <1>5, SessionBounds DEF MoveAccount
<1>. QED  BY <1>1, <1>2, <1>3, <1>4, <1>5

\* The types of the model and of its ghosts, in every behaviour.
LEMMA TypeInvAlways == Spec => []TypeInv
<1>1. TypeInv /\ [Next]_vars => TypeInv'
  <2>. SUFFICES ASSUME TypeInv, [Next]_vars PROVE TypeInv'
    OBVIOUS
  <2>1. CASE UNCHANGED vars
    BY <2>1 DEF vars, TypeInv, TypeOK, FlowTypeOK, WhoIsKnown
  <2>. QED  BY <2>1, TypeBoot, TypeLogin, TypeRest DEF Next, Idle
<1>. QED  BY TypeInit, <1>1, PTL DEF Spec

\* The cookies, tables, login flows and clocks keep their types in every
\* behaviour; in particular the boot loop stops counting at its last attempt.
THEOREM TypeCorrect == Spec => []TypeOK
BY TypeInvAlways, PTL DEF TypeInv

-----------------------------------------------------------------------------
(* A session has its rows.                                                 *)

\* What the callback has written by the time it reaches a statement.
RowsAreWritten ==
    \A p \in Logins :
        /\ pc[p] = "upsertSettings" => users[who[p]] # None
        /\ (pc[p] = "issue" \/ (pc[p] = "answered" /\ answer[p] = "302")) =>
                users[who[p]] # None /\ who[p] \in settings

RowsInv == SessionHasRows /\ RowsAreWritten

\* A step that takes no row away and starts no session keeps RowsInv, as long
\* as the callback it moves has what its new position needs.
LEMMA RowsKept ==
    ASSUME TypeInv, RowsInv, NEW P \in SUBSET Logins,
           \A s \in Subjects : users[s] # None => users'[s] # None,
           settings \subseteq settings',
           \A b \in Browsers : cookies'[b].session \in {cookies[b].session, NoSession},
           \A p \in P : pc'[p] = pc[p] /\ who'[p] = who[p] /\ answer'[p] = answer[p],
           \A p \in Logins \ P : pc'[p] \in {"new", "atProvider", "exchange", "upsertUser", "done"}
    PROVE  RowsInv'
<1>1. \A b \in Browsers : cookies[b].session # NoSession => cookies[b].session.sub \in Subjects
  BY DEF TypeInv, TypeOK, Jar, Session
<1>2. SessionHasRows'
  BY <1>1 DEF RowsInv, SessionHasRows
<1>3. RowsAreWritten'
  BY DEF TypeInv, WhoIsKnown, Working, RowsInv, RowsAreWritten
<1>. QED  BY <1>2, <1>3 DEF RowsInv

\* The login flow keeps it: each statement of the callback adds its row before
\* the next one is reached, and a failed one ends without a session.
LEMMA RowsLogin ==
    ASSUME TypeInv, RowsInv, NEW p \in Logins,
           Login(p) \/ Serve(p) \/ CallbackFails(p) \/ \E s \in Subjects : Callback(p, s)
    PROVE  RowsInv'
<1>0. /\ pc \in [Logins -> {"new", "atProvider", "exchange", "upsertUser",
                            "upsertSettings", "issue", "answered", "done"}]
      /\ answer \in [Logins -> Answers] /\ users \in [Subjects -> Emails \cup {None}]
      /\ cookies \in [Browsers -> Jar] /\ who \in [Logins -> Subjects \cup {None}]
      /\ tab[p] \in Browsers /\ directory \in [Subjects -> [groups : Groups, email : Emails]]
      /\ None \notin Emails
      /\ pc[p] \in Working => who[p] \in Subjects
      /\ WhoIsKnown
  BY SessionDomains DEF TypeInv, TypeOK, FlowTypeOK, WhoIsKnown
<1>1. CASE Login(p)
  <2>1. \A b \in Browsers : cookies'[b].session = cookies[b].session
    BY <1>0, <1>1 DEF Login, Jar
  <2>2. /\ \A q \in Logins \ {p} : pc'[q] = pc[q] /\ who'[q] = who[q] /\ answer'[q] = answer[q]
        /\ pc'[p] = "atProvider" /\ UNCHANGED <<users, settings>>
    BY <1>0, <1>1 DEF Login, Goto
  <2>. QED  BY <2>1, <2>2, RowsKept
<1>2. ASSUME NEW s \in Subjects, Callback(p, s) PROVE RowsInv'
  <2>1. /\ \A q \in Logins \ {p} : pc'[q] = pc[q] /\ who'[q] = who[q] /\ answer'[q] = answer[q]
        /\ pc'[p] \in {"exchange", "done"} /\ UNCHANGED <<users, settings, cookies>>
    BY <1>0, <1>2 DEF Callback, Goto
  <2>. QED  BY <2>1, RowsKept
<1>3. ASSUME NEW a \in Answers, a # "302", Reply(p, a),
             UNCHANGED <<users, settings, cookies, who>>
      PROVE  RowsInv'
  BY <1>0, <1>3 DEF Reply, Goto, RowsInv, SessionHasRows, RowsAreWritten
<1>4. CASE Exchange(p)
  <2>1. CASE pc' = [pc EXCEPT ![p] = "upsertUser"]
    <3>1. /\ \A q \in Logins \ {p} : pc'[q] = pc[q] /\ who'[q] = who[q] /\ answer'[q] = answer[q]
          /\ pc'[p] = "upsertUser" /\ UNCHANGED <<users, settings, cookies>>
      BY <1>0, <1>4, <2>1 DEF Exchange, Reply, Goto
    <3>. QED  BY <3>1, RowsKept
  <2>. QED  BY <1>3, <1>4, <2>1 DEF Exchange, Goto, Answers
<1>5. CASE UpsertUser(p)
  <2>1. CASE Reply(p, "500") /\ UNCHANGED users
    BY <1>3, <1>5, <2>1 DEF UpsertUser, Answers
  <2>2. CASE ~(Reply(p, "500") /\ UNCHANGED users)
    <3>1. /\ users' = [users EXCEPT ![who[p]] = directory[who[p]].email]
          /\ pc' = [pc EXCEPT ![p] = "upsertSettings"] /\ UNCHANGED <<answer, who, settings, cookies>>
          /\ who[p] \in Subjects
      BY <1>0, <1>5, <2>2 DEF UpsertUser, Goto, Working
    <3>2. \A s \in Subjects : /\ users[s] # None => users'[s] # None
                              /\ users'[who[p]] # None
      BY <1>0, <3>1
    <3>3. SessionHasRows'
      BY <1>0, <3>1, <3>2 DEF RowsInv, SessionHasRows, Jar, Session
    <3>4. RowsAreWritten'
      BY <1>0, <3>1, <3>2 DEF RowsInv, RowsAreWritten, WhoIsKnown, Working
    <3>. QED  BY <3>3, <3>4 DEF RowsInv
  <2>. QED  BY <2>1, <2>2
<1>6. CASE UpsertUserSettings(p)
  BY <1>0, <1>6 DEF UpsertUserSettings, Goto, RowsInv, SessionHasRows, RowsAreWritten
<1>7. CASE Issue(p)
  BY <1>0, <1>7 DEF Issue, Reply, Goto, RowsInv, SessionHasRows, RowsAreWritten
<1>8. CASE Deliver(p)
  <2>1. \A b \in Browsers : \/ cookies'[b].session = cookies[b].session
                            \/ /\ answer[p] = "302"
                               /\ cookies'[b].session.sub = who[p]
    BY <1>0, <1>8 DEF Deliver, Jar
  <2>2. SessionHasRows'
    BY <1>8, <2>1 DEF Deliver, RowsInv, SessionHasRows, RowsAreWritten
  <2>3. RowsAreWritten'
    BY <1>0, <1>8 DEF Deliver, Goto, RowsInv, RowsAreWritten
  <2>. QED  BY <2>2, <2>3 DEF RowsInv
<1>9. CASE CallbackFails(p)
  <2>1. PICK a \in {"401", "500", "502"} : Reply(p, a)
    BY <1>9 DEF CallbackFails
  <2>. QED  BY <1>3, <1>9, <2>1 DEF CallbackFails, Answers
<1>. QED  BY <1>1, <1>2, <1>4, <1>5, <1>6, <1>7, <1>8, <1>9 DEF Serve

\* In every behaviour a browser that has a session belongs to a user with a
\* user row and a settings row, whichever statement of whichever login failed
\* and whenever the process died.
THEOREM SessionHasRowsAlways == Spec => []SessionHasRows
<1>1. Init => RowsInv
  BY DEF Init, RowsInv, SessionHasRows, RowsAreWritten, EmptyJar
<1>2. TypeInv /\ RowsInv /\ [Next]_vars => RowsInv'
  <2>. SUFFICES ASSUME TypeInv, RowsInv, [Next]_vars PROVE RowsInv'
    OBVIOUS
  <2>1. CASE Boot \/ Restart \/ Advance \/ UNCHANGED vars
           \/ \E s \in Subjects, g \in Groups, e \in Emails : MoveAccount(s, g, e)
    <3>1. UNCHANGED <<users, settings, cookies, pc, who, answer>>
      BY <2>1 DEF Boot, Migrate, DiscoverFails, Discover, Restart, Advance, MoveAccount, vars,
                  flowVars
    <3>. QED  BY <3>1 DEF RowsInv, SessionHasRows, RowsAreWritten
  <2>2. CASE Crash
    <3>1. /\ UNCHANGED <<users, settings, cookies>>
          /\ \A p \in Logins : pc'[p] \in {"new", "atProvider", "done"}
      BY <2>2 DEF Crash, TypeInv, TypeOK
    <3>. QED  BY <3>1 DEF RowsInv, SessionHasRows, RowsAreWritten
  <2>3. ASSUME NEW b \in Browsers, Logout(b) \/ CookiesExpire(b) PROVE RowsInv'
    <3>1. /\ UNCHANGED <<users, settings, pc, who, answer>>
          /\ \A c \in Browsers : cookies'[c].session \in {cookies[c].session, NoSession}
      <4>1. CASE Logout(b)
        BY <4>1 DEF Logout, flowVars, TypeInv, TypeOK, Jar
      <4>2. CASE CookiesExpire(b)
        BY <4>2 DEF CookiesExpire, TypeInv, TypeOK, Jar
      <4>. QED  BY <2>3, <4>1, <4>2
    <3>. QED  BY <3>1, RowsKept
  <2>. QED  BY <2>1, <2>2, <2>3, RowsLogin DEF Next, Idle
<1>. QED  BY TypeInvAlways, <1>1, <1>2, PTL DEF Spec, RowsInv

-----------------------------------------------------------------------------
(* Roles age out.                                                          *)

\* granted is the last tick at which the directory gave the role.
GrantedIsLast ==
    \A s \in Subjects, r \in RoleNames :
        /\ granted[s][r] <= now
        /\ r \in DecodeRoles(directory[s].groups) => granted[s][r] = now

\* A callback carries roles that were the account's in this very tick.
Carrying(p) ==
    \/ pc[p] \in {"upsertUser", "upsertSettings", "issue"}
    \/ pc[p] = "answered" /\ answer[p] = "302"
RolesAreFresh ==
    \A p \in Logins : Carrying(p) =>
        \A r \in roles[p] : who[p] \in Subjects => granted[who[p]][r] = now

\* A session ends no later than TTL after its roles were last granted.
SessionsEndInTime ==
    \A b \in Browsers : LET s == cookies[b].session IN
        s # NoSession => \A r \in s.roles : s.exp <= granted[s.sub][r] + TTL

RolesInv == GrantedIsLast /\ RolesAreFresh /\ SessionsEndInTime

\* What the types say about sessions and grants.
LEMMA SessionTypes ==
    ASSUME TypeInv
    PROVE  /\ now \in Nat /\ TTL \in Nat \ {0}
           /\ \A s \in Subjects, r \in RoleNames : granted[s][r] \in Nat
           /\ \A p \in Logins : roles[p] \subseteq RoleNames
           /\ \A b \in Browsers : LET s == cookies[b].session IN
                s # NoSession => s.sub \in Subjects /\ s.roles \subseteq RoleNames /\ s.exp \in Nat
BY SessionBounds DEF TypeInv, TypeOK, Jar, Session

\* A step of a login keeps it: the roles are read once, in the tick in which
\* the session is issued.
LEMMA RolesLogin ==
    ASSUME TypeInv, RolesInv, NEW p \in Logins,
           Login(p) \/ Serve(p) \/ CallbackFails(p) \/ \E s \in Subjects : Callback(p, s)
    PROVE  RolesInv'
<1>0. /\ pc \in [Logins -> {"new", "atProvider", "exchange", "upsertUser",
                            "upsertSettings", "issue", "answered", "done"}]
      /\ roles \in [Logins -> SUBSET RoleNames] /\ answer \in [Logins -> Answers]
      /\ cookies \in [Browsers -> Jar] /\ who \in [Logins -> Subjects \cup {None}]
      /\ tab[p] \in Browsers
      /\ (pc[p] = "answered" /\ answer[p] = "302") => who[p] \in Subjects
  BY DEF TypeInv, TypeOK, FlowTypeOK, WhoIsKnown
<1>1. /\ UNCHANGED <<now, directory, granted>>
      /\ GrantedIsLast'
  <2>1. UNCHANGED <<now, directory, granted>>
    BY DEF Login, Serve, CallbackFails, Callback, Exchange, UpsertUser, UpsertUserSettings, Issue,
           Deliver, idpVars
  <2>. QED  BY <2>1 DEF RolesInv, GrantedIsLast
<1>2. CASE Deliver(p)
  <2>1. \A b \in Browsers : \/ cookies'[b].session = cookies[b].session
                            \/ /\ answer[p] = "302" /\ who[p] \in Subjects
                               /\ cookies'[b].session.sub = who[p]
                               /\ cookies'[b].session.roles = roles[p]
                               /\ cookies'[b].session.exp = now + TTL
    BY <1>0, <1>2 DEF Deliver, Jar
  <2>2. answer[p] = "302" =>
            \A r \in roles[p] : who[p] \in Subjects => granted[who[p]][r] = now
    BY <1>2 DEF Deliver, RolesInv, RolesAreFresh, Carrying
  <2>3. SessionsEndInTime'
    BY <1>1, <2>1, <2>2, SessionTypes DEF RolesInv, SessionsEndInTime
  <2>4. RolesAreFresh'
    BY <1>0, <1>1, <1>2 DEF Deliver, Goto, RolesInv, RolesAreFresh, Carrying
  <2>. QED  BY <1>1, <2>3, <2>4 DEF RolesInv
<1>3. CASE ~Deliver(p)
  <2>1. \A b \in Browsers : cookies'[b].session = cookies[b].session
    <3>1. CASE Login(p)
      BY <1>0, <3>1 DEF Login, Jar
    <3>2. CASE ~Login(p)
      BY <1>3, <3>2 DEF Serve, CallbackFails, Callback, Exchange, UpsertUser, UpsertUserSettings,
                        Issue
    <3>. QED  BY <3>1, <3>2
  <2>2. SessionsEndInTime'
    BY <1>1, <2>1 DEF RolesInv, SessionsEndInTime
  <2>3. CASE Exchange(p)
    <3>1. /\ roles' = [roles EXCEPT ![p] = DecodeRoles(directory[who[p]].groups)]
          /\ who' = who /\ pc[p] = "exchange"
          /\ \A q \in Logins \ {p} : pc'[q] = pc[q] /\ answer'[q] = answer[q]
      BY <1>0, <2>3 DEF Exchange, Reply, Goto
    <3>2. \A r \in DecodeRoles(directory[who[p]].groups) :
                who[p] \in Subjects => granted[who[p]][r] = now
      BY DecodeType DEF RolesInv, GrantedIsLast
    <3>. QED  BY <1>0, <1>1, <2>2, <3>1, <3>2 DEF RolesInv, RolesAreFresh, Carrying
  <2>4. CASE ~Exchange(p)
    <3>1. /\ roles' = roles
          /\ \A q \in Logins \ {p} : pc'[q] = pc[q] /\ who'[q] = who[q] /\ answer'[q] = answer[q]
          /\ Carrying(p)' => Carrying(p) /\ who'[p] = who[p]
      <4>1. CASE Login(p)
        BY <1>0, <4>1 DEF Login, Goto, Carrying
      <4>2. CASE CallbackFails(p)
        BY <1>0, <4>2 DEF CallbackFails, Reply, Goto, Carrying
      <4>3. CASE UpsertUser(p)
        BY <1>0, <4>3 DEF UpsertUser, Reply, Goto, Carrying
      <4>4. CASE UpsertUserSettings(p) \/ Issue(p)
        BY <1>0, <4>4 DEF UpsertUserSettings, Issue, Reply, Goto, Carrying
      <4>5. ASSUME NEW s \in Subjects, Callback(p, s)
            PROVE  /\ roles' = roles
                   /\ \A q \in Logins \ {p} :
                        pc'[q] = pc[q] /\ who'[q] = who[q] /\ answer'[q] = answer[q]
                   /\ ~Carrying(p)'
        BY <1>0, <4>5 DEF Callback, Goto, Carrying
      <4>. QED  BY <1>3, <2>4, <4>1, <4>2, <4>3, <4>4, <4>5 DEF Serve
    <3>. QED  BY <1>0, <1>1, <2>2, <3>1 DEF RolesInv, RolesAreFresh, Carrying
  <2>. QED  BY <2>3, <2>4
<1>. QED  BY <1>2, <1>3

\* A session that is no newer than before stays in time while grants only move
\* forward.
LEMMA SessionsStayInTime ==
    ASSUME TypeInv, TypeInv', SessionsEndInTime,
           \A b \in Browsers : cookies'[b].session \in {cookies[b].session, NoSession},
           \A s \in Subjects, r \in RoleNames : granted[s][r] <= granted'[s][r]
    PROVE  SessionsEndInTime'
<1>. SUFFICES ASSUME NEW b \in Browsers, cookies'[b].session # NoSession,
                     NEW r \in cookies'[b].session.roles
              PROVE  cookies'[b].session.exp <= granted'[cookies'[b].session.sub][r] + TTL
  BY DEF SessionsEndInTime
<1>1. cookies'[b].session = cookies[b].session /\ cookies[b].session # NoSession
  OBVIOUS
<1>2. /\ cookies[b].session.sub \in Subjects /\ r \in RoleNames
      /\ cookies[b].session.exp \in Nat /\ TTL \in Nat
      /\ granted[cookies[b].session.sub][r] \in Nat
  BY <1>1, SessionTypes
<1>3. granted'[cookies[b].session.sub][r] \in Nat
  BY <1>2 DEF TypeInv, TypeOK
<1>4. cookies[b].session.exp <= granted[cookies[b].session.sub][r] + TTL
  BY <1>1 DEF SessionsEndInTime
<1>. QED  BY <1>1, <1>2, <1>3, <1>4

\* So do the browser, the crash, the directory and the clock.  The clock waits
\* for no session but for every callback: a tick is longer than one.
LEMMA RolesRest ==
    ASSUME TypeInv, TypeInv', RolesInv,
           \/ Crash \/ Advance
           \/ \E b \in Browsers : Logout(b) \/ CookiesExpire(b)
           \/ \E s \in Subjects, g \in Groups, e \in Emails : MoveAccount(s, g, e)
    PROVE  RolesInv'
<1>0. /\ cookies \in [Browsers -> Jar]
      /\ directory \in [Subjects -> [groups : Groups, email : Emails]]
      /\ granted \in [Subjects -> [RoleNames -> 0..MaxClock]]
      /\ now \in Nat
      /\ \A s \in Subjects, r \in RoleNames : granted[s][r] \in Nat
  BY SessionTypes DEF TypeInv, TypeOK
<1>1. CASE Crash
  <2>1. /\ UNCHANGED <<now, directory, granted, cookies>>
        /\ \A p \in Logins : ~Carrying(p)'
    BY <1>1 DEF Crash, Carrying, idpVars
  <2>. QED  BY <2>1 DEF RolesInv, GrantedIsLast, RolesAreFresh, SessionsEndInTime
<1>2. CASE Advance
  <2>1. /\ now' = now + 1 /\ UNCHANGED <<directory, cookies, pc>>
        /\ \A p \in Logins : ~Carrying(p)'
        /\ \A s \in Subjects, r \in RoleNames :
              granted'[s][r] = IF r \in DecodeRoles(directory[s].groups) THEN now + 1
                               ELSE granted[s][r]
    BY <1>2 DEF Advance, Carrying, idpVars, flowVars
  <2>2. \A s \in Subjects, r \in RoleNames : granted[s][r] <= granted'[s][r]
    BY <1>0, <2>1 DEF RolesInv, GrantedIsLast
  <2>3. GrantedIsLast'
    BY <1>0, <2>1 DEF RolesInv, GrantedIsLast
  <2>4. SessionsEndInTime'
    BY <2>1, <2>2, SessionsStayInTime DEF RolesInv
  <2>. QED  BY <2>1, <2>3, <2>4 DEF RolesInv, RolesAreFresh
<1>3. ASSUME NEW b \in Browsers, Logout(b) \/ CookiesExpire(b) PROVE RolesInv'
  <2>1. \A c \in Browsers : cookies'[c].session \in {cookies[c].session, NoSession}
    <3>1. CASE Logout(b)
      BY <1>0, <3>1 DEF Logout, Jar
    <3>2. CASE CookiesExpire(b)
      BY <1>0, <3>2 DEF CookiesExpire, Jar
    <3>. QED  BY <1>3, <3>1, <3>2
  <2>2. UNCHANGED <<now, directory, granted, pc, who, roles, answer>>
    BY <1>3 DEF Logout, CookiesExpire, idpVars, flowVars
  <2>3. SessionsEndInTime'
    BY <1>0, <2>1, <2>2, SessionsStayInTime DEF RolesInv
  <2>. QED  BY <2>2, <2>3 DEF RolesInv, GrantedIsLast, RolesAreFresh, Carrying
<1>4. ASSUME NEW t \in Subjects, NEW g \in Groups, NEW e \in Emails, MoveAccount(t, g, e)
      PROVE  RolesInv'
  <2>1. /\ UNCHANGED <<now, cookies, pc, who, roles, answer>>
        /\ \A s \in Subjects, r \in RoleNames :
              granted'[s][r] = IF s = t /\ r \in DecodeRoles(directory[t].groups) \cup DecodeRoles(g)
                               THEN now ELSE granted[s][r]
        /\ \A s \in Subjects : directory'[s].groups = IF s = t THEN g ELSE directory[s].groups
    BY <1>0, <1>4 DEF MoveAccount, flowVars
  <2>2. \A s \in Subjects, r \in RoleNames : granted[s][r] <= granted'[s][r]
    BY <1>0, <2>1 DEF RolesInv, GrantedIsLast
  <2>3. GrantedIsLast'
    BY <1>0, <2>1 DEF RolesInv, GrantedIsLast
  <2>4. SessionsEndInTime'
    BY <2>1, <2>2, SessionsStayInTime DEF RolesInv
  <2>5. RolesAreFresh'
    BY <2>1, SessionTypes DEF RolesInv, RolesAreFresh, Carrying
  <2>. QED  BY <2>3, <2>4, <2>5 DEF RolesInv
<1>. QED  BY <1>1, <1>2, <1>3, <1>4

\* In every behaviour, whoever is let in with a role had it at the provider
\* less than TTL ago, whatever became of the account meanwhile.
THEOREM RolesAgeOutAlways == Spec => []RolesAgeOut
<1>1. Init => RolesInv
  BY SessionBounds
     DEF Init, RolesInv, GrantedIsLast, RolesAreFresh, Carrying, SessionsEndInTime, EmptyJar
<1>2. TypeInv /\ TypeInv' /\ RolesInv /\ [Next]_vars => RolesInv'
  <2>. SUFFICES ASSUME TypeInv, TypeInv', RolesInv, [Next]_vars PROVE RolesInv'
    OBVIOUS
  <2>1. CASE Boot \/ Restart \/ UNCHANGED vars
    <3>1. UNCHANGED <<now, directory, granted, cookies, pc, who, roles, answer>>
      BY <2>1 DEF Boot, Migrate, DiscoverFails, Discover, Restart, vars, flowVars, idpVars
    <3>. QED  BY <3>1
              DEF RolesInv, GrantedIsLast, RolesAreFresh, Carrying, SessionsEndInTime
  <2>. QED  BY <2>1, RolesLogin, RolesRest DEF Next, Idle
<1>3. TypeInv /\ RolesInv => RolesAgeOut
  <2>. SUFFICES ASSUME TypeInv, RolesInv, NEW b \in Browsers, NEW need \in RoleNames,
                       Guard(cookies[b].session, need) = "200"
                PROVE  now < granted[cookies[b].session.sub][need] + TTL
    BY DEF RolesAgeOut
  <2>1. /\ cookies[b].session # NoSession /\ now < cookies[b].session.exp
        /\ need \in cookies[b].session.roles
    BY DEF Guard, Verify
  <2>2. cookies[b].session.exp <= granted[cookies[b].session.sub][need] + TTL
    BY <2>1 DEF RolesInv, SessionsEndInTime
  <2>. QED  BY <2>1, <2>2, SessionTypes
<1>. QED  BY TypeInvAlways, <1>1, <1>2, <1>3, PTL DEF Spec

-----------------------------------------------------------------------------
(* The state cookie.                                                       *)

\* A login that has met no other finds at the callback the cookies it set.
CookiesStay ==
    \A p \in Logins : pc[p] = "atProvider" /\ p \notin crossed =>
        cookies[tab[p]].state = p /\ cookies[tab[p]].verifier = p

StateInv == CookiesStay /\ StateLostOnlyWhenCrossed

\* A step of a login keeps it: whoever writes the cookies of a browser marks
\* the logins that are running there.
LEMMA StateLogin ==
    ASSUME TypeInv, StateInv, NEW p \in Logins,
           Login(p) \/ Serve(p) \/ CallbackFails(p) \/ \E s \in Subjects : Callback(p, s)
    PROVE  StateInv'
<1>0. /\ pc \in [Logins -> {"new", "atProvider", "exchange", "upsertUser",
                            "upsertSettings", "issue", "answered", "done"}]
      /\ answer \in [Logins -> Answers] /\ cookies \in [Browsers -> Jar]
      /\ tab \in [Logins -> Browsers] /\ p # None
  BY SessionDomains DEF TypeInv, TypeOK, FlowTypeOK
<1>1. ASSUME Meet(p), UNCHANGED <<tab, answer>>, \A q \in Logins \ {p} : pc'[q] = pc[q],
             \A b \in Browsers \ {tab[p]} : cookies'[b] = cookies[b],
             pc'[p] = "atProvider" =>
                cookies'[tab[p]].state = p /\ cookies'[tab[p]].verifier = p
      PROVE  StateInv'
  <2>1. crossed \subseteq crossed'
        /\ \A q \in Logins \ {p} : tab[q] = tab[p] /\ pc[q] = "atProvider" => q \in crossed'
    BY <1>1 DEF Meet, Running
  <2>. QED  BY <1>0, <1>1, <2>1 DEF StateInv, CookiesStay, StateLostOnlyWhenCrossed
<1>2. CASE Login(p)
  <2>1. /\ cookies'[tab[p]].state = p /\ cookies'[tab[p]].verifier = p
        /\ \A b \in Browsers \ {tab[p]} : cookies'[b] = cookies[b]
    BY <1>0, <1>2 DEF Login, Jar
  <2>2. Meet(p) /\ UNCHANGED <<tab, answer>> /\ \A q \in Logins \ {p} : pc'[q] = pc[q]
    BY <1>0, <1>2 DEF Login, Goto
  <2>. QED  BY <1>1, <2>1, <2>2
<1>3. CASE Deliver(p)
  <2>1. /\ Meet(p) /\ UNCHANGED <<tab, answer>> /\ pc'[p] = "done"
        /\ \A q \in Logins \ {p} : pc'[q] = pc[q]
        /\ \A b \in Browsers \ {tab[p]} : cookies'[b] = cookies[b]
    BY <1>0, <1>3 DEF Deliver, Goto
  <2>. QED  BY <1>1, <2>1
<1>4. ASSUME UNCHANGED <<cookies, tab, crossed>>, pc'[p] # "atProvider",
             \A q \in Logins \ {p} : pc'[q] = pc[q] /\ answer'[q] = answer[q],
             answer'[p] = "400" => answer[p] = "400" \/ p \in crossed
      PROVE  StateInv'
  BY <1>4 DEF StateInv, CookiesStay, StateLostOnlyWhenCrossed
<1>5. ASSUME NEW s \in Subjects, Callback(p, s) PROVE StateInv'
  <2>1. CASE cookies[tab[p]].state # p \/ cookies[tab[p]].verifier = None
    <3>1. p \in crossed
      BY <1>0, <1>5, <2>1 DEF Callback, StateInv, CookiesStay
    <3>. QED  BY <1>0, <1>4, <1>5, <2>1, <3>1 DEF Callback, Goto
  <2>2. CASE ~(cookies[tab[p]].state # p \/ cookies[tab[p]].verifier = None)
    BY <1>0, <1>4, <1>5, <2>2 DEF Callback, Goto
  <2>. QED  BY <2>1, <2>2
<1>6. CASE Exchange(p)
  BY <1>0, <1>4, <1>6 DEF Exchange, Reply, Goto
<1>7. CASE UpsertUser(p)
  BY <1>0, <1>4, <1>7 DEF UpsertUser, Reply, Goto
<1>8. CASE UpsertUserSettings(p) \/ Issue(p)
  BY <1>0, <1>4, <1>8 DEF UpsertUserSettings, Issue, Reply, Goto
<1>9. CASE CallbackFails(p)
  <2>1. PICK a \in {"401", "500", "502"} : Reply(p, a)
    BY <1>9 DEF CallbackFails
  <2>. QED  BY <1>0, <1>4, <1>9, <2>1 DEF CallbackFails, Reply, Goto
<1>. QED  BY <1>2, <1>3, <1>5, <1>6, <1>7, <1>8, <1>9 DEF Serve

\* In every behaviour a callback is refused for its state only if another login
\* ran in the same browser meanwhile, or the cookies expired.
THEOREM StateLostOnlyWhenCrossedAlways == Spec => []StateLostOnlyWhenCrossed
<1>1. Init => StateInv
  BY DEF Init, StateInv, CookiesStay, StateLostOnlyWhenCrossed, None
<1>2. TypeInv /\ StateInv /\ [Next]_vars => StateInv'
  <2>. SUFFICES ASSUME TypeInv, StateInv, [Next]_vars PROVE StateInv'
    OBVIOUS
  <2>1. CASE Boot \/ Restart \/ Advance \/ UNCHANGED vars
           \/ \E s \in Subjects, g \in Groups, e \in Emails : MoveAccount(s, g, e)
    <3>1. UNCHANGED <<cookies, pc, tab, answer, crossed>>
      BY <2>1 DEF Boot, Migrate, DiscoverFails, Discover, Restart, Advance, MoveAccount, vars,
                  flowVars
    <3>. QED  BY <3>1 DEF StateInv, CookiesStay, StateLostOnlyWhenCrossed
  <2>2. CASE Crash
    <3>1. /\ UNCHANGED <<cookies, tab, answer, crossed>>
          /\ \A p \in Logins : pc'[p] = "atProvider" => pc[p] = "atProvider"
      BY <2>2 DEF Crash
    <3>. QED  BY <3>1 DEF StateInv, CookiesStay, StateLostOnlyWhenCrossed
  <2>3. ASSUME NEW b \in Browsers, Logout(b) PROVE StateInv'
    <3>1. /\ UNCHANGED <<pc, tab, answer, crossed>>
          /\ \A c \in Browsers : /\ cookies'[c].state = cookies[c].state
                                 /\ cookies'[c].verifier = cookies[c].verifier
      BY <2>3 DEF Logout, flowVars, TypeInv, TypeOK, Jar
    <3>. QED  BY <3>1 DEF StateInv, CookiesStay, StateLostOnlyWhenCrossed, TypeInv, FlowTypeOK
  <2>4. ASSUME NEW b \in Browsers, CookiesExpire(b) PROVE StateInv'
    <3>1. /\ UNCHANGED <<pc, tab, answer>> /\ crossed \subseteq crossed'
          /\ \A p \in Logins : tab[p] = b /\ pc[p] = "atProvider" => p \in crossed'
          /\ \A c \in Browsers \ {b} : cookies'[c] = cookies[c]
      BY <2>4 DEF CookiesExpire, Running, TypeInv, TypeOK
    <3>. QED  BY <3>1 DEF StateInv, CookiesStay, StateLostOnlyWhenCrossed, TypeInv, FlowTypeOK
  <2>. QED  BY <2>1, <2>2, <2>3, <2>4, StateLogin DEF Next, Idle
<1>. QED  BY TypeInvAlways, <1>1, <1>2, PTL DEF Spec, StateInv

-----------------------------------------------------------------------------
(* An address that passes from one account to another.                     *)

\* owners remembers every address the directory or a user row has, and a login
\* that ended in an error met a fault or an address with two owners.
Shared(e) == \E s, t \in Subjects : s # t /\ s \in owners[e] /\ t \in owners[e]
OwnersRemember ==
    \A s \in Subjects : /\ s \in owners[directory[s].email]
                        /\ users[s] # None => s \in owners[users[s]]
ErrorHasCause ==
    \A p \in Logins : answer[p] = "500" => faults > 0 \/ \E e \in Emails : Shared(e)

EmailInv == OwnersRemember /\ ErrorHasCause

\* Two owners are more than one.
LEMMA SharedIsMany ==
    ASSUME TypeInv, NEW e \in Emails, Shared(e)
    PROVE  Cardinality(owners[e]) > 1
<1>1. PICK s \in owners[e], t \in owners[e] : s # t
  BY DEF Shared
<1>2. IsFiniteSet(owners[e])
  BY SessionDomains, FS_Subset DEF TypeInv, FlowTypeOK
<1>3. Cardinality(owners[e]) \in Nat /\ Cardinality(owners[e]) # 0
  BY <1>1, <1>2, FS_CardinalityType, FS_EmptySet
<1>4. Cardinality(owners[e]) # 1
  BY <1>1, <1>2, FS_Singleton
<1>. QED  BY <1>3, <1>4

\* A step of a login keeps it: the only refusal is that of uq_users_email.
LEMMA EmailLogin ==
    ASSUME TypeInv, EmailInv, NEW p \in Logins,
           Login(p) \/ Serve(p) \/ CallbackFails(p) \/ \E s \in Subjects : Callback(p, s)
    PROVE  EmailInv'
<1>0. /\ answer \in [Logins -> Answers] /\ users \in [Subjects -> Emails \cup {None}]
      /\ directory \in [Subjects -> [groups : Groups, email : Emails]]
      /\ faults \in Nat
      /\ None \notin Emails
      /\ pc[p] \in Working => who[p] \in Subjects
  BY SessionDomains DEF TypeInv, TypeOK, FlowTypeOK, WhoIsKnown
<1>1. ASSUME UNCHANGED <<users, directory, owners>>, faults' >= faults, faults' \in Nat,
             \A q \in Logins : answer'[q] = "500" =>
                answer[q] = "500" \/ faults' > 0 \/ \E e \in Emails : Shared(e)
      PROVE  EmailInv'
  BY <1>0, <1>1 DEF EmailInv, OwnersRemember, ErrorHasCause, Shared
<1>2. CASE Login(p)
  BY <1>0, <1>1, <1>2 DEF Login, idpVars
<1>3. ASSUME NEW s \in Subjects, Callback(p, s) PROVE EmailInv'
  BY <1>0, <1>1, <1>3 DEF Callback, idpVars
<1>4. CASE Exchange(p) \/ UpsertUserSettings(p) \/ Issue(p)
  BY <1>0, <1>1, <1>4 DEF Exchange, UpsertUserSettings, Issue, Reply, idpVars
<1>5. CASE Deliver(p)
  BY <1>0, <1>1, <1>5 DEF Deliver, idpVars
<1>6. CASE CallbackFails(p)
  <2>1. faults' = faults + 1 /\ UNCHANGED <<users, directory, owners>>
    BY <1>6 DEF CallbackFails, idpVars
  <2>. QED  BY <1>0, <1>1, <2>1
<1>7. CASE UpsertUser(p)
  <2>1. /\ who[p] \in Subjects /\ directory[who[p]].email \in Emails
        /\ UNCHANGED <<directory, owners, faults>>
    BY <1>0, <1>7 DEF UpsertUser, Working, idpVars
  <2>2. ASSUME NEW s \in Subjects \ {who[p]}, users[s] = directory[who[p]].email
        PROVE  EmailInv'
    <3>1. Shared(directory[who[p]].email)
      BY <1>0, <2>1, <2>2 DEF EmailInv, OwnersRemember, Shared
    <3>2. UNCHANGED users
      BY <1>7, <2>2 DEF UpsertUser
    <3>. QED  BY <1>0, <1>1, <2>1, <3>1, <3>2
  <2>3. CASE ~\E s \in Subjects \ {who[p]} : users[s] = directory[who[p]].email
    <3>1. /\ users' = [users EXCEPT ![who[p]] = directory[who[p]].email] /\ UNCHANGED answer
      BY <1>7, <2>3 DEF UpsertUser
    <3>. QED  BY <1>0, <2>1, <3>1 DEF EmailInv, OwnersRemember, ErrorHasCause, Shared
  <2>. QED  BY <2>2, <2>3
<1>. QED  BY <1>2, <1>3, <1>4, <1>5, <1>6, <1>7 DEF Serve

\* In every behaviour a login without a fault ends in an error only where an
\* address has passed from one account to another.
THEOREM LoginFailsOnlyOnSharedEmailAlways == Spec => []LoginFailsOnlyOnSharedEmail
<1>1. Init => EmailInv
  <2>. SUFFICES ASSUME Init PROVE EmailInv
    OBVIOUS
  <2>1. directory \in [Subjects -> [groups : Groups, email : Emails]]
    BY SessionBounds DEF Init
  <2>. QED  BY <2>1 DEF Init, EmailInv, OwnersRemember, ErrorHasCause, None
<1>2. TypeInv /\ TypeInv' /\ EmailInv /\ [Next]_vars => EmailInv'
  <2>. SUFFICES ASSUME TypeInv, TypeInv', EmailInv, [Next]_vars PROVE EmailInv'
    OBVIOUS
  <2>1. CASE \/ Boot \/ Restart \/ Crash \/ Advance \/ UNCHANGED vars
             \/ \E b \in Browsers : Logout(b) \/ CookiesExpire(b)
    <3>1. UNCHANGED <<users, directory, owners, answer>> /\ faults' \in {faults, faults + 1}
      BY <2>1 DEF Boot, Migrate, DiscoverFails, Discover, Restart, Crash, Advance, Logout,
                  CookiesExpire, vars, flowVars, idpVars
    <3>. QED  BY <3>1 DEF EmailInv, OwnersRemember, ErrorHasCause, Shared, TypeInv, TypeOK
  <2>2. ASSUME NEW t \in Subjects, NEW g \in Groups, NEW e \in Emails, MoveAccount(t, g, e)
        PROVE  EmailInv'
    <3>1. /\ UNCHANGED <<users, answer, faults>>
          /\ \A f \in Emails : owners[f] \subseteq owners'[f]
          /\ t \in owners'[e]
          /\ \A s \in Subjects : directory'[s].email = IF s = t THEN e ELSE directory[s].email
      BY <2>2 DEF MoveAccount, flowVars, TypeInv, TypeOK, FlowTypeOK
    <3>2. /\ users \in [Subjects -> Emails \cup {None}]
          /\ \A s \in Subjects : directory[s].email \in Emails
      BY DEF TypeInv, TypeOK
    <3>3. OwnersRemember'
      BY <3>1, <3>2 DEF EmailInv, OwnersRemember
    <3>4. ErrorHasCause'
      BY <3>1 DEF EmailInv, ErrorHasCause, Shared
    <3>. QED  BY <3>3, <3>4 DEF EmailInv
  <2>. QED  BY <2>1, <2>2, EmailLogin DEF Next, Idle
<1>3. TypeInv /\ EmailInv => LoginFailsOnlyOnSharedEmail
  BY SharedIsMany DEF EmailInv, ErrorHasCause, LoginFailsOnlyOnSharedEmail
<1>. QED  BY TypeInvAlways, <1>1, <1>2, <1>3, PTL DEF Spec
=============================================================================
