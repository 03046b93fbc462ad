------------------------ MODULE CalendarTokensProofs ------------------------
(***************************************************************************)
(* Proofs about CalendarTokens, for every number of requests and every     *)
(* content of the conference.                                              *)
(***************************************************************************)
EXTENDS CalendarTokens, FiniteSetTheorems, TLAPS

-----------------------------------------------------------------------------
(* The inductive invariant.                                                *)

Committed == {t \in Tokens : tokens[t] # Absent}

\* What TypeOK leaves out: the variables of the requests are functions.
TypeInv ==
    /\ TypeOK
    /\ DOMAIN priv = Requests
    /\ target \in [Requests -> SUBSET Tokens] /\ before \in [Requests -> SUBSET Tokens]
    /\ url \in [Requests -> Tokens \cup {Public}]

\* What a transaction has written: working tokens of others that it revokes,
\* and its own token between the INSERT and the COMMIT.
LockInv(p) ==
    /\ \A t \in DOMAIN priv[p] \ {p} :
        /\ tokens[t].status = "active" /\ priv[p][t].status = "revoked"
        /\ priv[p][t].used = tokens[t].used
    /\ p \in DOMAIN priv[p] <=> (pc[p] = "commit" /\ op[p] = "create")
    /\ p \in DOMAIN priv[p] => priv[p][p].status = "active"
    /\ DOMAIN priv[p] # {} => pc[p] \in {"revoke", "insert", "commit"}

\* A token is in the table only once its request is over, and whatever a
\* request remembers is in the table.
FreshInv(p) ==
    /\ p \in Committed => pc[p] \in Answers
    /\ target[p] \subseteq Committed /\ before[p] \subseteq Committed
    /\ url[p] \in Committed \cup {Public}

\* Which handler runs which statement.
OpInv(p) ==
    /\ pc[p] \in {"findActive", "revoke", "commit"} => op[p] \in {"create", "delete"}
    /\ pc[p] = "insert" => op[p] = "create"
    /\ pc[p] \in {"findToken", "touch", "build"} => op[p] = "fetch"
    /\ pc[p] \in {"findToken", "touch"} => url[p] # Public

\* The UPDATE leaves none of the tokens that worked when the request arrived.
SweepInv(p) ==
    /\ pc[p] = "revoke" => \A t \in before[p] : View(p, t).status = "active" => t \in target[p]
    /\ pc[p] \in {"insert", "commit"} => \A t \in before[p] : View(p, t).status # "active"
    /\ (op[p] = "delete" /\ pc[p] = "204") => before[p] \cap Active = {}

\* What a finished Create leaves in the table, or met there.
CreateInv(p) ==
    op[p] = "create" =>
        /\ pc[p] = "201" => p \in Committed
        /\ pc[p] = "500" => \E t \in Committed : t \notin {p} \cup before[p]

\* The token a fetch goes by worked when the fetch arrived, and is stamped
\* before the feed is built.
FetchInv(p) ==
    url[p] # Public =>
        /\ pc[p] = "findToken" => (url[p] \in Active => url[p] \in before[p])
        /\ pc[p] = "touch" => url[p] \in before[p]
        /\ (op[p] = "fetch" /\ pc[p] \in {"build", "200", "304"}) =>
                url[p] \in before[p] /\ tokens[url[p]].used

RequestInv(p) ==
    LockInv(p) /\ FreshInv(p) /\ OpInv(p) /\ SweepInv(p) /\ CreateInv(p) /\ FetchInv(p)

\* One working token; one transaction per row; and a transaction that has
\* inserted its token is the only one and sees no other that works.
Inserted(p) == p \in DOMAIN priv[p]
UniqueInv ==
    /\ \A s, t \in Active : s = t
    /\ \A p, q \in Requests : p # q => DOMAIN priv[p] \cap DOMAIN priv[q] = {}
    /\ \A p, q \in Requests : Inserted(p) /\ Inserted(q) => p = q
    /\ \A p \in Requests : Inserted(p) => \A t \in Tokens \ {p} : View(p, t).status # "active"

TokenInv == TypeInv /\ UniqueInv /\ \A p \in Requests : RequestInv(p)

-----------------------------------------------------------------------------
(* The requests that a step is not about.                                  *)

\* A step of p leaves the other requests where they are ...
OthersWait(p) ==
    \A q \in Requests \ {p} :
        /\ pc'[q] = pc[q] /\ op'[q] = op[q] /\ priv'[q] = priv[q] /\ target'[q] = target[q]
        /\ before'[q] = before[q] /\ url'[q] = url[q]

\* ... and in the table it adds at most its own token, brings none back, takes
\* no stamp away and leaves alone what others have locked.
TableMoves(p) ==
    /\ \A t \in Committed :
        /\ t \in Committed' /\ (t \in Active' => t \in Active)
        /\ tokens[t].used => tokens'[t].used
    /\ \A t \in Tokens \ {p} : t \notin Committed => tokens'[t] = tokens[t]
    /\ \A q \in Requests \ {p} : \A t \in DOMAIN priv[q] : tokens'[t] = tokens[t]

\* What is known of a request stays true while another one moves.
LEMMA OthersKeep ==
    ASSUME TokenInv, NEW p \in Requests, OthersWait(p), TableMoves(p),
           NEW q \in Requests \ {p}
    PROVE  RequestInv(q)'
<1>0. /\ q \in Tokens /\ RequestInv(q) /\ DOMAIN priv[q] \subseteq Tokens
      /\ before[q] \subseteq Committed /\ target[q] \subseteq Committed
      /\ url[q] \in Committed \cup {Public}
      /\ pc'[q] = pc[q] /\ op'[q] = op[q] /\ priv'[q] = priv[q] /\ target'[q] = target[q]
      /\ before'[q] = before[q] /\ url'[q] = url[q]
  BY DEF TokenInv, TypeInv, TypeOK, RequestInv, FreshInv, OthersWait, Tokens
<1>1. \A t \in DOMAIN priv[q] : tokens'[t] = tokens[t]
  BY DEF TableMoves
<1>2. \A t \in Committed : /\ t \in Committed' /\ (t \in Active' => t \in Active)
                           /\ tokens[t].used => tokens'[t].used
  BY DEF TableMoves
<1>3. q \notin Committed => q \notin Committed'
  BY <1>0 DEF TableMoves, Committed
<1>4. \A t \in Committed : View(q, t)'.status = "active" => View(q, t).status = "active"
  BY <1>0, <1>1, <1>2 DEF View, Active, Committed
<1>5. LockInv(q)'
  BY <1>0, <1>1 DEF RequestInv, LockInv
<1>6. FreshInv(q)'
  BY <1>0, <1>2, <1>3 DEF RequestInv, FreshInv
<1>7. OpInv(q)'
  BY <1>0 DEF RequestInv, OpInv
<1>8. SweepInv(q)'
  BY <1>0, <1>2, <1>4 DEF RequestInv, SweepInv
<1>9. CreateInv(q)'
  BY <1>0, <1>2 DEF RequestInv, CreateInv
<1>10. FetchInv(q)'
  <2>1. url[q] # Public => url[q] \in Committed
    BY <1>0
  <2>. QED  BY <1>0, <1>2, <2>1 DEF RequestInv, FetchInv
<1>. QED  BY <1>5, <1>6, <1>7, <1>8, <1>9, <1>10 DEF RequestInv

\* A step that leaves the table and the transactions alone.
LEMMA QuietStep ==
    ASSUME TokenInv, UNCHANGED <<tokens, priv>>, NEW p \in Requests
    PROVE  TableMoves(p) /\ UniqueInv'
BY DEF TokenInv, UniqueInv, TableMoves, Committed, Active, Inserted, View

-----------------------------------------------------------------------------
(* One action at a time.                                                   *)

\* The request arrives.
LEMMA BeginKeeps ==
    ASSUME TokenInv, NEW p \in Requests, NEW o \in {"create", "delete", "fetch", "list"},
           NEW label \in {"findActive", "404", "200", "build", "findToken"},
           Begin(p, o, label),
           label = "findActive" => o \in {"create", "delete"},
           label \in {"build", "findToken"} => o = "fetch",
           label = "findToken" => url'[p] # Public,
           label = "build" => url'[p] = Public,
           label = "200" => o = "list",
           UNCHANGED <<tokens, priv, target, misled>>,
           \E u \in Committed \cup {Public} : url' = [url EXCEPT ![p] = u]
    PROVE  TokenInv'
<1>0. /\ p \in Tokens /\ RequestInv(p) /\ TypeInv /\ pc[p] = "new" /\ pc'[p] = label
      /\ op'[p] = o /\ before'[p] = Active /\ DOMAIN priv[p] = {}
      /\ target'[p] = target[p] /\ priv'[p] = priv[p]
      /\ Active \subseteq Committed /\ p \notin Committed
      /\ url'[p] \in Committed \cup {Public}
  BY DEF TokenInv, TypeInv, TypeOK, RequestInv, LockInv, FreshInv, Begin, Goto, Active, Committed,
         Answers, Absent, Tokens
<1>1. OthersWait(p)
  BY DEF OthersWait, TokenInv, TypeInv, TypeOK, Begin, Goto
<1>2. TypeInv'
  BY <1>0 DEF TypeInv, TypeOK, Begin, Goto, Labels, Answers, Committed
<1>3. Committed' = Committed /\ Active' = Active /\ UNCHANGED <<tokens, priv>>
  BY DEF Committed, Active
<1>4. RequestInv(p)'
  <2>1. LockInv(p)' /\ OpInv(p)' /\ SweepInv(p)' /\ CreateInv(p)' /\ FetchInv(p)'
    BY <1>0, <1>3 DEF LockInv, OpInv, SweepInv, CreateInv, FetchInv
  <2>2. FreshInv(p)'
    BY <1>0, <1>3 DEF RequestInv, FreshInv
  <2>. QED  BY <2>1, <2>2 DEF RequestInv
<1>5. \A q \in Requests : RequestInv(q)'
  BY <1>1, <1>4, QuietStep, OthersKeep
<1>. QED  BY <1>2, <1>5, QuietStep DEF TokenInv

\* A request that arrives writes nothing.
LEMMA ArrivalKeeps ==
    ASSUME TokenInv, NEW p \in Requests,
           \/ CreateCalendarToken(p) \/ DeleteCalendarToken(p) \/ ListMyCalendarTokens(p)
           \/ \E u \in Tokens \cup {Public} : StartFetch(p, u)
    PROVE  TokenInv'
<1>0. url \in [Requests -> Tokens \cup {Public}] /\ url[p] \in Committed \cup {Public}
  BY DEF TokenInv, TypeInv, RequestInv, FreshInv
<1>1. UNCHANGED url => \E u \in Committed \cup {Public} : url' = [url EXCEPT ![p] = u]
  BY <1>0
<1>2. CASE CreateCalendarToken(p)
  BY <1>1, <1>2, BeginKeeps DEF CreateCalendarToken
<1>3. CASE DeleteCalendarToken(p)
  BY <1>1, <1>3, BeginKeeps DEF DeleteCalendarToken
<1>4. CASE ListMyCalendarTokens(p)
  BY <1>1, <1>4, BeginKeeps DEF ListMyCalendarTokens
<1>5. ASSUME NEW u \in Tokens \cup {Public}, StartFetch(p, u) PROVE TokenInv'
  <2>1. url'[p] = u /\ u \in Committed \cup {Public}
    BY <1>0, <1>5 DEF StartFetch, Committed
  <2>2. CASE u = Public
    BY <1>5, <2>1, <2>2, BeginKeeps DEF StartFetch
  <2>3. CASE u # Public
    BY <1>5, <2>1, <2>3, BeginKeeps DEF StartFetch
  <2>. QED  BY <2>2, <2>3
<1>. QED  BY <1>2, <1>3, <1>4, <1>5

\* Statements that only read, and the end of the UPDATE.
LEMMA ReadKeeps ==
    ASSUME TokenInv, NEW p \in Requests,
           \/ FindActive(p) \/ Revoked(p) \/ FindToken(p)
           \/ \E c \in Conference, held \in Bodies \cup {NoBody} : Respond(p, c, held)
    PROVE  TokenInv'
<1>0. /\ p \in Tokens /\ RequestInv(p) /\ TypeInv /\ UNCHANGED <<tokens, priv, op, before, url>>
      /\ pc \in [Requests -> Labels] /\ target \in [Requests -> SUBSET Tokens]
      /\ misled \in BOOLEAN /\ before[p] \subseteq Tokens
      /\ Active \subseteq Committed
  BY DEF TokenInv, TypeInv, TypeOK, FindActive, Revoked, FindToken, Respond, Tokens, Active,
         Committed, Absent
<1>1. Committed' = Committed /\ Active' = Active
  BY <1>0 DEF Committed, Active
<1>2. \A t \in Tokens : View(p, t)' = View(p, t)
  BY <1>0 DEF View
<1>3. OthersWait(p)
  BY <1>0 DEF OthersWait, FindActive, Revoked, FindToken, Respond, Goto
<1>4. TypeInv'
  <2>1. pc' \in [Requests -> Labels] /\ target' \in [Requests -> SUBSET Tokens] /\ misled' \in BOOLEAN
    BY <1>0 DEF FindActive, Revoked, FindToken, Respond, Goto, Labels, Answers, Active
  <2>. QED  BY <1>0, <2>1 DEF TypeInv, TypeOK
<1>5. RequestInv(p)'
  <2>1. CASE FindActive(p)
    <3>1. pc[p] = "findActive" /\ pc'[p] = "revoke" /\ target'[p] = Active
      BY <1>0, <2>1 DEF FindActive, Goto
    <3>2. DOMAIN priv[p] = {} /\ \A t \in Tokens : View(p, t)' = tokens[t]
      BY <1>0, <1>2, <3>1 DEF RequestInv, LockInv, View
    <3>3. SweepInv(p)'
      BY <1>0, <3>1, <3>2 DEF SweepInv, Active
    <3>4. LockInv(p)' /\ OpInv(p)' /\ CreateInv(p)' /\ FetchInv(p)' /\ FreshInv(p)'
      BY <1>0, <1>1, <3>1, <3>2
         DEF RequestInv, LockInv, OpInv, CreateInv, FetchInv, FreshInv, Answers
    <3>. QED  BY <3>3, <3>4 DEF RequestInv
  <2>2. CASE Revoked(p)
    <3>1. /\ pc[p] = "revoke" /\ target[p] = {} /\ target' = target
          /\ pc'[p] = IF op[p] = "create" THEN "insert" ELSE "commit"
      BY <1>0, <2>2 DEF Revoked, Goto
    <3>2. SweepInv(p)'
      BY <1>0, <1>2, <3>1 DEF RequestInv, SweepInv
    <3>3. LockInv(p)' /\ OpInv(p)' /\ CreateInv(p)' /\ FetchInv(p)' /\ FreshInv(p)'
      BY <1>0, <1>1, <3>1
         DEF RequestInv, LockInv, OpInv, CreateInv, FetchInv, FreshInv, Answers
    <3>. QED  BY <3>2, <3>3 DEF RequestInv
  <2>3. CASE FindToken(p)
    <3>1. /\ pc[p] = "findToken" /\ target' = target
          /\ pc'[p] = IF url[p] \in Active THEN "touch" ELSE "404"
      BY <1>0, <2>3 DEF FindToken, Goto
    <3>. QED  BY <1>0, <1>1, <3>1
       DEF RequestInv, LockInv, OpInv, SweepInv, CreateInv, FetchInv, FreshInv, Answers
  <2>4. ASSUME NEW c \in Conference, NEW held \in Bodies \cup {NoBody}, Respond(p, c, held)
        PROVE  RequestInv(p)'
    <3>1. pc[p] = "build" /\ target' = target /\ pc'[p] \in {"304", "200"}
      BY <1>0, <2>4 DEF Respond, Goto
    <3>. QED  BY <1>0, <1>1, <3>1
       DEF RequestInv, LockInv, OpInv, SweepInv, CreateInv, FetchInv, FreshInv, Answers
  <2>. QED  BY <2>1, <2>2, <2>3, <2>4
<1>6. \A q \in Requests : RequestInv(q)'
  BY <1>0, <1>3, <1>5, QuietStep, OthersKeep
<1>. QED  BY <1>0, <1>4, <1>6, QuietStep DEF TokenInv

\* A row of the UPDATE gets its lock.
LEMMA RevokeKeeps ==
    ASSUME TokenInv, NEW p \in Requests, NEW t \in Tokens, RevokeRow(p, t)
    PROVE  TokenInv'
<1>0. /\ p \in Tokens /\ RequestInv(p) /\ TypeInv /\ UniqueInv
      /\ UNCHANGED <<tokens, op, pc, before, url, misled>>
      /\ pc[p] = "revoke" /\ t \in target[p] /\ target'[p] = target[p] \ {t}
      /\ before[p] \subseteq Tokens /\ tokens[t] \in Row
      /\ t # p /\ p \notin DOMAIN priv[p]
      /\ \A q \in Requests \ {p} : t \notin DOMAIN priv[q]
  BY DEF TokenInv, TypeInv, TypeOK, RequestInv, FreshInv, LockInv, RevokeRow, Free, Tokens,
         Committed, Answers
<1>1. /\ Committed' = Committed /\ Active' = Active /\ TableMoves(p)
  BY <1>0 DEF Committed, Active, TableMoves
<1>2. CASE tokens[t].status # "active"
  <2>1. UNCHANGED priv /\ OthersWait(p)
    BY <1>0, <1>2 DEF RevokeRow, OthersWait, TypeInv
  <2>2. TypeInv'
    BY <1>0, <2>1 DEF TypeInv, TypeOK, RevokeRow
  <2>3. View(p, t).status # "active"
    BY <1>0, <1>2 DEF RequestInv, LockInv, View
  <2>4. RequestInv(p)'
    <3>1. SweepInv(p)'
      BY <1>0, <2>1, <2>3 DEF RequestInv, SweepInv, View
    <3>2. LockInv(p)' /\ OpInv(p)' /\ CreateInv(p)' /\ FetchInv(p)' /\ FreshInv(p)'
      BY <1>0, <1>1, <2>1
         DEF RequestInv, LockInv, OpInv, CreateInv, FetchInv, FreshInv, Answers
    <3>. QED  BY <3>1, <3>2 DEF RequestInv
  <2>5. \A q \in Requests : RequestInv(q)'
    BY <1>1, <2>1, <2>4, OthersKeep
  <2>. QED  BY <1>0, <2>1, <2>2, <2>5, QuietStep DEF TokenInv
<1>3. CASE tokens[t].status = "active"
  <2>0. tokens[t].used \in BOOLEAN
    BY <1>0, <1>3 DEF Row, Absent
  <2>1. /\ DOMAIN priv' = Requests /\ DOMAIN priv'[p] = DOMAIN priv[p] \cup {t}
        /\ priv'[p][t] = [status |-> "revoked", used |-> tokens[t].used]
        /\ \A s \in DOMAIN priv[p] \ {t} : priv'[p][s] = priv[p][s]
        /\ \A q \in Requests \ {p} : priv'[q] = priv[q]
    <3>1. [tokens[t] EXCEPT !.status = "revoked"] = [status |-> "revoked", used |-> tokens[t].used]
      BY <1>0, <1>3 DEF Row, Absent
    <3>2. priv' = [priv EXCEPT ![p] = [s \in DOMAIN priv[p] \cup {t} |->
                IF s = t THEN [status |-> "revoked", used |-> tokens[t].used] ELSE priv[p][s]]]
      BY <1>3, <3>1 DEF RevokeRow, Write
    <3>. QED  BY <1>0, <3>2 DEF TypeInv
  <2>2. OthersWait(p)
    BY <1>0, <2>1 DEF OthersWait, RevokeRow, TypeInv
  <2>3. TypeInv'
    <3>1. target' \in [Requests -> SUBSET Tokens]
      BY <1>0 DEF RevokeRow, TypeInv
    <3>2. [status |-> "revoked", used |-> tokens[t].used] \in Row \ {Absent}
      BY <2>0 DEF Row, Absent
    <3>. QED  BY <1>0, <2>1, <3>1, <3>2 DEF TypeInv, TypeOK
  <2>4. \A s \in Tokens : View(p, s)' = IF s = t THEN priv'[p][t] ELSE View(p, s)
    BY <1>0, <2>1 DEF View
  <2>5. RequestInv(p)'
    <3>1. LockInv(p)'
      BY <1>0, <1>3, <2>1 DEF RequestInv, LockInv
    <3>2. SweepInv(p)'
      BY <1>0, <2>1, <2>4 DEF RequestInv, SweepInv
    <3>3. OpInv(p)' /\ CreateInv(p)' /\ FetchInv(p)' /\ FreshInv(p)'
      BY <1>0, <1>1 DEF RequestInv, OpInv, CreateInv, FetchInv, FreshInv
    <3>. QED  BY <3>1, <3>2, <3>3 DEF RequestInv
  <2>6. UniqueInv'
    <3>1. \A q \in Requests : Inserted(q)' => Inserted(q) /\ q # p
      BY <1>0, <2>1 DEF Inserted
    <3>2. \A q \in Requests \ {p} : \A s \in Tokens : View(q, s)' = View(q, s)
      BY <1>0, <2>1 DEF View
    <3>3. \A q, r \in Requests : q # r => DOMAIN priv'[q] \cap DOMAIN priv'[r] = {}
      BY <1>0, <2>1 DEF UniqueInv
    <3>. QED  BY <1>0, <1>1, <3>1, <3>2, <3>3 DEF UniqueInv
  <2>7. \A q \in Requests : RequestInv(q)'
    BY <1>1, <2>2, <2>5, OthersKeep
  <2>. QED  BY <2>3, <2>6, <2>7 DEF TokenInv
<1>. QED  BY <1>2, <1>3

\* The INSERT succeeds: nobody else has inserted or revoked anything.
LEMMA InsertKeeps ==
    ASSUME TokenInv, NEW p \in Requests, InsertToken(p)
    PROVE  TokenInv'
<1>0. /\ p \in Tokens /\ RequestInv(p) /\ TypeInv /\ UniqueInv
      /\ UNCHANGED <<tokens, op, target, before, url, misled>>
      /\ pc[p] = "insert" /\ pc'[p] = "commit" /\ op[p] = "create"
      /\ before[p] \subseteq Committed /\ p \notin Committed /\ Committed \subseteq Tokens
      /\ p \notin DOMAIN priv[p]
  BY DEF TokenInv, TypeInv, TypeOK, RequestInv, FreshInv, LockInv, OpInv, InsertToken, Goto, Tokens,
         Committed, Answers
<1>1. /\ Committed' = Committed /\ Active' = Active /\ TableMoves(p)
  BY <1>0 DEF Committed, Active, TableMoves
<1>2. /\ DOMAIN priv' = Requests /\ DOMAIN priv'[p] = DOMAIN priv[p] \cup {p}
      /\ priv'[p][p] = [status |-> "active", used |-> FALSE]
      /\ \A s \in DOMAIN priv[p] : priv'[p][s] = priv[p][s]
      /\ \A q \in Requests \ {p} : priv'[q] = priv[q]
  BY <1>0 DEF InsertToken, Write, TypeInv
<1>3. OthersWait(p)
  BY <1>0, <1>2 DEF OthersWait, InsertToken, Goto, TypeInv, TypeOK
<1>4. TypeInv'
  <2>1. pc' \in [Requests -> Labels]
    BY <1>0 DEF InsertToken, Goto, TypeInv, TypeOK, Labels
  <2>2. [status |-> "active", used |-> FALSE] \in Row \ {Absent}
    BY DEF Row, Absent
  <2>. QED  BY <1>0, <1>2, <2>1, <2>2 DEF TypeInv, TypeOK
<1>5. \A s \in Tokens \ {p} : View(p, s)' = View(p, s) /\ View(p, s).status # "active"
  BY <1>0, <1>2 DEF View, InsertToken, Rivals
<1>6. RequestInv(p)'
  <2>1. LockInv(p)'
    BY <1>0, <1>2 DEF RequestInv, LockInv
  <2>2. SweepInv(p)'
    BY <1>0, <1>5 DEF SweepInv
  <2>3. OpInv(p)' /\ CreateInv(p)' /\ FetchInv(p)' /\ FreshInv(p)'
    BY <1>0, <1>1 DEF RequestInv, OpInv, CreateInv, FetchInv, FreshInv
  <2>. QED  BY <2>1, <2>2, <2>3 DEF RequestInv
<1>7. UniqueInv'
  <2>1. \A q \in Requests \ {p} : ~Inserted(q) /\ ~Inserted(q)'
    <3>. SUFFICES ASSUME NEW q \in Requests \ {p}, Inserted(q) PROVE FALSE
      BY <1>2 DEF Inserted
    <3>1. priv[q][q].status = "active" /\ q \in Tokens
      BY DEF TokenInv, RequestInv, LockInv, Inserted, Tokens
    <3>2. q \in Undecided(p)
      BY <3>1 DEF Undecided, Inserted
    <3>. QED  BY <3>2 DEF InsertToken
  <2>2. \A q \in Requests \ {p} : p \notin DOMAIN priv[q]
    BY <1>0 DEF TokenInv, RequestInv, LockInv, Committed, Absent
  <2>3. \A q, r \in Requests : q # r => DOMAIN priv'[q] \cap DOMAIN priv'[r] = {}
    BY <1>0, <1>2, <2>2 DEF UniqueInv
  <2>. QED  BY <1>0, <1>1, <1>5, <2>1, <2>3 DEF UniqueInv
<1>8. \A q \in Requests : RequestInv(q)'
  BY <1>1, <1>3, <1>6, OthersKeep
<1>. QED  BY <1>4, <1>7, <1>8 DEF TokenInv

\* The refused INSERT and the rollback: the transaction leaves nothing.
LEMMA DropKeeps ==
    ASSUME TokenInv, NEW p \in Requests, InsertConflict(p) \/ Rollback(p)
    PROVE  TokenInv'
<1>0. /\ p \in Tokens /\ RequestInv(p) /\ TypeInv /\ UniqueInv
      /\ UNCHANGED <<tokens, op, before, url, misled>>
      /\ pc[p] \notin {"new"} \cup Answers /\ Committed \subseteq Tokens
  BY DEF TokenInv, InsertConflict, Rollback, Drop, InFlight, Answers, Tokens, Committed
<1>1. PICK a \in {"500", "404", "lost"} : Drop(p, a) /\ (a = "500" => InsertConflict(p))
  BY DEF InsertConflict, Rollback
<1>2. /\ Committed' = Committed /\ Active' = Active /\ TableMoves(p)
  BY <1>0 DEF Committed, Active, TableMoves
<1>3. /\ DOMAIN priv' = Requests /\ DOMAIN priv'[p] = {}
      /\ target'[p] = {} /\ pc'[p] = a
      /\ \A q \in Requests \ {p} : priv'[q] = priv[q]
      /\ pc' \in [Requests -> Labels] /\ target' \in [Requests -> SUBSET Tokens]
  BY <1>0, <1>1 DEF Drop, Goto, Nothing, TypeInv, TypeOK, Labels, Answers
<1>4. OthersWait(p)
  BY <1>0, <1>1, <1>3 DEF OthersWait, Drop, Goto, TypeInv, TypeOK
<1>5. TypeInv'
  BY <1>0, <1>3 DEF TypeInv, TypeOK
<1>6. UniqueInv'
  <2>1. \A q \in Requests : Inserted(q)' => Inserted(q) /\ q # p
    BY <1>3 DEF Inserted
  <2>2. \A q \in Requests \ {p} : \A s \in Tokens : View(q, s)' = View(q, s)
    BY <1>0, <1>3 DEF View
  <2>3. \A q, r \in Requests : q # r => DOMAIN priv'[q] \cap DOMAIN priv'[r] = {}
    BY <1>0, <1>3 DEF UniqueInv
  <2>. QED  BY <1>0, <1>2, <2>1, <2>2, <2>3 DEF UniqueInv
<1>7. RequestInv(p)'
  <2>1. LockInv(p)' /\ OpInv(p)' /\ SweepInv(p)' /\ FetchInv(p)'
    BY <1>3 DEF LockInv, OpInv, SweepInv, FetchInv
  <2>2. FreshInv(p)'
    BY <1>0, <1>2, <1>3 DEF RequestInv, FreshInv, Answers
  <2>3. CreateInv(p)'
    <3>1. CASE a # "500"
      BY <1>3, <3>1 DEF CreateInv
    <3>2. CASE a = "500"
      <4>1. PICK t \in Tokens : View(p, t).status = "active"
        BY <1>1, <3>2 DEF InsertConflict, Rivals
      <4>2. pc[p] = "insert" /\ p \notin DOMAIN priv[p] /\ p \notin Committed
        BY <1>0, <1>1, <3>2 DEF InsertConflict, RequestInv, LockInv, FreshInv
      <4>3. tokens[t].status = "active" /\ t \in Committed /\ t # p
        BY <1>0, <4>1, <4>2 DEF RequestInv, LockInv, View, Committed, Absent
      <4>4. t \notin before[p]
        BY <1>0, <4>1, <4>2 DEF RequestInv, SweepInv
      <4>. QED  BY <1>0, <1>2, <1>3, <4>3, <4>4, <3>2 DEF CreateInv
    <3>. QED  BY <3>1, <3>2
  <2>. QED  BY <2>1, <2>2, <2>3 DEF RequestInv
<1>8. \A q \in Requests : RequestInv(q)'
  BY <1>2, <1>4, <1>7, OthersKeep
<1>. QED  BY <1>5, <1>6, <1>8 DEF TokenInv

\* The COMMIT, also when nobody hears of it.
LEMMA CommitKeeps ==
    ASSUME TokenInv, NEW p \in Requests, Commit(p)
    PROVE  TokenInv'
<1>0. /\ p \in Tokens /\ RequestInv(p) /\ TypeInv /\ UniqueInv
      /\ UNCHANGED <<op, before, url, misled>>
      /\ pc[p] = "commit" /\ Committed \subseteq Tokens /\ Active \subseteq Tokens
      /\ DOMAIN priv[p] \subseteq Tokens /\ before[p] \subseteq Committed /\ p \notin Committed
      /\ op[p] \in {"create", "delete"} /\ (Inserted(p) <=> op[p] = "create")
  BY DEF TokenInv, Commit, Drop, Tokens, Committed, Active, TypeInv, TypeOK, RequestInv, OpInv,
         LockInv, FreshInv, Inserted, Answers
<1>1. PICK a \in {"201", "204", "lost"} :
        Drop(p, a) /\ (a = "201" => op[p] = "create") /\ (a = "204" => op[p] = "delete")
  BY <1>0 DEF Commit
<1>2. \A t \in Tokens : tokens'[t] = IF t \in DOMAIN priv[p] THEN priv[p][t] ELSE tokens[t]
  BY DEF Commit, View
<1>3. /\ DOMAIN priv' = Requests /\ DOMAIN priv'[p] = {}
      /\ target'[p] = {} /\ pc'[p] = a
      /\ \A q \in Requests \ {p} : priv'[q] = priv[q]
      /\ pc' \in [Requests -> Labels] /\ target' \in [Requests -> SUBSET Tokens]
  BY <1>0, <1>1 DEF Drop, Goto, Nothing, TypeInv, TypeOK, Labels, Answers
<1>4. OthersWait(p)
  BY <1>0, <1>1, <1>3 DEF OthersWait, Drop, Goto, TypeInv, TypeOK
<1>5. TypeInv'
  <2>1. \A t \in Tokens : View(p, t) \in Row
    BY <1>0 DEF View, TypeInv, TypeOK
  <2>2. tokens' \in [Tokens -> Row]
    BY <2>1 DEF Commit
  <2>. QED  BY <1>0, <1>3, <2>2 DEF TypeInv, TypeOK
<1>6. TableMoves(p)
  <2>1. \A t \in DOMAIN priv[p] \ {p} :
          /\ priv[p][t].status = "revoked" /\ priv[p][t].used = tokens[t].used
          /\ tokens[t].status = "active"
    BY <1>0 DEF RequestInv, LockInv
  <2>2. \A t \in Committed : /\ t \in Committed' /\ (t \in Active' => t \in Active)
                             /\ tokens[t].used => tokens'[t].used
    BY <1>0, <1>2, <2>1 DEF Committed, Active, Absent
  <2>3. \A t \in Tokens \ {p} : t \notin Committed => tokens'[t] = tokens[t]
    BY <1>2, <2>1 DEF Committed, Absent
  <2>4. \A q \in Requests \ {p} : \A t \in DOMAIN priv[q] : tokens'[t] = tokens[t]
    BY <1>0, <1>2 DEF UniqueInv, TypeInv, TypeOK
  <2>. QED  BY <2>2, <2>3, <2>4 DEF TableMoves
<1>7. /\ Inserted(p) => Active' = {p} /\ p \in Committed'
      /\ ~Inserted(p) => Active' \subseteq Active
  <2>1. CASE Inserted(p)
    <3>1. tokens'[p].status = "active"
      BY <1>0, <1>2, <2>1 DEF RequestInv, LockInv, Inserted
    <3>2. \A t \in Tokens \ {p} : tokens'[t].status # "active"
      BY <1>0, <1>2, <2>1 DEF UniqueInv, View
    <3>. QED  BY <1>0, <2>1, <3>1, <3>2 DEF Active, Committed, Absent
  <2>2. CASE ~Inserted(p)
    BY <1>0, <1>2, <2>2 DEF RequestInv, LockInv, Active, Inserted
  <2>. QED  BY <2>1, <2>2
<1>8. UniqueInv'
  <2>1. \A q \in Requests : Inserted(q)' => Inserted(q) /\ q # p /\ ~Inserted(p)
    BY <1>0, <1>3 DEF Inserted, UniqueInv
  <2>2. \A q, r \in Requests : q # r => DOMAIN priv'[q] \cap DOMAIN priv'[r] = {}
    BY <1>0, <1>3 DEF UniqueInv
  <2>3. \A s, t \in Active' : s = t
    BY <1>0, <1>7 DEF UniqueInv
  <2>4. ASSUME NEW q \in Requests, Inserted(q)', NEW t \in Tokens \ {q}
        PROVE  View(q, t)'.status # "active"
    <3>1. View(q, t).status # "active" /\ priv'[q] = priv[q]
      BY <1>0, <1>3, <2>1, <2>4 DEF UniqueInv
    <3>2. t \in Active' => t \in Active
      BY <1>7, <2>1, <2>4
    <3>. QED  BY <3>1, <3>2 DEF View, Active
  <2>5. \A q, r \in Requests : Inserted(q)' /\ Inserted(r)' => q = r
    BY <1>0, <2>1 DEF UniqueInv
  <2>6. \A q \in Requests : Inserted(q)' => \A t \in Tokens \ {q} : View(q, t)'.status # "active"
    BY <2>4
  <2>. QED  BY <2>2, <2>3, <2>5, <2>6 DEF UniqueInv
<1>9. RequestInv(p)'
  <2>1. LockInv(p)' /\ OpInv(p)' /\ FetchInv(p)'
    BY <1>0, <1>3 DEF LockInv, OpInv, FetchInv
  <2>2. FreshInv(p)'
    <3>1. before[p] \subseteq Committed' /\ url[p] \in Committed' \cup {Public}
      BY <1>0, <1>6 DEF TableMoves, RequestInv, FreshInv
    <3>. QED  BY <1>0, <1>3, <3>1 DEF FreshInv, Answers
  <2>3. SweepInv(p)'
    <3>1. \A t \in before[p] : tokens'[t].status # "active"
      BY <1>0, <1>2 DEF RequestInv, SweepInv, View
    <3>. QED  BY <1>0, <1>3, <3>1 DEF SweepInv, Active
  <2>4. CreateInv(p)'
    BY <1>0, <1>1, <1>3, <1>7 DEF CreateInv
  <2>. QED  BY <2>1, <2>2, <2>3, <2>4 DEF RequestInv
<1>10. \A q \in Requests : RequestInv(q)'
  BY <1>4, <1>6, <1>9, OthersKeep
<1>. QED  BY <1>5, <1>8, <1>10 DEF TokenInv

\* Setting last_used_at changes nothing else of the row.
LEMMA StampedRow ==
    ASSUME NEW r \in Row \ {Absent}
    PROVE  LET s == [r EXCEPT !.used = TRUE] IN s \in Row /\ s.used /\ s.status = r.status
<1>1. r \in [status : {"active", "revoked"}, used : BOOLEAN]
  BY DEF Row
<1>2. [r EXCEPT !.used = TRUE] \in [status : {"active", "revoked"}, used : BOOLEAN]
  BY <1>1
<1>3. [r EXCEPT !.used = TRUE].used /\ [r EXCEPT !.used = TRUE].status = r.status
  BY <1>1
<1>. QED  BY <1>2, <1>3 DEF Row

\* The stamp of a fetch: it waits for the row, so no open transaction holds it.
LEMMA TouchKeeps ==
    ASSUME TokenInv, NEW p \in Requests, TouchToken(p)
    PROVE  TokenInv'
<1>0. /\ p \in Tokens /\ RequestInv(p) /\ TypeInv /\ UniqueInv
      /\ UNCHANGED <<priv, op, target, before, url, misled>>
      /\ pc[p] = "touch" /\ op[p] = "fetch" /\ url[p] \in Committed /\ url[p] \in Tokens
      /\ url[p] \in before[p] /\ DOMAIN priv[p] = {}
      /\ \A q \in Requests : url[p] \notin DOMAIN priv[q]
  BY DEF TokenInv, TouchToken, Free, Tokens, Committed, TypeInv, TypeOK, RequestInv, OpInv, LockInv,
         FreshInv, FetchInv
<1>1. CASE url[p] \notin Active
  <2>1. UNCHANGED tokens /\ pc'[p] = "404" /\ pc' \in [Requests -> Labels]
    BY <1>0, <1>1 DEF TouchToken, Goto, TypeInv, TypeOK, Labels, Answers
  <2>2. OthersWait(p)
    BY <1>0, <1>1 DEF OthersWait, TouchToken, Goto, TypeInv, TypeOK
  <2>3. Committed' = Committed /\ Active' = Active
    BY <2>1 DEF Committed, Active
  <2>4. RequestInv(p)'
    BY <1>0, <2>1, <2>3
       DEF RequestInv, LockInv, OpInv, SweepInv, CreateInv, FetchInv, FreshInv, Answers
  <2>5. TypeInv'
    BY <1>0, <2>1 DEF TypeInv, TypeOK
  <2>6. \A q \in Requests : RequestInv(q)'
    BY <1>0, <2>1, <2>2, <2>4, QuietStep, OthersKeep
  <2>. QED  BY <1>0, <2>1, <2>5, <2>6, QuietStep DEF TokenInv
<1>2. CASE url[p] \in Active
  <2>0. tokens[url[p]] \in Row \ {Absent}
    BY <1>0, <1>2 DEF TypeInv, TypeOK, Active, Absent
  <2>1. /\ tokens' = [tokens EXCEPT ![url[p]].used = TRUE]
        /\ pc'[p] = "build" /\ pc' \in [Requests -> Labels]
    BY <1>0, <1>2 DEF TouchToken, Goto, TypeInv, TypeOK, Labels, Answers
  <2>2. /\ tokens'[url[p]].status = tokens[url[p]].status /\ tokens'[url[p]].used
        /\ \A t \in Tokens \ {url[p]} : tokens'[t] = tokens[t]
        /\ tokens' \in [Tokens -> Row]
    <3>1. /\ \A t \in Tokens \ {url[p]} : tokens'[t] = tokens[t]
          /\ tokens'[url[p]] = [tokens[url[p]] EXCEPT !.used = TRUE]
          /\ tokens \in [Tokens -> Row] /\ tokens' = [t \in Tokens |-> tokens'[t]]
      BY <1>0, <2>1 DEF TypeInv, TypeOK
    <3>. QED  BY <2>0, <3>1, StampedRow
  <2>3. OthersWait(p)
    BY <1>0, <1>2 DEF OthersWait, TouchToken, Goto, TypeInv, TypeOK
  <2>4. Active' = Active /\ Committed' = Committed
    BY <1>0, <1>2, <2>2 DEF Active, Committed, Absent
  <2>5. TableMoves(p)
    BY <1>0, <2>2, <2>4 DEF TableMoves, Committed, TypeInv, TypeOK
  <2>6. TypeInv'
    BY <1>0, <2>1, <2>2 DEF TypeInv, TypeOK
  <2>7. RequestInv(p)'
    <3>1. LockInv(p)' /\ OpInv(p)' /\ SweepInv(p)' /\ CreateInv(p)'
      BY <1>0, <2>1 DEF LockInv, OpInv, SweepInv, CreateInv
    <3>2. FreshInv(p)'
      BY <1>0, <2>4 DEF RequestInv, FreshInv, Answers
    <3>3. FetchInv(p)'
      BY <1>0, <2>1, <2>2 DEF FetchInv
    <3>. QED  BY <3>1, <3>2, <3>3 DEF RequestInv
  <2>8. UniqueInv'
    <3>1. \A q \in Requests, t \in Tokens : View(q, t)'.status = View(q, t).status
      BY <1>0, <1>2, <2>2 DEF View, Active
    <3>. QED  BY <1>0, <2>4, <3>1 DEF UniqueInv, Inserted
  <2>9. \A q \in Requests : RequestInv(q)'
    BY <2>3, <2>5, <2>7, OthersKeep
  <2>. QED  BY <2>6, <2>8, <2>9 DEF TokenInv
<1>. QED  BY <1>1, <1>2

\* The inductive invariant holds in every behaviour.
LEMMA TokenInvStep == TokenInv /\ [Next]_vars => TokenInv'
<1>. SUFFICES ASSUME TokenInv, [Next]_vars PROVE TokenInv'
  OBVIOUS
<1>1. CASE UNCHANGED vars
  BY <1>1
     DEF vars, TokenInv, TypeInv, TypeOK, UniqueInv, Inserted, View, RequestInv, LockInv, FreshInv,
         OpInv, SweepInv, CreateInv, FetchInv, Committed, Active
<1>2. ASSUME NEW p \in Requests, Step(p) \/ Rollback(p) PROVE TokenInv'
  BY <1>2, ArrivalKeeps, ReadKeeps, RevokeKeeps, InsertKeeps, DropKeeps, CommitKeeps, TouchKeeps
     DEF Step
<1>. QED  BY <1>1, <1>2 DEF Next, AllDone

\* The invariant holds at the start.
LEMMA TokenInvInit == Init => TokenInv
<1>. SUFFICES ASSUME Init PROVE TokenInv
  OBVIOUS
<1>1. PICK r \in Row : tokens = [t \in Tokens |-> IF t = "setup" THEN r ELSE Absent]
  BY DEF Init
<1>2. \A p \in Requests : DOMAIN priv[p] = {} /\ priv[p] = Nothing
  BY DEF Init, Nothing
<1>3. TypeInv
  BY <1>1, <1>2 DEF Init, TypeInv, TypeOK, Labels, Row
<1>4. \A p \in Requests : p \notin Committed
  BY <1>1, RequestNames DEF Committed, Tokens
<1>5. UniqueInv
  BY <1>1, <1>2 DEF UniqueInv, Active, Inserted, Absent
<1>6. \A p \in Requests : RequestInv(p)
  BY <1>2, <1>4
     DEF Init, RequestInv, LockInv, FreshInv, OpInv, SweepInv, CreateInv, FetchInv, Public
<1>. QED  BY <1>3, <1>5, <1>6 DEF TokenInv

\* The invariant holds in every state, with the types.
LEMMA TokenInvAlways == Spec => []TokenInv
BY TokenInvInit, TokenInvStep, PTL DEF Spec

-----------------------------------------------------------------------------
(* The properties.                                                         *)

\* The token table, the open transactions and the requests keep their types.
THEOREM TypeCorrect == Spec => []TypeOK
BY TokenInvAlways, PTL DEF TokenInv, TypeInv

\* In every behaviour a Create that answers 201 has put its token in the table,
\* and one that is refused met a token that another Create committed while it
\* ran.
THEOREM CreateFailsOnlyToRivalAlways == Spec => []CreateFailsOnlyToRival
<1>1. TokenInv => CreateFailsOnlyToRival
  BY DEF TokenInv, RequestInv, CreateInv, CreateFailsOnlyToRival, Committed
<1>. QED  BY <1>1, TokenInvAlways, PTL

\* In every behaviour a feed is served only by a token that worked when the
\* fetch arrived and keeps its stamp, and what a Delete found stays revoked.
THEOREM RevocationHoldsAlways == Spec => []RevocationHolds
<1>1. TokenInv => RevocationHolds
  BY DEF TokenInv, RequestInv, SweepInv, FetchInv, RevocationHolds, Served
<1>. QED  BY <1>1, TokenInvAlways, PTL

\* At most one token works.
LEMMA OneActive == TokenInv => Cardinality(Active) <= 1
<1>. SUFFICES ASSUME TokenInv PROVE Cardinality(Active) <= 1
  OBVIOUS
<1>1. CASE Active = {}
  BY <1>1, FS_EmptySet
<1>2. CASE Active # {}
  <2>1. PICK t \in Active : Active = {t}
    BY <1>2 DEF TokenInv, UniqueInv
  <2>. QED  BY <2>1, FS_Singleton
<1>. QED  BY <1>1, <1>2

\* Only a Delete that is running takes the last working token away: the Commit
\* of a Create revokes the old one and brings its own in the same step.
LEMMA KeepsOne ==
    ASSUME TokenInv, [Next]_vars, Active # {}, \A p \in InFlight : op[p] # "delete"
    PROVE  Active' # {}
<1>1. CASE UNCHANGED tokens
  BY <1>1 DEF Active
<1>2. ASSUME NEW p \in Requests, Commit(p) PROVE Active' # {}
  <2>1. /\ pc[p] = "commit" /\ p \in Tokens /\ op[p] # "delete" /\ RequestInv(p)
    BY <1>2 DEF Commit, InFlight, Answers, Tokens, TokenInv
  <2>2. p \in DOMAIN priv[p] /\ priv[p][p].status = "active"
    BY <2>1 DEF RequestInv, OpInv, LockInv
  <2>. QED  BY <1>2, <2>1, <2>2 DEF Commit, View, Active
<1>3. ASSUME NEW p \in Requests, TouchToken(p) PROVE Active' # {}
  <2>1. \A t \in Active : tokens'[t].status = "active"
    BY <1>3 DEF TouchToken, Active, TokenInv, TypeInv, TypeOK, Row, Absent
  <2>. QED  BY <2>1 DEF Active
<1>. QED  BY <1>1, <1>2, <1>3
          DEF Next, Step, CreateCalendarToken, DeleteCalendarToken, ListMyCalendarTokens, StartFetch,
              FindActive, RevokeRow, Revoked, InsertToken, InsertConflict, FindToken, Respond,
              Rollback, AllDone, vars

\* In every behaviour a user with a working token keeps one unless a Delete is
\* running, and never has two.
THEOREM NeverLeftWithoutAlways == Spec => NeverLeftWithout
<1>1. TokenInv /\ TokenInv' /\ [Next]_vars =>
        [/\ (Active # {} /\ \A p \in InFlight : op[p] # "delete") => Active' # {}
         /\ Cardinality(Active') <= 1]_vars
  <2>. SUFFICES ASSUME TokenInv, TokenInv', [Next]_vars
                PROVE  /\ (Active # {} /\ \A p \in InFlight : op[p] # "delete") => Active' # {}
                       /\ Cardinality(Active') <= 1
    OBVIOUS
  <2>1. Cardinality(Active') <= 1
    <3>1. (TokenInv => Cardinality(Active) <= 1)'
      BY OneActive, PTL
    <3>. QED  BY <3>1
  <2>. QED  BY <2>1, KeepsOne
<1>. QED  BY <1>1, TokenInvAlways, PTL DEF Spec, NeverLeftWithout

-----------------------------------------------------------------------------
(* Feeds.                                                                  *)

\* computeETag tells any two feeds apart, the tag of the empty one included.
Event == [uid : Deadlines \cup {"dates"}, summary : STRING, from : Int, to : Int]

\* The feeds are sets of events.
LEMMA BodiesAreEvents == \A b \in Bodies : b \subseteq Event
BY ListingDomain DEF Bodies, EventsForConference, Event, Unset

\* What Respond builds is one of them.
LEMMA FeedIsBody == \A u, c : c \in Conference => Feed(u, c) \in Bodies
BY DEF Conference, Feed, BuildPublicFeed, BuildPersonalFeed, Bodies

\* Two feeds with the same entity tag are the same feed.
LEMMA TagsDiffer ==
    ASSUME NEW a \in SUBSET Event, NEW b \in SUBSET Event, ComputeETag(a) = ComputeETag(b)
    PROVE  a = b
<1>1. ASSUME NEW x \in SUBSET Event, NEW y \in SUBSET Event, ComputeETag(x) = ComputeETag(y),
             NEW e \in x
      PROVE  e \in y
  <2>1. <<e.uid, e.summary, e.from, e.to>> \in ComputeETag(y)
    BY <1>1 DEF ComputeETag
  <2>2. PICK g \in y : <<e.uid, e.summary, e.from, e.to>> = <<g.uid, g.summary, g.from, g.to>>
    BY <2>1 DEF ComputeETag
  <2>3. e = g
    BY <1>1, <2>2 DEF Event
  <2>. QED  BY <2>3
<1>. QED  BY <1>1

\* A client that is told "unchanged" holds what it would be sent.
LEMMA FreshStep ==
    ASSUME FeedIsFresh, NEW p \in Requests, NEW c \in Conference,
           NEW held \in Bodies \cup {NoBody}, Respond(p, c, held)
    PROVE  FeedIsFresh'
<1>1. held # NoBody /\ ComputeETag(held) = ComputeETag(Feed(url[p], c)) => held = Feed(url[p], c)
  BY BodiesAreEvents, FeedIsBody, TagsDiffer
<1>. QED  BY <1>1 DEF Respond, FeedIsFresh

\* In every behaviour no client is told that its copy is unchanged when the
\* feed says something else.
THEOREM FeedIsFreshAlways == Spec => []FeedIsFresh
<1>1. Init => FeedIsFresh
  BY DEF Init, FeedIsFresh
<1>2. FeedIsFresh /\ [Next]_vars => FeedIsFresh'
  <2>. SUFFICES ASSUME FeedIsFresh, [Next]_vars PROVE FeedIsFresh'
    OBVIOUS
  <2>1. CASE UNCHANGED misled
    BY <2>1 DEF FeedIsFresh
  <2>2. ASSUME NEW p \in Requests, Step(p) PROVE FeedIsFresh'
    BY <2>1, <2>2, FreshStep
       DEF Step, CreateCalendarToken, DeleteCalendarToken, ListMyCalendarTokens, StartFetch,
           FindActive, RevokeRow, Revoked, InsertToken, InsertConflict, Commit, FindToken, TouchToken
  <2>. QED  BY <2>1, <2>2 DEF Next, Rollback, AllDone, vars
<1>. QED  BY <1>1, <1>2, PTL DEF Spec
=============================================================================
