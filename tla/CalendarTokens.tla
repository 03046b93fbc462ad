--------------------------- MODULE CalendarTokens ---------------------------
(***************************************************************************)
(* Calendar tokens and the feeds they open, statement by statement.        *)
(*                                                                         *)
(* A user has at most one working token.  Creating one revokes the old one *)
(* and inserts the new one in a transaction; deleting lists and revokes in *)
(* two statements; fetching the personal feed looks the token up, which    *)
(* also stamps its last use, and lists the starred conferences in another  *)
(* statement.  All of it runs at READ COMMITTED, as in ReminderRaces: an   *)
(* UPDATE finds its rows, waits for their locks and checks its WHERE       *)
(* clause again on each row it locks.                                      *)
(*                                                                         *)
(* The module is about one user; the feeds show one conference.             *)
(***************************************************************************)
EXTENDS Schedule, FiniteSets

CONSTANTS
    Requests,   \* one process per request
    Listings    \* the contents the conference may have

Deadlines == {"submission", "abstract", "notification", "camera-ready"}

ASSUME ListingDomain ==
    Listings \subseteq [name : STRING, start : Int, end : Int, on : [Deadlines -> Int]]

\* No request is named like the token made before or like the public feed.
ASSUME RequestNames == "setup" \notin Requests /\ "all.ics" \notin Requests

VARIABLES
    tokens,     \* user_calendar_tokens, as committed
    priv,       \* the rows each request's transaction has written
    op,         \* which handler the request runs
    pc,         \* its next statement, or its answer once it is done
    target,     \* the rows its UPDATE has found and not yet locked
    before,     \* the tokens that worked when it arrived
    url,        \* the feed a fetch asks for
    misled      \* a client was told that a copy which differs is unchanged

vars == <<tokens, priv, op, pc, target, before, url, misled>>

\* The value of a token is that of the request that creates it: generateToken
\* returns 32 random bytes, which do not repeat.
Tokens == Requests \cup {"setup"}
Public == "all.ics"
Absent == [status |-> "absent", used |-> FALSE]
Row == [status : {"active", "revoked"}, used : BOOLEAN] \cup {Absent}
Answers == {"201", "204", "404", "200", "304", "500", "lost"}
Labels == {"new", "findActive", "revoke", "insert", "commit", "findToken",
           "touch", "build"} \cup Answers

-----------------------------------------------------------------------------
(* Feeds.                                                                  *)

\* eventsForConference: an all-day event when both dates are known, with an
\* exclusive end, and an event for each deadline that is set.  In whole hours
\* its fifteen minutes start and end at the same instant.
EventsForConference(c) ==
    (IF Unset \in {c.start, c.end} THEN {}
     ELSE {[uid |-> "dates", summary |-> c.name, from |-> c.start, to |-> c.end + 1]})
    \cup {[uid |-> k, summary |-> c.name, from |-> c.on[k], to |-> c.on[k]] :
        k \in {k \in Deadlines : c.on[k] # Unset}}

\* BuildPublicFeed lists what is not archived; BuildPersonalFeed lists what is
\* starred, archived or not.
BuildPublicFeed(c) == IF c.archived THEN {} ELSE EventsForConference(c.listing)
BuildPersonalFeed(c) == IF c.starred THEN EventsForConference(c.listing) ELSE {}
Feed(u, c) == IF u = Public THEN BuildPublicFeed(c) ELSE BuildPersonalFeed(c)

Conference == [listing : Listings, archived : BOOLEAN, starred : BOOLEAN]
NoBody == {Unset}
Bodies == {EventsForConference(c) : c \in Listings} \cup {{}}

\* Mutant: the tag names the events and not what they say.
ComputeETag_uids(body) == {e.uid : e \in body}

\* computeETag hashes the encoded calendar.  The encoding holds every field of
\* every event and nothing else (no DTSTAMP), so equal tags are equal bodies.
ComputeETag(body) == {<<e.uid, e.summary, e.from, e.to>> : e \in body}

-----------------------------------------------------------------------------
TypeOK ==
    /\ tokens \in [Tokens -> Row]
    /\ pc \in [Requests -> Labels]
    /\ misled \in BOOLEAN
    /\ op \in [Requests -> {"none", "create", "delete", "fetch", "list"}]
    /\ \A p \in Requests :
        /\ DOMAIN priv[p] \subseteq Tokens
        /\ \A t \in DOMAIN priv[p] : priv[p][t] \in Row \ {Absent}
        /\ target[p] \subseteq Tokens /\ before[p] \subseteq Tokens
        /\ url[p] \in Tokens \cup {Public}

Nothing == <<>>

\* The user has a token, used or not, or has none.
Init ==
    /\ \E r \in Row : tokens = [t \in Tokens |-> IF t = "setup" THEN r ELSE Absent]
    /\ priv = [p \in Requests |-> Nothing]
    /\ op = [p \in Requests |-> "none"]
    /\ pc = [p \in Requests |-> "new"]
    /\ target = [p \in Requests |-> {}]
    /\ before = [p \in Requests |-> {}]
    /\ url = [p \in Requests |-> Public]
    /\ misled = FALSE

-----------------------------------------------------------------------------
(* READ COMMITTED.                                                         *)

Active == {t \in Tokens : tokens[t].status = "active"}
View(p, t) == IF t \in DOMAIN priv[p] THEN priv[p][t] ELSE tokens[t]
Free(p, t) == \A q \in Requests \ {p} : t \notin DOMAIN priv[q]

Write(p, t, row) ==
    priv' = [priv EXCEPT ![p] =
                [s \in DOMAIN priv[p] \cup {t} |-> IF s = t THEN row ELSE priv[p][s]]]

Goto(p, label) == pc' = [pc EXCEPT ![p] = label]

InFlight == {p \in Requests : pc[p] \notin {"new"} \cup Answers}

\* The request arrives; `label` is its first statement.
Begin(p, o, label) ==
    /\ pc[p] = "new"
    /\ Goto(p, label)
    /\ op' = [op EXCEPT ![p] = o]
    /\ before' = [before EXCEPT ![p] = Active]

-----------------------------------------------------------------------------
(* RevokeCalendarTokensByUser: within Create's transaction, or on its own. *)

FindActive(p) ==
    /\ pc[p] = "findActive"
    /\ target' = [target EXCEPT ![p] = Active]
    /\ Goto(p, "revoke")
    /\ UNCHANGED <<tokens, priv, op, before, url, misled>>

\* A row whose lock it gets is revoked unless another request did it meanwhile.
RevokeRow(p, t) ==
    /\ pc[p] = "revoke" /\ t \in target[p] /\ Free(p, t)
    /\ IF tokens[t].status = "active"
       THEN Write(p, t, [tokens[t] EXCEPT !.status = "revoked"]) ELSE UNCHANGED priv
    /\ target' = [target EXCEPT ![p] = @ \ {t}]
    /\ UNCHANGED <<tokens, op, pc, before, url, misled>>

\* Create goes on to its INSERT; Delete's statement commits by itself.
Revoked(p) ==
    /\ pc[p] = "revoke" /\ target[p] = {}
    /\ Goto(p, IF op[p] = "create" THEN "insert" ELSE "commit")
    /\ UNCHANGED <<tokens, priv, op, target, before, url, misled>>

-----------------------------------------------------------------------------
(* CalendarService.Create.                                                 *)

CreateCalendarToken(p) ==
    /\ Begin(p, "create", "findActive")
    /\ UNCHANGED <<tokens, priv, target, url, misled>>

\* The entries of uq_user_calendar_tokens_active the INSERT meets: it waits for
\* those whose transaction is open and fails on one that is left.
Undecided(p) ==
    {t \in Tokens : \E q \in Requests \ {p} :
        t \in DOMAIN priv[q] /\ "active" \in {tokens[t].status, priv[q][t].status}}

Rivals(p) == {t \in Tokens : View(p, t).status = "active"}

\* Mutant: ON CONFLICT DO NOTHING; Create reports success without a token.
InsertToken_ignoresConflict(p) ==
    /\ pc[p] = "insert" /\ Undecided(p) = {}
    /\ IF Rivals(p) = {} THEN Write(p, p, [status |-> "active", used |-> FALSE])
                         ELSE UNCHANGED priv
    /\ Goto(p, "commit")
    /\ UNCHANGED <<tokens, op, target, before, url, misled>>

InsertToken(p) ==
    /\ pc[p] = "insert" /\ Undecided(p) = {} /\ Rivals(p) = {}
    /\ Write(p, p, [status |-> "active", used |-> FALSE])
    /\ Goto(p, "commit")
    /\ UNCHANGED <<tokens, op, target, before, url, misled>>

\* The transaction's rows are dropped; its variables no longer matter.
Drop(p, answer) ==
    /\ priv' = [priv EXCEPT ![p] = Nothing]
    /\ target' = [target EXCEPT ![p] = {}]
    /\ Goto(p, answer)
    /\ UNCHANGED <<op, before>>

\* Mutant: the refusal is answered as a conflict, which the API does not know.
InsertConflict_409(p) ==
    /\ pc[p] = "insert" /\ Undecided(p) = {} /\ Rivals(p) # {}
    /\ Drop(p, "409")
    /\ UNCHANGED <<tokens, url, misled>>

\* The unique index refuses the row: 500, and the old token is kept.
InsertConflict(p) ==
    /\ pc[p] = "insert" /\ Undecided(p) = {} /\ Rivals(p) # {}
    /\ Drop(p, "500")
    /\ UNCHANGED <<tokens, url, misled>>

-----------------------------------------------------------------------------
(* CalendarService.Delete and List.                                        *)

\* Delete's own list decides between 404 and the UPDATE.
DeleteCalendarToken(p) ==
    /\ Begin(p, "delete", IF Active = {} THEN "404" ELSE "findActive")
    /\ UNCHANGED <<tokens, priv, target, url, misled>>

ListMyCalendarTokens(p) ==
    /\ Begin(p, "list", "200")
    /\ UNCHANGED <<tokens, priv, target, url, misled>>

-----------------------------------------------------------------------------
(* GetPublicCalendar and GetPersonalCalendar.                              *)

\* A client knows a token once the transaction that made it has committed.
StartFetch(p, u) ==
    /\ u # Public => tokens[u] # Absent
    /\ Begin(p, "fetch", IF u = Public THEN "build" ELSE "findToken")
    /\ url' = [url EXCEPT ![p] = u]
    /\ UNCHANGED <<tokens, priv, target, misled>>

\* GetCalendarTokenByValue: the UPDATE finds the row, or there is none.
FindToken(p) ==
    /\ pc[p] = "findToken"
    /\ Goto(p, IF url[p] \in Active THEN "touch" ELSE "404")
    /\ UNCHANGED <<tokens, priv, op, target, before, url, misled>>

\* Mutant: the row that was read is saved whole, with the new last_used_at.
TouchToken_saves(p) ==
    /\ pc[p] = "touch" /\ Free(p, url[p])
    /\ tokens' = [tokens EXCEPT ![url[p]].status = "active", ![url[p]].used = TRUE]
    /\ Goto(p, "build")
    /\ UNCHANGED <<priv, op, target, before, url, misled>>

\* Once it has the lock, the row is checked again and last_used_at is set.
TouchToken(p) ==
    /\ pc[p] = "touch" /\ Free(p, url[p])
    /\ IF url[p] \in Active
       THEN tokens' = [tokens EXCEPT ![url[p]].used = TRUE] /\ Goto(p, "build")
       ELSE UNCHANGED tokens /\ Goto(p, "404")
    /\ UNCHANGED <<priv, op, target, before, url, misled>>

\* The list of conferences, the body, its tag and the answer to a client that
\* holds the body of an earlier fetch, or none.  Other requests may have left
\* the conference in any state c by now; one statement reads it.
Respond(p, c, held) ==
    LET body == Feed(url[p], c)
        same == held # NoBody /\ ComputeETag(held) = ComputeETag(body)
    IN /\ pc[p] = "build"
       /\ Goto(p, IF same THEN "304" ELSE "200")
       /\ misled' = (misled \/ (same /\ held # body))
       /\ UNCHANGED <<tokens, priv, op, target, before, url>>

-----------------------------------------------------------------------------
\* Mutant: Create's UPDATE is not part of its transaction.
Rollback_keepsRevoked(p) ==
    /\ p \in InFlight
    /\ tokens' = [t \in Tokens |-> IF View(p, t).status = "revoked" THEN View(p, t)
                                   ELSE tokens[t]]
    /\ Drop(p, "lost")
    /\ UNCHANGED <<url, misled>>

\* COMMIT is heard of, or the connection breaks and the handler answers 500.
Commit(p) ==
    /\ pc[p] = "commit"
    /\ tokens' = [t \in Tokens |-> View(p, t)]
    /\ \/ Drop(p, IF op[p] = "create" THEN "201" ELSE "204")
       \/ Drop(p, "lost")
    /\ UNCHANGED <<url, misled>>

\* Mutant: without the deferred Rollback the transaction stays open.
Rollback_forgotten(p) ==
    /\ p \in InFlight
    /\ Goto(p, "lost")
    /\ UNCHANGED <<tokens, priv, op, target, before, url, misled>>

\* A statement fails, the client goes away or the process dies.  LookupToken
\* takes any error of its statement for an unknown token.
Rollback(p) ==
    /\ p \in InFlight
    /\ Drop(p, IF pc[p] \in {"findToken", "touch"} THEN "404" ELSE "lost")
    /\ UNCHANGED <<tokens, url, misled>>

Step(p) ==
    \/ CreateCalendarToken(p) \/ DeleteCalendarToken(p) \/ ListMyCalendarTokens(p)
    \/ \E u \in Tokens \cup {Public} : StartFetch(p, u)
    \/ FindActive(p) \/ (\E t \in Tokens : RevokeRow(p, t)) \/ Revoked(p)
    \/ InsertToken(p) \/ InsertConflict(p) \/ Commit(p)
    \/ FindToken(p) \/ TouchToken(p)
    \/ \E c \in Conference, held \in Bodies \cup {NoBody} : Respond(p, c, held)

AllDone == (\A p \in Requests : pc[p] \in Answers) /\ UNCHANGED vars

Next == (\E p \in Requests : Step(p) \/ Rollback(p)) \/ AllDone

\* The database serves every connection; nothing is assumed about Rollback.
Spec == Init /\ [][Next]_vars /\ \A p \in Requests : WF_vars(Step(p))

-----------------------------------------------------------------------------
(* Properties.                                                             *)

Served(p) == op[p] = "fetch" /\ pc[p] \in {"200", "304"}

\* A user who has a working token keeps exactly one: a Create that fails, is
\* rolled back or loses a race does not take the old token away (only Delete
\* does), and Creates that race do not leave two.
NeverLeftWithout ==
    [][/\ (Active # {} /\ \A p \in InFlight : op[p] # "delete") => Active' # {}
       /\ Cardinality(Active') <= 1]_vars

\* Create answers 201 only with a token that is in the table, and its INSERT is
\* refused only if another Create committed a token while this one ran: one
\* request at a time never meets the unique index.
CreateFailsOnlyToRival ==
    \A p \in Requests : op[p] = "create" =>
        /\ pc[p] = "201" => tokens[p] # Absent
        /\ pc[p] = "500" => \E t \in Tokens \ ({p} \cup before[p]) : tokens[t] # Absent

\* A token that was revoked when the fetch arrived opens no feed, and once
\* Delete has answered 204 the tokens it found stay revoked, also when a fetch
\* had looked one of them up before and stamps it after.  Nor does the
\* revocation undo the stamp of a fetch that was served.
RevocationHolds ==
    \A p \in Requests :
        /\ (Served(p) /\ url[p] # Public) => url[p] \in before[p] /\ tokens[url[p]].used
        /\ (op[p] = "delete" /\ pc[p] = "204") => before[p] \cap Active = {}

\* No client is told that its copy is unchanged when the feed says something
\* else: a conference that moved, was archived or lost its star changes the tag.
FeedIsFresh == ~misled

\* No request waits for ever for a token row or for the unique index.
RequestsFinish == \A p \in Requests : (pc[p] # "new") ~> (pc[p] \in Answers)
=============================================================================
