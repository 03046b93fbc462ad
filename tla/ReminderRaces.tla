---------------------------- MODULE ReminderRaces ---------------------------
(***************************************************************************)
(* The requests that keep reminder_dispatch_log in step, statement by      *)
(* statement.                                                              *)
(*                                                                         *)
(* Reminders treats a request as one step.  PostgreSQL does not: the code  *)
(* opens every transaction at the default READ COMMITTED level, and Star   *)
(* reads the conference and the settings before it opens one.  This module *)
(* follows the statements of Star, Unstar, Update and UpdateSettings for   *)
(* one user, one conference and one (deadline kind, lead time).            *)
(*                                                                         *)
(* A statement sees the rows committed before it started and its own       *)
(* transaction's writes.  A write waits while another transaction has an   *)
(* uncommitted write of the same row.  An UPDATE or DELETE that waited     *)
(* re-checks its WHERE clause on the row it had found; if that row is gone *)
(* it does nothing, even if a new row with the same key is there.  INSERT  *)
(* ... ON CONFLICT DO NOTHING looks at what is there when it need not wait *)
(* any more.                                                               *)
(***************************************************************************)
EXTENDS Naturals

CONSTANTS
    Requests,   \* one process per request
    Dates,      \* values of the conference's deadline
    Zones       \* values of the user's settings

VARIABLES
    db,         \* the four rows, as committed
    priv,       \* the uncommitted writes of each request's transaction
    op,         \* which handler the request runs
    pc,         \* its next statement
    seen,       \* the deadline and settings it will schedule with
    target,     \* the row its UPDATE or DELETE has found
    mixed       \* an edit of deadline or settings has met another request

vars == <<db, priv, op, pc, seen, target, mixed>>

Items == {"conf", "settings", "star", "row"}
NoOne == "nobody"

ASSUME RequestNames == NoOne \notin Requests

Writers == Requests \cup {"setup"}
Statuses == {"none", "pending", "cancelled"}

\* A star, and a row of the log, are identified by the request that inserted
\* them: it inserts at most one of each.
Row(s, p, at) == [status |-> s, by |-> p, at |-> at]
NoRow == Row("none", NoOne, <<>>)
Times == (Dates \X Zones) \cup {<<>>}

ItemType(i) ==
    CASE i = "conf"     -> Dates
      [] i = "settings" -> Zones
      [] i = "star"     -> Writers \cup {NoOne}
      [] i = "row"      -> [status : Statuses, by : Writers \cup {NoOne}, at : Times]

TypeOK ==
    /\ DOMAIN db = Items /\ \A i \in Items : db[i] \in ItemType(i)
    /\ \A p \in Requests :
        /\ DOMAIN priv[p] \subseteq Items
        /\ \A i \in DOMAIN priv[p] : priv[p][i] \in ItemType(i)
        /\ target[p] \in Writers \cup {NoOne}
        /\ seen[p] \in Times \cup Dates
    /\ op \in [Requests -> {"none", "star", "unstar", "update", "settings"}]
    /\ mixed \in BOOLEAN

Nothing == <<>>

\* Any state that requests one after the other leave behind.
Init ==
    /\ \E d \in Dates, z \in Zones :
        \E s \in { <<"setup", Row("pending", "setup", <<d, z>>)>>,
                   <<NoOne, NoRow>>,
                   <<NoOne, Row("cancelled", "setup", <<d, z>>)>> } :
            db = [i \in Items |-> CASE i = "conf"     -> d
                                    [] i = "settings" -> z
                                    [] i = "star"     -> s[1]
                                    [] i = "row"      -> s[2]]
    /\ priv = [p \in Requests |-> Nothing]
    /\ op = [p \in Requests |-> "none"]
    /\ pc = [p \in Requests |-> "new"]
    /\ seen = [p \in Requests |-> <<>>]
    /\ target = [p \in Requests |-> NoOne]
    /\ mixed = FALSE

-----------------------------------------------------------------------------
(* READ COMMITTED.                                                         *)

View(p, i) == IF i \in DOMAIN priv[p] THEN priv[p][i] ELSE db[i]
Free(p, i) == \A q \in Requests \ {p} : i \notin DOMAIN priv[q]

Write(p, i, v) ==
    priv' = [priv EXCEPT ![p] =
                [j \in DOMAIN priv[p] \cup {i} |-> IF j = i THEN v ELSE priv[p][j]]]

Goto(p, label) == pc' = [pc EXCEPT ![p] = label]

InFlight == {p \in Requests : pc[p] \notin {"new", "done"}}
Edits == {"update", "settings"}

\* The request arrives and runs handler o up to `label`.
Begin(p, o, label) ==
    /\ pc[p] = "new"
    /\ Goto(p, label)
    /\ op' = [op EXCEPT ![p] = o]
    /\ mixed' = (mixed \/ /\ InFlight # {}
                          /\ o \in Edits \/ \E q \in InFlight : op[q] \in Edits)

-----------------------------------------------------------------------------
(* StarService.Star: two reads outside the transaction, then two inserts.  *)

GetConference(p) ==
    /\ Begin(p, "star", "readSettings")
    /\ seen' = [seen EXCEPT ![p] = db["conf"]]
    /\ UNCHANGED <<db, priv, target>>

\* Mutant: the deadline read before is lost.
GetUserSettings_overwrites(p) ==
    /\ pc[p] = "readSettings"
    /\ seen' = [seen EXCEPT ![p] = db["settings"]]
    /\ Goto(p, "createStar")
    /\ UNCHANGED <<db, priv, op, target, mixed>>

GetUserSettings(p) ==
    /\ pc[p] = "readSettings"
    /\ seen' = [seen EXCEPT ![p] = <<@, db["settings"]>>]
    /\ Goto(p, "createStar")
    /\ UNCHANGED <<db, priv, op, target, mixed>>

CreateStar(p) ==
    /\ pc[p] = "createStar" /\ Free(p, "star")
    /\ IF db["star"] = NoOne THEN Write(p, "star", p) ELSE UNCHANGED priv
    /\ Goto(p, "insert")
    /\ UNCHANGED <<db, op, seen, target, mixed>>

\* The INSERT that ends Star, Update and UpdateSettings.
InsertReminderRow(p) ==
    /\ pc[p] = "insert" /\ Free(p, "row")
    /\ IF View(p, "row").status = "none"
       THEN Write(p, "row", Row("pending", p, seen[p])) ELSE UNCHANGED priv
    /\ Goto(p, "commit")
    /\ UNCHANGED <<db, op, seen, target, mixed>>

-----------------------------------------------------------------------------
(* StarService.Unstar: a DELETE and an UPDATE, each finding its row first. *)

FindStar(p) ==
    /\ Begin(p, "unstar", "deleteStar")
    /\ target' = [target EXCEPT ![p] = db["star"]]
    /\ UNCHANGED <<db, priv, seen>>

DeleteStar(p) ==
    /\ pc[p] = "deleteStar"
    /\ target[p] # NoOne => Free(p, "star")
    /\ IF target[p] # NoOne /\ db["star"] = target[p]
       THEN Write(p, "star", NoOne) ELSE UNCHANGED priv
    /\ Goto(p, "findRow")
    /\ UNCHANGED <<db, op, seen, target, mixed>>

\* The snapshot of the UPDATE of Unstar and the DELETE of the two edits.
FindRow(p) ==
    /\ pc[p] = "findRow"
    /\ target' = [target EXCEPT ![p] = IF View(p, "row").status = "pending"
                                       THEN View(p, "row").by ELSE NoOne]
    /\ Goto(p, IF op[p] = "unstar" THEN "cancelRow" ELSE "deleteRow")
    /\ UNCHANGED <<db, priv, op, seen, mixed>>

\* Mutant: the WHERE clause is not checked again after the wait.
FoundRow_unchecked(p) == target[p] # NoOne

\* The row found is still there, and still pending.
FoundRow(p) ==
    /\ target[p] # NoOne
    /\ View(p, "row").by = target[p]
    /\ View(p, "row").status = "pending"

CancelRow(p) ==
    /\ pc[p] = "cancelRow"
    /\ target[p] # NoOne => Free(p, "row")
    /\ IF FoundRow(p)
       THEN Write(p, "row", [View(p, "row") EXCEPT !.status = "cancelled"])
       ELSE UNCHANGED priv
    /\ Goto(p, "commit")
    /\ UNCHANGED <<db, op, seen, target, mixed>>

-----------------------------------------------------------------------------
(* ConferenceService.Update and SettingsService.Update.                    *)

UpdateConference(p, d) ==
    /\ Begin(p, "update", "findRow")
    /\ Free(p, "conf")
    /\ Write(p, "conf", d)
    /\ UNCHANGED <<db, seen, target>>

UpdateUserSettings(p, z) ==
    /\ Begin(p, "settings", "listStarred")
    /\ Free(p, "settings")
    /\ Write(p, "settings", z)
    /\ UNCHANGED <<db, seen, target>>

\* Mutant: the edit only inserts.
DeleteRow_forgotten(p) ==
    /\ pc[p] = "deleteRow"
    /\ Goto(p, IF op[p] = "update" THEN "listStarring" ELSE "insert")
    /\ UNCHANGED <<db, priv, op, seen, target, mixed>>

DeleteRow(p) ==
    /\ pc[p] = "deleteRow"
    /\ target[p] # NoOne => Free(p, "row")
    /\ IF FoundRow(p) THEN Write(p, "row", NoRow) ELSE UNCHANGED priv
    /\ Goto(p, IF op[p] = "update" THEN "listStarring" ELSE "insert")
    /\ UNCHANGED <<db, op, seen, target, mixed>>

\* ListUsersStarringConferenceWithSettings, after the DELETE.
ListStarring(p) ==
    /\ pc[p] = "listStarring"
    /\ seen' = [seen EXCEPT ![p] = <<View(p, "conf"), db["settings"]>>]
    /\ Goto(p, IF db["star"] # NoOne THEN "insert" ELSE "commit")
    /\ UNCHANGED <<db, priv, op, target, mixed>>

\* ListUserStarredConferences, before the DELETE.
ListStarred(p) ==
    /\ pc[p] = "listStarred"
    /\ seen' = [seen EXCEPT ![p] = <<db["conf"], View(p, "settings")>>]
    /\ Goto(p, IF db["star"] # NoOne THEN "findRow" ELSE "commit")
    /\ UNCHANGED <<db, priv, op, target, mixed>>

-----------------------------------------------------------------------------
\* The transaction's writes are dropped or published; what the handler had in
\* its variables no longer matters.
End(p) ==
    /\ priv' = [priv EXCEPT ![p] = Nothing]
    /\ Goto(p, "done")
    /\ op' = [op EXCEPT ![p] = "none"]
    /\ seen' = [seen EXCEPT ![p] = <<>>]
    /\ target' = [target EXCEPT ![p] = NoOne]
    /\ UNCHANGED mixed

Commit(p) ==
    /\ pc[p] = "commit"
    /\ db' = [i \in Items |-> View(p, i)]
    /\ End(p)

\* Mutant: without the deferred Rollback the transaction stays open.
Rollback_forgotten(p) ==
    /\ p \in InFlight
    /\ Goto(p, "done")
    /\ UNCHANGED <<db, priv, op, seen, target, mixed>>

\* A statement fails or the client goes away: the deferred Rollback.
Rollback(p) ==
    /\ p \in InFlight
    /\ UNCHANGED db
    /\ End(p)

Step(p) ==
    \/ GetConference(p) \/ GetUserSettings(p) \/ CreateStar(p)
    \/ FindStar(p) \/ DeleteStar(p) \/ FindRow(p) \/ CancelRow(p)
    \/ \E d \in Dates : UpdateConference(p, d)
    \/ \E z \in Zones : UpdateUserSettings(p, z)
    \/ DeleteRow(p) \/ ListStarring(p) \/ ListStarred(p)
    \/ InsertReminderRow(p) \/ Commit(p)

AllDone == (\A p \in Requests : pc[p] = "done") /\ UNCHANGED vars

Next == (\E p \in Requests : Step(p) \/ Rollback(p)) \/ AllDone

\* A statement that need not wait is executed: the database serves every
\* connection.  Nothing is assumed about Rollback.
Spec == Init /\ [][Next]_vars /\ \A p \in Requests : WF_vars(Step(p))

-----------------------------------------------------------------------------
(* Properties.                                                             *)

Quiescent == InFlight = {}

\* What the schedule should look like when no request is running.
Consistent ==
    LET row == db["row"] IN
    /\ row.status = "pending" =>
        db["star"] # NoOne /\ row.at = <<db["conf"], db["settings"]>>
    /\ db["star"] # NoOne => row.status # "none"

\* As long as no edit of the conference or of the settings overlaps another
\* request, the schedule is consistent whenever no request is running: Star
\* and Unstar may race with themselves and with each other, and any request
\* may be rolled back half-way.
CleanUnlessEditsOverlap == (Quiescent /\ ~mixed) => Consistent

\* Cancelled rows are history also under races: a DELETE or UPDATE that had to
\* wait for the row sees that it is no longer pending.
HistorySurvivesRaces ==
    [][db["row"].status = "cancelled" => db'["row"] = db["row"]]_vars

\* No request waits for ever: the handlers lock the conference, the settings
\* or the star before the log row, never the other way round.
RequestsFinish == \A p \in Requests : (pc[p] # "new") ~> (pc[p] = "done")

\* FR-13: reminders are for starred conferences only.  Once the requests are
\* through, no row waits to be mailed for a conference the user does not star.
OnlyStarredScheduled ==
    (Quiescent /\ db["row"].status = "pending") => db["star"] # NoOne
=============================================================================
