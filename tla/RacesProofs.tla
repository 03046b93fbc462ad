---------------------------- MODULE RacesProofs -----------------------------
(***************************************************************************)
(* Proofs about ReminderRaces, for every number of requests, deadlines and *)
(* settings.                                                               *)
(***************************************************************************)
EXTENDS ReminderRaces, TLAPS

-----------------------------------------------------------------------------
(* The invariants.                                                         *)

Holds(p, i) == i \in DOMAIN priv[p]

Ops == {"none", "star", "unstar", "update", "settings"}
Labels == {"new", "readSettings", "createStar", "insert", "deleteStar", "findRow",
           "cancelRow", "deleteRow", "listStarring", "listStarred", "commit", "done"}

\* Which handlers have the statement.
HandlersAt(label) ==
    CASE label \in {"readSettings", "createStar"}  -> {"star"}
      [] label \in {"deleteStar", "cancelRow"}     -> {"unstar"}
      [] label = "listStarring"                    -> {"update"}
      [] label = "listStarred"                     -> {"settings"}
      [] label = "deleteRow"                       -> {"update", "settings"}
      [] label = "findRow"                         -> {"unstar", "update", "settings"}
      [] label = "insert"                          -> {"star", "update", "settings"}
      [] label = "commit"                          -> {"star", "unstar", "update", "settings"}
      [] OTHER                                     -> {"none"}

\* What a request has in hand at its statement.
Shape ==
    /\ DOMAIN priv = Requests
    /\ pc \in [Requests -> Labels]
    /\ seen \in [Requests -> Times \cup Dates]
    /\ target \in [Requests -> Writers \cup {NoOne}]
    /\ \A p \in Requests :
        /\ op[p] \in HandlersAt(pc[p])
        /\ pc[p] = "readSettings" => seen[p] \in Dates
        /\ \/ pc[p] \in {"createStar", "insert"}
           \/ op[p] = "settings" /\ pc[p] \in {"findRow", "deleteRow"}
           => seen[p] \in Dates \X Zones

\* A row has one writer at a time, who has an open transaction; cancelled rows
\* have none.
LockInv ==
    /\ \A p, q \in Requests, i \in Items : Holds(p, i) /\ Holds(q, i) => p = q
    /\ \A p \in Requests : pc[p] \in {"new", "done"} => DOMAIN priv[p] = {}
    /\ \A p \in Requests : Holds(p, "row") => db["row"].status # "cancelled"

\* A row that is there has an inserter.
Authored(r) == r.status # "none" => r.by # NoOne

AuthorInv ==
    /\ Authored(db["row"])
    /\ \A p \in Requests : Holds(p, "row") => Authored(priv[p]["row"])

\* Star: it schedules with the deadline and the settings of the database, and
\* inserts a row only together with a star.
StarClean(p) ==
    /\ DOMAIN priv[p] \subseteq {"star", "row"}
    /\ Holds(p, "row") => /\ Holds(p, "star")
                          /\ priv[p]["row"].status = "pending"
                          /\ priv[p]["row"].at = <<db["conf"], db["settings"]>>
    /\ Holds(p, "star") => priv[p]["star"] # NoOne
    /\ pc[p] = "readSettings" => seen[p] = db["conf"]
    /\ pc[p] \in {"createStar", "insert"} => seen[p] = <<db["conf"], db["settings"]>>
    /\ pc[p] \in {"readSettings", "createStar"} => ~Holds(p, "star")
    /\ pc[p] = "insert" /\ ~Holds(p, "star") => db["row"].status # "none"
    /\ pc[p] = "commit" => View(p, "row").status # "none"

\* Unstar: with the star it takes the pending row.
UnstarClean(p) ==
    /\ DOMAIN priv[p] \subseteq {"star", "row"}
    /\ Holds(p, "row") => priv[p]["row"].status = "cancelled"
    /\ Holds(p, "star") => priv[p]["star"] = NoOne /\ db["star"] # NoOne
    /\ pc[p] \in {"deleteStar", "findRow", "cancelRow"} => ~Holds(p, "row")
    /\ pc[p] = "cancelRow" /\ Holds(p, "star") /\ db["row"].status = "pending" =>
            target[p] = db["row"].by
    /\ pc[p] = "commit" /\ Holds(p, "star") => View(p, "row").status # "pending"

\* An edit, alone with the database: it replaces the pending row.
EditClean(p) ==
    /\ DOMAIN priv[p] \subseteq {IF op[p] = "update" THEN "conf" ELSE "settings", "row"}
    /\ pc[p] \in {"listStarred", "findRow", "deleteRow"} => ~Holds(p, "row")
    /\ pc[p] = "deleteRow" /\ db["row"].status = "pending" => target[p] = db["row"].by
    /\ pc[p] \in {"listStarring", "insert"} => View(p, "row").status # "pending"
    /\ \/ pc[p] = "insert"
       \/ op[p] = "settings" /\ pc[p] \in {"findRow", "deleteRow"}
       => db["star"] # NoOne /\ seen[p] = <<View(p, "conf"), View(p, "settings")>>
    /\ pc[p] = "commit" =>
        /\ View(p, "row").status = "pending" =>
            db["star"] # NoOne /\ View(p, "row").at = <<View(p, "conf"), View(p, "settings")>>
        /\ db["star"] # NoOne => View(p, "row").status # "none"

Clean(p) ==
    /\ op[p] = "star" => StarClean(p)
    /\ op[p] = "unstar" => UnstarClean(p)
    /\ op[p] \in Edits => EditClean(p)

\* While no edit has met another request, an edit in flight is alone, and the
\* schedule is consistent even while requests are running.
CleanInv ==
    mixed \/ /\ \A p, q \in InFlight : op[p] \in Edits => p = q
             /\ Consistent
             /\ \A p \in Requests : Clean(p)

RaceInv == TypeOK /\ Shape /\ LockInv /\ AuthorInv /\ CleanInv

-----------------------------------------------------------------------------
(* What a step leaves alone.                                               *)

\* The transaction that has written nothing.
LEMMA NothingIsEmpty == DOMAIN Nothing = {}
BY DEF Nothing

\* A write adds one item to the transaction of its request.
LEMMA WriteEffect ==
    ASSUME DOMAIN priv = Requests, NEW p \in Requests, NEW i, NEW v, Write(p, i, v)
    PROVE  /\ DOMAIN priv' = Requests
           /\ DOMAIN priv'[p] = DOMAIN priv[p] \cup {i}
           /\ priv'[p][i] = v
           /\ \A j \in DOMAIN priv[p] \ {i} : priv'[p][j] = priv[p][j]
           /\ \A q \in Requests \ {p} : priv'[q] = priv[q]
BY DEF Write

\* The end of a transaction.
LEMMA EndEffect ==
    ASSUME TypeOK, Shape, NEW p \in Requests, End(p)
    PROVE  /\ DOMAIN priv' = Requests /\ DOMAIN priv'[p] = {}
           /\ pc'[p] = "done" /\ op'[p] = "none" /\ seen'[p] = <<>> /\ target'[p] = NoOne
           /\ mixed' = mixed
BY NothingIsEmpty DEF End, Goto, Shape, TypeOK

\* A request that has not come or is through has nothing; a step of one
\* request touches nothing of another.
LEMMA OthersKeep ==
    ASSUME TypeOK, Shape, NEW p \in Requests, Step(p) \/ Rollback(p),
           NEW q \in Requests \ {p}
    PROVE  /\ DOMAIN priv' = Requests
           /\ priv'[q] = priv[q] /\ pc'[q] = pc[q] /\ op'[q] = op[q]
           /\ seen'[q] = seen[q] /\ target'[q] = target[q]
<1>. USE DEF Shape, TypeOK, Goto
<1>1. ASSUME NEW i, NEW v, Write(p, i, v) PROVE DOMAIN priv' = Requests /\ priv'[q] = priv[q]
  BY <1>1, WriteEffect
<1>2. CASE GetConference(p) \/ FindStar(p)
  BY <1>2 DEF GetConference, FindStar, Begin
<1>3. CASE GetUserSettings(p) \/ FindRow(p) \/ ListStarring(p) \/ ListStarred(p)
  BY <1>3 DEF GetUserSettings, FindRow, ListStarring, ListStarred
<1>4. CASE CreateStar(p) \/ InsertReminderRow(p)
  BY <1>1, <1>4 DEF CreateStar, InsertReminderRow
<1>5. CASE DeleteStar(p) \/ CancelRow(p) \/ DeleteRow(p)
  BY <1>1, <1>5 DEF DeleteStar, CancelRow, DeleteRow
<1>6. CASE \E d \in Dates : UpdateConference(p, d)
  BY <1>1, <1>6 DEF UpdateConference, Begin
<1>7. CASE \E z \in Zones : UpdateUserSettings(p, z)
  BY <1>1, <1>7 DEF UpdateUserSettings, Begin
<1>8. CASE Commit(p) \/ Rollback(p)
  BY <1>8 DEF Commit, Rollback, End
<1>. QED  BY <1>2, <1>3, <1>4, <1>5, <1>6, <1>7, <1>8 DEF Step

-----------------------------------------------------------------------------
(* Type correctness.                                                       *)

\* The types of the four rows, one by one.
LEMMA ItemTypes ==
    /\ Items = {"conf", "settings", "star", "row"}
    /\ ItemType("conf") = Dates /\ ItemType("settings") = Zones
    /\ ItemType("star") = Writers \cup {NoOne}
    /\ ItemType("row") = [status : Statuses, by : Writers \cup {NoOne}, at : Times]
<1>1. ItemType("conf") = Dates
  BY DEF ItemType
<1>2. ItemType("settings") = Zones
  BY DEF ItemType
<1>3. ItemType("star") = Writers \cup {NoOne}
  BY DEF ItemType
<1>4. ItemType("row") = [status : Statuses, by : Writers \cup {NoOne}, at : Times]
  BY Zenon DEF ItemType
<1>. QED  BY <1>1, <1>2, <1>3, <1>4 DEF Items

\* What a request sees of a row is a row.
LEMMA ViewType ==
    ASSUME TypeOK, NEW p \in Requests, NEW i \in Items
    PROVE  View(p, i) \in ItemType(i)
BY DEF TypeOK, View

\* The part of the type invariant that is about one request.
OwnType(p) ==
    /\ DOMAIN priv[p] \subseteq Items
    /\ \A i \in DOMAIN priv[p] : priv[p][i] \in ItemType(i)
    /\ op[p] \in HandlersAt(pc[p])
    /\ pc[p] = "readSettings" => seen[p] \in Dates
    /\ \/ pc[p] \in {"createStar", "insert"}
       \/ op[p] = "settings" /\ pc[p] \in {"findRow", "deleteRow"}
       => seen[p] \in Dates \X Zones

\* The rest of it.
TableType ==
    /\ DOMAIN db = Items /\ \A i \in Items : db[i] \in ItemType(i)
    /\ op \in [Requests -> Ops] /\ mixed \in BOOLEAN
    /\ DOMAIN priv = Requests
    /\ pc \in [Requests -> Labels]
    /\ seen \in [Requests -> Times \cup Dates]
    /\ target \in [Requests -> Writers \cup {NoOne}]

\* The two parts together.
LEMMA TypeParts ==
    /\ TypeOK /\ Shape <=> TableType /\ \A p \in Requests : OwnType(p)
    /\ (TypeOK /\ Shape)' <=> (TableType /\ \A p \in Requests : OwnType(p))'
BY DEF TypeOK, Shape, TableType, OwnType, Ops

\* A write of the right type.
LEMMA WriteType ==
    ASSUME DOMAIN priv = Requests, NEW p \in Requests, OwnType(p),
           NEW i \in Items, NEW v \in ItemType(i), Write(p, i, v)
    PROVE  /\ DOMAIN priv' = Requests
           /\ DOMAIN priv'[p] \subseteq Items
           /\ \A j \in DOMAIN priv'[p] : priv'[p][j] \in ItemType(j)
BY WriteEffect DEF OwnType

\* Every request starts well typed.
LEMMA TypeInit == Init => TypeOK /\ Shape
<1>. SUFFICES ASSUME Init PROVE TableType /\ \A p \in Requests : OwnType(p)
  BY TypeParts
<1>1. DOMAIN db = Items /\ \A i \in Items : db[i] \in ItemType(i)
  <2>1. PICK d \in Dates, z \in Zones :
          \E s \in { <<"setup", Row("pending", "setup", <<d, z>>)>>,
                     <<NoOne, NoRow>>,
                     <<NoOne, Row("cancelled", "setup", <<d, z>>)>> } :
            db = [i \in Items |-> CASE i = "conf"     -> d
                                    [] i = "settings" -> z
                                    [] i = "star"     -> s[1]
                                    [] i = "row"      -> s[2]]
    BY DEF Init
  <2>2. PICK s \in { <<"setup", Row("pending", "setup", <<d, z>>)>>,
                     <<NoOne, NoRow>>,
                     <<NoOne, Row("cancelled", "setup", <<d, z>>)>> } :
            db = [i \in Items |-> CASE i = "conf"     -> d
                                    [] i = "settings" -> z
                                    [] i = "star"     -> s[1]
                                    [] i = "row"      -> s[2]]
    BY <2>1
  <2>3. s[1] \in Writers \cup {NoOne}
    BY <2>2 DEF Writers
  <2>4. s[2] \in ItemType("row")
    <3>1. s[2] \in {Row("pending", "setup", <<d, z>>), NoRow, Row("cancelled", "setup", <<d, z>>)}
      BY <2>2
    <3>2. s[2] \in [status : Statuses, by : Writers \cup {NoOne}, at : Times]
      BY <3>1 DEF Row, NoRow, Statuses, Times, Writers
    <3>. QED  BY <3>2, ItemTypes
  <2>5. /\ DOMAIN db = Items /\ db["conf"] = d /\ db["settings"] = z
        /\ db["star"] = s[1] /\ db["row"] = s[2]
    BY <2>2, ItemTypes
  <2>. QED  BY <2>3, <2>4, <2>5, ItemTypes
<1>2. TableType
  BY <1>1 DEF Init, TableType, Ops, Labels, Times, Writers
<1>3. \A p \in Requests : DOMAIN priv[p] = {}
  BY NothingIsEmpty DEF Init
<1>. QED  BY <1>2, <1>3 DEF Init, OwnType, HandlersAt

\* A step of request p keeps the types.
LEMMA TypeRequest ==
    ASSUME TypeOK, Shape, NEW p \in Requests, Step(p) \/ Rollback(p)
    PROVE  TypeOK' /\ Shape'
<1>0. TableType /\ OwnType(p)
  BY TypeParts
<1>. SUFFICES TableType' /\ OwnType(p)'
  <2>1. ASSUME NEW q \in Requests \ {p} PROVE OwnType(q)'
    <3>1. OwnType(q)
      BY TypeParts
    <3>. QED  BY <3>1, OthersKeep DEF OwnType
  <2>2. \A q \in Requests : OwnType(q)'
    BY <2>1
  <2>. QED  BY <2>2, TypeParts
<1>. USE DEF TableType, OwnType, Goto
<1>1. CASE GetConference(p)
  BY <1>0, <1>1, ItemTypes DEF GetConference, Begin, Labels, Ops, HandlersAt
<1>2. CASE FindStar(p)
  BY <1>0, <1>2, ItemTypes DEF FindStar, Begin, Labels, Ops, HandlersAt
<1>3. CASE GetUserSettings(p)
  <2>1. <<seen[p], db["settings"]>> \in Dates \X Zones
    BY <1>0, <1>3, ItemTypes DEF GetUserSettings
  <2>. QED  BY <1>0, <1>3, <2>1 DEF GetUserSettings, Labels, HandlersAt, Times
<1>4. CASE FindRow(p)
  <2>1. View(p, "row").by \in Writers \cup {NoOne}
    <3>1. View(p, "row") \in [status : Statuses, by : Writers \cup {NoOne}, at : Times]
      BY ViewType, ItemTypes
    <3>. QED  BY <3>1
  <2>. QED  BY <1>0, <1>4, <2>1 DEF FindRow, Labels, HandlersAt
<1>5. CASE ListStarring(p)
  <2>1. <<View(p, "conf"), db["settings"]>> \in Dates \X Zones
    BY <1>0, ViewType, ItemTypes
  <2>. QED  BY <1>0, <1>5, <2>1 DEF ListStarring, Labels, HandlersAt, Times
<1>6. CASE ListStarred(p)
  <2>1. <<db["conf"], View(p, "settings")>> \in Dates \X Zones
    BY <1>0, ViewType, ItemTypes
  <2>. QED  BY <1>0, <1>6, <2>1 DEF ListStarred, Labels, HandlersAt, Times
<1>7. CASE CreateStar(p)
  <2>1. "star" \in Items /\ p \in ItemType("star")
    BY ItemTypes DEF Writers
  <2>2. /\ DOMAIN priv' = Requests /\ DOMAIN priv'[p] \subseteq Items
        /\ \A j \in DOMAIN priv'[p] : priv'[p][j] \in ItemType(j)
    BY <1>0, <1>7, <2>1, WriteType DEF CreateStar
  <2>. QED  BY <1>0, <1>7, <2>2 DEF CreateStar, Labels, HandlersAt
<1>8. CASE InsertReminderRow(p)
  <2>1. "row" \in Items /\ Row("pending", p, seen[p]) \in ItemType("row")
    BY <1>0, <1>8, ItemTypes DEF InsertReminderRow, Row, Statuses, Writers, Times
  <2>2. /\ DOMAIN priv' = Requests /\ DOMAIN priv'[p] \subseteq Items
        /\ \A j \in DOMAIN priv'[p] : priv'[p][j] \in ItemType(j)
    BY <1>0, <1>8, <2>1, WriteType DEF InsertReminderRow
  <2>. QED  BY <1>0, <1>8, <2>2 DEF InsertReminderRow, Labels, HandlersAt
<1>9. CASE DeleteStar(p)
  <2>1. "star" \in Items /\ NoOne \in ItemType("star")
    BY ItemTypes
  <2>2. /\ DOMAIN priv' = Requests /\ DOMAIN priv'[p] \subseteq Items
        /\ \A j \in DOMAIN priv'[p] : priv'[p][j] \in ItemType(j)
    BY <1>0, <1>9, <2>1, WriteType DEF DeleteStar
  <2>. QED  BY <1>0, <1>9, <2>2 DEF DeleteStar, Labels, HandlersAt
<1>10. CASE CancelRow(p)
  <2>1. "row" \in Items /\ [View(p, "row") EXCEPT !.status = "cancelled"] \in ItemType("row")
    <3>1. View(p, "row") \in [status : Statuses, by : Writers \cup {NoOne}, at : Times]
      BY ViewType, ItemTypes
    <3>2. [View(p, "row") EXCEPT !.status = "cancelled"]
            \in [status : Statuses, by : Writers \cup {NoOne}, at : Times]
      BY <3>1 DEF Statuses
    <3>. QED  BY <3>2, ItemTypes
  <2>2. /\ DOMAIN priv' = Requests /\ DOMAIN priv'[p] \subseteq Items
        /\ \A j \in DOMAIN priv'[p] : priv'[p][j] \in ItemType(j)
    BY <1>0, <1>10, <2>1, WriteType DEF CancelRow
  <2>. QED  BY <1>0, <1>10, <2>2 DEF CancelRow, Labels, HandlersAt
<1>11. CASE DeleteRow(p)
  <2>1. "row" \in Items /\ NoRow \in ItemType("row")
    BY ItemTypes DEF NoRow, Row, Statuses, Times
  <2>2. /\ DOMAIN priv' = Requests /\ DOMAIN priv'[p] \subseteq Items
        /\ \A j \in DOMAIN priv'[p] : priv'[p][j] \in ItemType(j)
    BY <1>0, <1>11, <2>1, WriteType DEF DeleteRow
  <2>. QED  BY <1>0, <1>11, <2>2 DEF DeleteRow, Labels, HandlersAt
<1>12. ASSUME NEW d \in Dates, UpdateConference(p, d) PROVE TableType' /\ OwnType(p)'
  <2>1. "conf" \in Items /\ d \in ItemType("conf")
    BY ItemTypes
  <2>2. /\ DOMAIN priv' = Requests /\ DOMAIN priv'[p] \subseteq Items
        /\ \A j \in DOMAIN priv'[p] : priv'[p][j] \in ItemType(j)
    BY <1>0, <1>12, <2>1, WriteType DEF UpdateConference
  <2>. QED  BY <1>0, <1>12, <2>2 DEF UpdateConference, Begin, Labels, Ops, HandlersAt
<1>13. ASSUME NEW z \in Zones, UpdateUserSettings(p, z) PROVE TableType' /\ OwnType(p)'
  <2>1. "settings" \in Items /\ z \in ItemType("settings")
    BY ItemTypes
  <2>2. /\ DOMAIN priv' = Requests /\ DOMAIN priv'[p] \subseteq Items
        /\ \A j \in DOMAIN priv'[p] : priv'[p][j] \in ItemType(j)
    BY <1>0, <1>13, <2>1, WriteType DEF UpdateUserSettings
  <2>. QED  BY <1>0, <1>13, <2>2 DEF UpdateUserSettings, Begin, Labels, Ops, HandlersAt
<1>14. CASE Commit(p) \/ Rollback(p)
  <2>1. DOMAIN db' = Items /\ \A i \in Items : db'[i] \in ItemType(i)
    BY <1>0, <1>14, ViewType DEF Commit, Rollback
  <2>2. End(p)
    BY <1>14 DEF Commit, Rollback
  <2>. QED  BY <1>0, <2>1, <2>2, EndEffect DEF End, Labels, Ops, HandlersAt, Times
<1>. QED  BY <1>1, <1>2, <1>3, <1>4, <1>5, <1>6, <1>7, <1>8, <1>9, <1>10, <1>11, <1>12,
             <1>13, <1>14 DEF Step

\* The types of the tables and of the requests' variables, in every behaviour.
LEMMA ShapeAlways == Spec => [](TypeOK /\ Shape)
<1>1. TypeOK /\ Shape /\ [Next]_vars => TypeOK' /\ Shape'
  <2>. SUFFICES ASSUME TypeOK, Shape, [Next]_vars PROVE TypeOK' /\ Shape'
    OBVIOUS
  <2>1. CASE UNCHANGED vars
    BY <2>1 DEF vars, TypeOK, Shape
  <2>. QED  BY <2>1, TypeRequest DEF Next, AllDone
<1>. QED  BY TypeInit, <1>1, PTL DEF Spec

\* Type correctness of the requests at READ COMMITTED: whatever statements
\* interleave, the tables and the open transactions hold rows of their type.
THEOREM TypeCorrect == Spec => []TypeOK
BY ShapeAlways, PTL

-----------------------------------------------------------------------------
(* Row locks.                                                              *)

\* What a request sees of the log row, as a record.
LEMMA ViewRow ==
    ASSUME TypeOK, NEW p \in Requests
    PROVE  View(p, "row") \in [status : Statuses, by : Writers \cup {NoOne}, at : Times]
BY ViewType, ItemTypes

\* A statement that writes nothing keeps the locks.
LEMMA LockRead ==
    ASSUME Shape, LockInv, AuthorInv, UNCHANGED <<db, priv>>,
           \A q \in Requests : pc'[q] \in {"new", "done"} => pc[q] \in {"new", "done"}
    PROVE  LockInv' /\ AuthorInv'
BY DEF LockInv, AuthorInv, Authored, Holds

\* So does one that writes a row nobody else has written, unless it rewrites
\* history.
LEMMA LockWrite ==
    ASSUME TypeOK, Shape, LockInv, AuthorInv, UNCHANGED db,
           NEW p \in Requests, NEW i \in Items, NEW v, Write(p, i, v), Free(p, i),
           pc'[p] \notin {"new", "done"},
           \A q \in Requests \ {p} : pc'[q] = pc[q],
           i = "row" => View(p, "row").status # "cancelled" /\ Authored(v)
    PROVE  LockInv' /\ AuthorInv'
<1>0. /\ DOMAIN priv' = Requests /\ DOMAIN priv'[p] = DOMAIN priv[p] \cup {i} /\ priv'[p][i] = v
      /\ \A j \in DOMAIN priv[p] \ {i} : priv'[p][j] = priv[p][j]
      /\ \A q \in Requests \ {p} : priv'[q] = priv[q]
  BY WriteEffect DEF Shape
<1>1. \A q, r \in Requests, j \in Items : Holds(q, j)' /\ Holds(r, j)' => q = r
  BY <1>0 DEF LockInv, Holds, Free
<1>2. \A q \in Requests : pc'[q] \in {"new", "done"} => DOMAIN priv'[q] = {}
  BY <1>0 DEF LockInv
<1>3. i = "row" => db["row"].status # "cancelled"
  BY DEF LockInv, Holds, View
<1>4. \A q \in Requests : Holds(q, "row")' => db'["row"].status # "cancelled"
  BY <1>0, <1>3 DEF LockInv, Holds
<1>5. AuthorInv'
  BY <1>0 DEF AuthorInv, Authored, Holds
<1>. QED  BY <1>1, <1>2, <1>4, <1>5 DEF LockInv

\* The end of a transaction publishes rows that nobody else has written, or
\* nothing.
LEMMA LockEnd ==
    ASSUME TypeOK, Shape, LockInv, AuthorInv, NEW p \in Requests, Commit(p) \/ Rollback(p)
    PROVE  /\ LockInv' /\ AuthorInv'
           /\ db["row"].status = "cancelled" => db'["row"] = db["row"]
<1>0. /\ DOMAIN priv'[p] = {} /\ pc'[p] = "done"
      /\ \A q \in Requests \ {p} : priv'[q] = priv[q] /\ pc'[q] = pc[q]
  BY EndEffect, OthersKeep DEF Commit, Rollback, Step
<1>1. \A q, r \in Requests, j \in Items : Holds(q, j)' /\ Holds(r, j)' => q = r
  BY <1>0 DEF LockInv, Holds
<1>2. \A q \in Requests : pc'[q] \in {"new", "done"} => DOMAIN priv'[q] = {}
  BY <1>0 DEF LockInv
<1>3. \/ db'["row"] = db["row"]
      \/ Holds(p, "row") /\ db'["row"] = priv[p]["row"]
  BY ItemTypes DEF Commit, Rollback, View, Holds
<1>4. "row" \in Items
  BY ItemTypes
<1>5. \A q \in Requests : Holds(q, "row")' => q # p /\ Holds(q, "row") /\ db'["row"] = db["row"]
  BY <1>0, <1>3, <1>4 DEF LockInv, Holds
<1>6. \A q \in Requests : Holds(q, "row")' => db'["row"].status # "cancelled"
  BY <1>5 DEF LockInv
<1>7. AuthorInv'
  BY <1>0, <1>3, <1>5 DEF AuthorInv, Authored
<1>8. db["row"].status = "cancelled" => db'["row"] = db["row"]
  BY <1>3 DEF LockInv
<1>. QED  BY <1>1, <1>2, <1>6, <1>7, <1>8 DEF LockInv

\* Every step of a request keeps the locks and the history.
LEMMA LockRequest ==
    ASSUME TypeOK, Shape, LockInv, AuthorInv, NEW p \in Requests, Step(p) \/ Rollback(p)
    PROVE  /\ LockInv' /\ AuthorInv'
           /\ db["row"].status = "cancelled" => db'["row"] = db["row"]
<1>0. /\ \A q \in Requests \ {p} : pc'[q] = pc[q]
      /\ pc \in [Requests -> Labels] /\ "row" \in Items /\ "star" \in Items
      /\ "conf" \in Items /\ "settings" \in Items
  BY OthersKeep, ItemTypes DEF Shape
<1>1. ASSUME UNCHANGED <<db, priv>>, pc'[p] \notin {"new", "done"}
      PROVE  LockInv' /\ AuthorInv'
  BY <1>0, <1>1, LockRead
<1>2. CASE GetConference(p) \/ FindStar(p)
  BY <1>0, <1>1, <1>2 DEF GetConference, FindStar, Begin, Goto
<1>3. CASE GetUserSettings(p) \/ FindRow(p) \/ ListStarring(p) \/ ListStarred(p)
  BY <1>0, <1>1, <1>3 DEF GetUserSettings, FindRow, ListStarring, ListStarred, Goto
<1>4. CASE CreateStar(p)
  <2>1. UNCHANGED db /\ pc'[p] = "insert" /\ Free(p, "star")
    BY <1>0, <1>4 DEF CreateStar, Goto
  <2>2. CASE Write(p, "star", p)
    BY <1>0, <2>1, <2>2, LockWrite
  <2>. QED  BY <1>1, <1>4, <2>1, <2>2 DEF CreateStar
<1>5. CASE InsertReminderRow(p)
  <2>1. UNCHANGED db /\ pc'[p] = "commit" /\ Free(p, "row")
    BY <1>0, <1>5 DEF InsertReminderRow, Goto
  <2>2. Authored(Row("pending", p, seen[p]))
    BY RequestNames DEF Authored, Row
  <2>3. CASE View(p, "row").status = "none" /\ Write(p, "row", Row("pending", p, seen[p]))
    BY <1>0, <2>1, <2>2, <2>3, LockWrite
  <2>. QED  BY <1>1, <1>5, <2>1, <2>3 DEF InsertReminderRow
<1>6. CASE DeleteStar(p)
  <2>1. UNCHANGED db /\ pc'[p] = "findRow"
    BY <1>0, <1>6 DEF DeleteStar, Goto
  <2>2. CASE target[p] # NoOne /\ Write(p, "star", NoOne)
    BY <1>0, <1>6, <2>1, <2>2, LockWrite DEF DeleteStar
  <2>. QED  BY <1>1, <1>6, <2>1, <2>2 DEF DeleteStar
<1>7. CASE CancelRow(p)
  <2>1. UNCHANGED db /\ pc'[p] = "commit"
    BY <1>0, <1>7 DEF CancelRow, Goto
  <2>2. CASE FoundRow(p) /\ Write(p, "row", [View(p, "row") EXCEPT !.status = "cancelled"])
    <3>1. Authored([View(p, "row") EXCEPT !.status = "cancelled"])
      BY <2>2, ViewRow DEF FoundRow, Authored
    <3>2. Free(p, "row") /\ View(p, "row").status # "cancelled"
      BY <1>7, <2>2 DEF CancelRow, FoundRow
    <3>. QED  BY <1>0, <2>1, <2>2, <3>1, <3>2, LockWrite
  <2>. QED  BY <1>1, <1>7, <2>1, <2>2 DEF CancelRow
<1>8. CASE DeleteRow(p)
  <2>1. UNCHANGED db /\ pc'[p] \notin {"new", "done"}
    BY <1>0, <1>8 DEF DeleteRow, Goto
  <2>2. CASE FoundRow(p) /\ Write(p, "row", NoRow)
    <3>1. Authored(NoRow)
      BY DEF Authored, NoRow, Row
    <3>2. Free(p, "row") /\ View(p, "row").status # "cancelled"
      BY <1>8, <2>2 DEF DeleteRow, FoundRow
    <3>. QED  BY <1>0, <2>1, <2>2, <3>1, <3>2, LockWrite
  <2>. QED  BY <1>1, <1>8, <2>1, <2>2 DEF DeleteRow
<1>9. ASSUME NEW d \in Dates, UpdateConference(p, d) PROVE LockInv' /\ AuthorInv' /\ UNCHANGED db
  <2>1. /\ UNCHANGED db /\ pc'[p] = "findRow" /\ Free(p, "conf") /\ Write(p, "conf", d)
    BY <1>0, <1>9 DEF UpdateConference, Begin, Goto
  <2>. QED  BY <1>0, <2>1, LockWrite
<1>10. ASSUME NEW z \in Zones, UpdateUserSettings(p, z)
       PROVE  LockInv' /\ AuthorInv' /\ UNCHANGED db
  <2>1. /\ UNCHANGED db /\ pc'[p] = "listStarred" /\ Free(p, "settings")
        /\ Write(p, "settings", z)
    BY <1>0, <1>10 DEF UpdateUserSettings, Begin, Goto
  <2>. QED  BY <1>0, <2>1, LockWrite
<1>11. CASE Commit(p) \/ Rollback(p)
  BY <1>11, LockEnd
<1>12. db' = db \/ Commit(p)
  BY DEF Step, GetConference, GetUserSettings, CreateStar, FindStar, DeleteStar, FindRow,
         CancelRow, UpdateConference, UpdateUserSettings, DeleteRow, ListStarring,
         ListStarred, InsertReminderRow, Rollback
<1>. QED  BY <1>2, <1>3, <1>4, <1>5, <1>6, <1>7, <1>8, <1>9, <1>10, <1>11, <1>12 DEF Step

\* The locks hold in every behaviour.
LEMMA LockAlways == Spec => [](TypeOK /\ Shape /\ LockInv /\ AuthorInv)
<1>1. Init => LockInv /\ AuthorInv
  <2>. SUFFICES ASSUME Init PROVE LockInv /\ AuthorInv
    OBVIOUS
  <2>1. \A p \in Requests : DOMAIN priv[p] = {}
    BY NothingIsEmpty DEF Init
  <2>2. Authored(db["row"])
    BY ItemTypes DEF Init, Authored, Row, NoRow, NoOne
  <2>. QED  BY <2>1, <2>2 DEF LockInv, AuthorInv, Holds
<1>2. TypeOK /\ Shape /\ LockInv /\ AuthorInv /\ [Next]_vars => LockInv' /\ AuthorInv'
  <2>. SUFFICES ASSUME TypeOK, Shape, LockInv, AuthorInv, [Next]_vars
                PROVE  LockInv' /\ AuthorInv'
    OBVIOUS
  <2>1. CASE UNCHANGED vars
    BY <2>1, LockRead DEF vars
  <2>. QED  BY <2>1, LockRequest DEF Next, AllDone
<1>. QED  BY ShapeAlways, <1>1, <1>2, PTL DEF Spec

\* In every behaviour, however the statements of any number of requests
\* interleave, a cancelled row stays as it is.
THEOREM HistorySurvivesRacesAlways == Spec => HistorySurvivesRaces
<1>. DEFINE Keeps == db["row"].status = "cancelled" => db'["row"] = db["row"]
<1>1. TypeOK /\ Shape /\ LockInv /\ AuthorInv /\ [Next]_vars => [Keeps]_vars
  <2>. SUFFICES ASSUME TypeOK, Shape, LockInv, AuthorInv, Next, ~UNCHANGED vars PROVE Keeps
    OBVIOUS
  <2>. QED  BY LockRequest DEF Next, AllDone
<1>. QED  BY LockAlways, <1>1, PTL DEF Spec, HistorySurvivesRaces

-----------------------------------------------------------------------------
(* The schedule stays consistent while edits keep to themselves.           *)

\* A request that has not come or is through runs no handler.
LEMMA IdleRunsNothing ==
    ASSUME Shape, NEW p \in Requests
    PROVE  /\ pc[p] \in {"new", "done"} => op[p] = "none"
           /\ op[p] = "none" => pc[p] \in {"new", "done"}
BY DEF Shape, HandlersAt, Labels

\* Arrivals.
LEMMA CleanArrival ==
    ASSUME TypeOK, Shape, LockInv, ~mixed', NEW p \in Requests,
           \/ GetConference(p) \/ FindStar(p)
           \/ \E d \in Dates : UpdateConference(p, d)
           \/ \E z \in Zones : UpdateUserSettings(p, z)
    PROVE  Clean(p)'
<1>0. /\ pc \in [Requests -> Labels] /\ op \in [Requests -> Ops] /\ DOMAIN priv = Requests
      /\ seen \in [Requests -> Times \cup Dates] /\ pc[p] = "new" /\ DOMAIN priv[p] = {}
  BY DEF TypeOK, Shape, LockInv, Ops, GetConference, FindStar, UpdateConference,
         UpdateUserSettings, Begin
<1>1. CASE GetConference(p)
  <2>1. /\ op'[p] = "star" /\ pc'[p] = "readSettings" /\ seen'[p] = db["conf"]
        /\ UNCHANGED <<db, priv>>
    BY <1>0, <1>1 DEF GetConference, Begin, Goto
  <2>. QED  BY <1>0, <2>1 DEF Clean, StarClean, Edits, Holds
<1>2. CASE FindStar(p)
  <2>1. /\ op'[p] = "unstar" /\ pc'[p] = "deleteStar" /\ UNCHANGED <<db, priv>>
    BY <1>0, <1>2 DEF FindStar, Begin, Goto
  <2>. QED  BY <1>0, <2>1 DEF Clean, UnstarClean, Edits, Holds
<1>3. ASSUME NEW d \in Dates, UpdateConference(p, d) PROVE Clean(p)'
  <2>1. /\ op'[p] = "update" /\ pc'[p] = "findRow" /\ Write(p, "conf", d)
    BY <1>0, <1>3 DEF UpdateConference, Begin, Goto
  <2>2. DOMAIN priv'[p] = {"conf"}
    BY <1>0, <2>1, WriteEffect
  <2>. QED  BY <2>1, <2>2 DEF Clean, EditClean, Edits, Holds
<1>4. ASSUME NEW z \in Zones, UpdateUserSettings(p, z) PROVE Clean(p)'
  <2>1. /\ op'[p] = "settings" /\ pc'[p] = "listStarred" /\ Write(p, "settings", z)
    BY <1>0, <1>4 DEF UpdateUserSettings, Begin, Goto
  <2>2. DOMAIN priv'[p] = {"settings"}
    BY <1>0, <2>1, WriteEffect
  <2>. QED  BY <2>1, <2>2 DEF Clean, EditClean, Edits, Holds
<1>. QED  BY <1>1, <1>2, <1>3, <1>4

\* The statements of Star up to the INSERT of the row.
LEMMA CleanStar ==
    ASSUME TypeOK, Shape, Consistent, NEW p \in Requests, Clean(p),
           GetUserSettings(p) \/ CreateStar(p)
    PROVE  Clean(p)'
<1>0. /\ pc \in [Requests -> Labels] /\ op[p] = "star" /\ DOMAIN priv = Requests
      /\ seen \in [Requests -> Times \cup Dates] /\ StarClean(p) /\ UNCHANGED <<db, op>>
  BY DEF TypeOK, Shape, HandlersAt, GetUserSettings, CreateStar, Clean
<1>. SUFFICES StarClean(p)'
  BY <1>0 DEF Clean, Edits
<1>1. CASE GetUserSettings(p)
  <2>1. /\ pc'[p] = "createStar" /\ seen'[p] = <<db["conf"], db["settings"]>>
        /\ pc[p] = "readSettings" /\ UNCHANGED priv
    BY <1>0, <1>1 DEF GetUserSettings, Goto, StarClean
  <2>. QED  BY <1>0, <2>1 DEF StarClean, Holds
<1>2. CASE CreateStar(p)
  <2>1. /\ pc'[p] = "insert" /\ pc[p] = "createStar" /\ UNCHANGED seen
        /\ seen[p] = <<db["conf"], db["settings"]>> /\ DOMAIN priv[p] = {}
    BY <1>0, <1>2 DEF CreateStar, Goto, StarClean, Holds
  <2>2. CASE Write(p, "star", p)
    <3>1. DOMAIN priv'[p] = {"star"} /\ priv'[p]["star"] = p
      BY <1>0, <2>1, <2>2, WriteEffect
    <3>. QED  BY <1>0, <2>1, <3>1, RequestNames DEF StarClean, Holds
  <2>3. CASE db["star"] # NoOne /\ UNCHANGED priv
    BY <1>0, <2>1, <2>3 DEF StarClean, Holds, Consistent
  <2>. QED  BY <1>2, <2>2, <2>3 DEF CreateStar
<1>. QED  BY <1>1, <1>2

\* The INSERT of the row, by Star and by the two edits.
LEMMA CleanInsert ==
    ASSUME TypeOK, Shape, NEW p \in Requests, Clean(p), InsertReminderRow(p)
    PROVE  Clean(p)'
<1>0. /\ pc \in [Requests -> Labels] /\ DOMAIN priv = Requests /\ pc[p] = "insert"
      /\ pc'[p] = "commit" /\ UNCHANGED <<db, op, seen>>
      /\ op[p] \in {"star", "update", "settings"}
  BY DEF TypeOK, Shape, HandlersAt, InsertReminderRow, Goto
<1>. DEFINE new == Row("pending", p, seen[p])
<1>1. CASE View(p, "row").status = "none" /\ Write(p, "row", new)
  <2>0. new.status = "pending" /\ new.at = seen[p]
    BY DEF Row
  <2>. HIDE DEF new
  <2>1. /\ DOMAIN priv'[p] = DOMAIN priv[p] \cup {"row"} /\ priv'[p]["row"] = new
        /\ \A j \in DOMAIN priv[p] \ {"row"} : priv'[p][j] = priv[p][j]
    BY <1>0, <1>1, WriteEffect
  <2>2. CASE op[p] = "star"
    <3>1. StarClean(p)
      BY <2>2 DEF Clean
    <3>2. Holds(p, "star")
      BY <1>0, <1>1, <3>1 DEF StarClean, View, Holds
    <3>3. StarClean(p)'
      BY <1>0, <2>0, <2>1, <3>1, <3>2 DEF StarClean, View, Holds
    <3>. QED  BY <1>0, <2>2, <3>3 DEF Clean, Edits
  <2>3. CASE op[p] \in Edits
    <3>1. EditClean(p)
      BY <2>3 DEF Clean
    <3>2. View(p, "conf")' = View(p, "conf") /\ View(p, "settings")' = View(p, "settings")
      BY <1>0, <2>1 DEF View
    <3>3. View(p, "row")' = new
      BY <2>1 DEF View
    <3>4. EditClean(p)'
      BY <1>0, <2>0, <2>1, <3>1, <3>2, <3>3 DEF EditClean, Holds
    <3>. QED  BY <1>0, <2>3, <3>4 DEF Clean, Edits
  <2>. QED  BY <1>0, <2>2, <2>3 DEF Edits
<1>2. CASE View(p, "row").status # "none" /\ UNCHANGED priv
  BY <1>0, <1>2 DEF Clean, StarClean, EditClean, Edits, View, Holds
<1>. QED  BY <1>1, <1>2 DEF InsertReminderRow

\* The statements of Unstar.
LEMMA CleanUnstar ==
    ASSUME TypeOK, Shape, AuthorInv, NEW p \in Requests, Clean(p), op[p] = "unstar",
           DeleteStar(p) \/ FindRow(p) \/ CancelRow(p)
    PROVE  Clean(p)'
<1>0. /\ pc \in [Requests -> Labels] /\ DOMAIN priv = Requests
      /\ target \in [Requests -> Writers \cup {NoOne}] /\ UnstarClean(p) /\ UNCHANGED <<db, op>>
  BY DEF TypeOK, Shape, DeleteStar, FindRow, CancelRow, Clean
<1>. SUFFICES UnstarClean(p)'
  BY <1>0 DEF Clean, Edits
<1>1. CASE DeleteStar(p)
  <2>1. pc'[p] = "findRow" /\ pc[p] = "deleteStar"
    BY <1>0, <1>1 DEF DeleteStar, Goto
  <2>2. CASE target[p] # NoOne /\ db["star"] = target[p] /\ Write(p, "star", NoOne)
    <3>1. DOMAIN priv'[p] = DOMAIN priv[p] \cup {"star"} /\ priv'[p]["star"] = NoOne
      BY <1>0, <2>2, WriteEffect
    <3>. QED  BY <1>0, <2>1, <2>2, <3>1 DEF UnstarClean, Holds
  <2>3. CASE UNCHANGED priv
    BY <1>0, <2>1, <2>3 DEF UnstarClean, Holds
  <2>. QED  BY <1>1, <2>2, <2>3 DEF DeleteStar
<1>2. CASE FindRow(p)
  <2>1. /\ pc'[p] = "cancelRow" /\ pc[p] = "findRow" /\ UNCHANGED priv
        /\ View(p, "row").status = "pending" => target'[p] = View(p, "row").by
    BY <1>0, <1>2 DEF FindRow, Goto
  <2>2. View(p, "row") = db["row"]
    BY <1>0, <2>1 DEF UnstarClean, View, Holds
  <2>. QED  BY <1>0, <2>1, <2>2 DEF UnstarClean, Holds
<1>3. CASE CancelRow(p)
  <2>1. pc'[p] = "commit" /\ pc[p] = "cancelRow"
    BY <1>0, <1>3 DEF CancelRow, Goto
  <2>2. View(p, "row") = db["row"] /\ ~Holds(p, "row")
    BY <1>0, <2>1 DEF UnstarClean, View, Holds
  <2>3. CASE FoundRow(p) /\ Write(p, "row", [View(p, "row") EXCEPT !.status = "cancelled"])
    <3>. DEFINE gone == [View(p, "row") EXCEPT !.status = "cancelled"]
    <3>1. gone.status = "cancelled"
      BY ViewRow
    <3>. HIDE DEF gone
    <3>2. /\ DOMAIN priv'[p] = DOMAIN priv[p] \cup {"row"} /\ priv'[p]["row"] = gone
          /\ \A j \in DOMAIN priv[p] \ {"row"} : priv'[p][j] = priv[p][j]
      BY <1>0, <2>3, WriteEffect DEF gone
    <3>. QED  BY <1>0, <2>1, <3>1, <3>2 DEF UnstarClean, View, Holds
  <2>4. CASE ~FoundRow(p) /\ UNCHANGED priv
    BY <1>0, <2>1, <2>2, <2>4 DEF UnstarClean, View, Holds, FoundRow, AuthorInv, Authored
  <2>. QED  BY <1>3, <2>3, <2>4 DEF CancelRow
<1>. QED  BY <1>1, <1>2, <1>3

\* The statements of the two edits.
LEMMA CleanEdit ==
    ASSUME TypeOK, Shape, AuthorInv, Consistent, NEW p \in Requests, Clean(p), op[p] \in Edits,
           FindRow(p) \/ DeleteRow(p) \/ ListStarring(p) \/ ListStarred(p)
    PROVE  Clean(p)'
<1>0. /\ pc \in [Requests -> Labels] /\ DOMAIN priv = Requests
      /\ target \in [Requests -> Writers \cup {NoOne}]
      /\ seen \in [Requests -> Times \cup Dates] /\ EditClean(p) /\ UNCHANGED <<db, op>>
  BY DEF TypeOK, Shape, FindRow, DeleteRow, ListStarring, ListStarred, Clean
<1>. SUFFICES EditClean(p)'
  BY <1>0 DEF Clean, Edits
<1>1. CASE FindRow(p)
  <2>1. /\ pc'[p] = "deleteRow" /\ pc[p] = "findRow" /\ UNCHANGED <<priv, seen>>
        /\ View(p, "row").status = "pending" => target'[p] = View(p, "row").by
    BY <1>0, <1>1 DEF FindRow, Goto, Edits
  <2>2. View(p, "row") = db["row"]
    BY <1>0, <2>1 DEF EditClean, View, Holds
  <2>. QED  BY <1>0, <2>1, <2>2 DEF EditClean, Holds, View
<1>2. CASE DeleteRow(p)
  <2>1. /\ pc[p] = "deleteRow" /\ UNCHANGED seen
        /\ pc'[p] = IF op[p] = "update" THEN "listStarring" ELSE "insert"
    BY <1>0, <1>2 DEF DeleteRow, Goto
  <2>2. View(p, "row") = db["row"] /\ ~Holds(p, "row")
    BY <1>0, <2>1 DEF EditClean, View, Holds
  <2>3. op[p] # "update" =>
          db["star"] # NoOne /\ seen[p] = <<View(p, "conf"), View(p, "settings")>>
    BY <1>0, <2>1 DEF EditClean, Edits
  <2>4. CASE FoundRow(p) /\ Write(p, "row", NoRow)
    <3>1. /\ DOMAIN priv'[p] = DOMAIN priv[p] \cup {"row"} /\ priv'[p]["row"] = NoRow
          /\ \A j \in DOMAIN priv[p] \ {"row"} : priv'[p][j] = priv[p][j]
      BY <1>0, <2>4, WriteEffect
    <3>2. /\ View(p, "conf")' = View(p, "conf") /\ View(p, "settings")' = View(p, "settings")
          /\ View(p, "row")'.status # "pending"
      BY <1>0, <3>1 DEF View, NoRow, Row
    <3>3. DOMAIN priv'[p] \subseteq {IF op'[p] = "update" THEN "conf" ELSE "settings", "row"}
      BY <1>0, <3>1 DEF EditClean
    <3>. QED  BY <1>0, <2>1, <2>3, <3>2, <3>3 DEF EditClean
  <2>5. CASE ~FoundRow(p) /\ UNCHANGED priv
    <3>1. View(p, "row").status # "pending"
      BY <1>0, <2>1, <2>2, <2>5 DEF EditClean, FoundRow, AuthorInv, Authored
    <3>. QED  BY <1>0, <2>1, <2>3, <2>5, <3>1 DEF EditClean, View
  <2>. QED  BY <1>2, <2>4, <2>5 DEF DeleteRow
<1>3. CASE ListStarring(p)
  <2>1. /\ pc[p] = "listStarring" /\ op[p] = "update" /\ UNCHANGED priv
        /\ seen'[p] = <<View(p, "conf"), db["settings"]>>
        /\ pc'[p] = IF db["star"] # NoOne THEN "insert" ELSE "commit"
    BY <1>0, <1>3 DEF ListStarring, Goto, Shape, HandlersAt
  <2>2. View(p, "settings") = db["settings"]
    BY <1>0, <2>1 DEF EditClean, View
  <2>. QED  BY <1>0, <2>1, <2>2 DEF EditClean, View, Holds
<1>4. CASE ListStarred(p)
  <2>1. /\ pc[p] = "listStarred" /\ op[p] = "settings" /\ UNCHANGED priv
        /\ seen'[p] = <<db["conf"], View(p, "settings")>>
        /\ pc'[p] = IF db["star"] # NoOne THEN "findRow" ELSE "commit"
    BY <1>0, <1>4 DEF ListStarred, Goto, Shape, HandlersAt
  <2>2. View(p, "conf") = db["conf"] /\ View(p, "row") = db["row"] /\ ~Holds(p, "row")
    BY <1>0, <2>1 DEF EditClean, View, Holds
  <2>. QED  BY <1>0, <2>1, <2>2 DEF EditClean, View, Holds, Consistent
<1>. QED  BY <1>1, <1>2, <1>3, <1>4

\* An edit in flight has no other request beside it.
Alone == \A p, q \in InFlight : op[p] \in Edits => p = q

\* COMMIT publishes a consistent schedule.
LEMMA CommitConsistent ==
    ASSUME TypeOK, Shape, Consistent, NEW p \in Requests, Clean(p), Commit(p)
    PROVE  Consistent'
<1>0. /\ pc[p] = "commit" /\ op[p] \in {"star", "unstar", "update", "settings"}
      /\ db'["conf"] = View(p, "conf") /\ db'["settings"] = View(p, "settings")
      /\ db'["star"] = View(p, "star") /\ db'["row"] = View(p, "row")
  BY ItemTypes DEF Commit, Shape, HandlersAt
<1>1. CASE op[p] = "star"
  <2>1. StarClean(p)
    BY <1>1 DEF Clean
  <2>. QED  BY <1>0, <2>1 DEF StarClean, Consistent, View, Holds
<1>2. CASE op[p] = "unstar"
  <2>1. UnstarClean(p)
    BY <1>2 DEF Clean
  <2>. QED  BY <1>0, <2>1 DEF UnstarClean, Consistent, View, Holds
<1>3. CASE op[p] \in Edits
  <2>1. EditClean(p)
    BY <1>3 DEF Clean
  <2>2. db'["star"] = db["star"]
    BY <1>0, <2>1 DEF EditClean, View
  <2>. QED  BY <1>0, <2>1, <2>2 DEF EditClean, Consistent
<1>. QED  BY <1>0, <1>1, <1>2, <1>3 DEF Edits

\* COMMIT of a Star or Unstar does not disturb another one.
LEMMA CommitOthers ==
    ASSUME TypeOK, Shape, LockInv, Alone, Consistent, NEW p \in Requests, Clean(p), Commit(p),
           NEW q \in Requests \ {p}, Clean(q)
    PROVE  Clean(q)'
<1>0. /\ priv'[q] = priv[q] /\ pc'[q] = pc[q] /\ op'[q] = op[q]
      /\ seen'[q] = seen[q] /\ target'[q] = target[q]
  BY OthersKeep DEF Step
<1>1. CASE op[q] = "none"
  BY <1>0, <1>1 DEF Clean, Edits
<1>2. CASE op[q] # "none"
  <2>1. p \in InFlight /\ q \in InFlight
    BY <1>2, IdleRunsNothing DEF Commit, InFlight
  <2>2. op[p] \in {"star", "unstar"} /\ op[q] \in {"star", "unstar"}
    <3>1. op[p] \notin Edits /\ op[q] \notin Edits
      BY <2>1 DEF Alone
    <3>. QED  BY <1>2, <3>1 DEF Commit, Shape, HandlersAt, Edits, TypeOK
  <2>3. /\ DOMAIN priv[p] \subseteq {"star", "row"}
        /\ Holds(p, "row") => priv[p]["row"].status # "none"
        /\ op[p] = "star" /\ Holds(p, "row") => Holds(p, "star")
        /\ op[p] = "unstar" /\ Holds(p, "row") => priv[p]["row"].status = "cancelled"
    BY <2>2 DEF Clean, StarClean, UnstarClean
  <2>4. /\ db'["conf"] = db["conf"] /\ db'["settings"] = db["settings"]
        /\ ~Holds(p, "star") => db'["star"] = db["star"]
        /\ db'["row"] = IF Holds(p, "row") THEN priv[p]["row"] ELSE db["row"]
    BY <2>3, ItemTypes DEF Commit, View, Holds
  <2>5. db["row"].status # "none" => db'["row"].status # "none"
    BY <2>3, <2>4
  <2>6. Holds(q, "star") =>
          /\ db'["star"] = db["star"]
          /\ db'["row"] = db["row"] \/ db'["row"].status = "cancelled"
    BY <2>2, <2>3, <2>4, ItemTypes DEF LockInv
  <2>7. CASE op[q] = "star"
    <3>1. StarClean(q)
      BY <2>7 DEF Clean
    <3>2. StarClean(q)'
      BY <1>0, <2>4, <2>5, <3>1 DEF StarClean, View, Holds
    <3>. QED  BY <1>0, <2>7, <3>2 DEF Clean, Edits
  <2>8. CASE op[q] = "unstar"
    <3>1. UnstarClean(q)
      BY <2>8 DEF Clean
    <3>2. UnstarClean(q)'
      BY <1>0, <2>4, <2>6, <3>1 DEF UnstarClean, View, Holds
    <3>. QED  BY <1>0, <2>8, <3>2 DEF Clean, Edits
  <2>. QED  BY <2>2, <2>7, <2>8
<1>. QED  BY <1>1, <1>2

\* An arrival tells on itself: unless it is recorded as an overlap, an edit
\* stays alone.
LEMMA AloneRequest ==
    ASSUME TypeOK, Shape, Alone, ~mixed', NEW p \in Requests, Step(p) \/ Rollback(p)
    PROVE  Alone' /\ ~mixed
<1>0. /\ \A q \in Requests \ {p} : pc'[q] = pc[q] /\ op'[q] = op[q]
      /\ pc \in [Requests -> Labels] /\ op \in [Requests -> Ops]
  BY OthersKeep DEF Shape, TypeOK, Ops
<1>1. ASSUME NEW o, NEW label, Begin(p, o, label) PROVE Alone' /\ ~mixed
  BY <1>0, <1>1 DEF Begin, Goto, Alone, InFlight
<1>2. ASSUME pc[p] # "new", UNCHANGED <<op, mixed>>, pc[p] # "done" PROVE Alone' /\ ~mixed
  BY <1>0, <1>2 DEF Alone, InFlight
<1>3. CASE Commit(p) \/ Rollback(p)
  BY <1>0, <1>3 DEF Commit, Rollback, End, Goto, Alone, InFlight
<1>. QED
  BY <1>1, <1>2, <1>3
     DEF Step, GetConference, GetUserSettings, CreateStar, FindStar, DeleteStar, FindRow,
         CancelRow, UpdateConference, UpdateUserSettings, DeleteRow, ListStarring,
         ListStarred, InsertReminderRow

\* Every step of a request keeps the schedule consistent, or is recorded as
\* an overlap.
LEMMA CleanRequest ==
    ASSUME TypeOK, Shape, LockInv, AuthorInv, CleanInv, NEW p \in Requests,
           Step(p) \/ Rollback(p)
    PROVE  CleanInv'
<1>. SUFFICES ASSUME ~mixed' PROVE (Alone /\ Consistent /\ \A q \in Requests : Clean(q))'
  BY DEF CleanInv, Alone
<1>0. mixed' = mixed \/ \E o, label : Begin(p, o, label)
  BY DEF Step, GetConference, GetUserSettings, CreateStar, FindStar, DeleteStar, FindRow,
         CancelRow, UpdateConference, UpdateUserSettings, DeleteRow, ListStarring,
         ListStarred, InsertReminderRow, Commit, Rollback, End
<1>1. ~mixed
  BY <1>0 DEF Begin
<1>2. Alone /\ Consistent /\ \A q \in Requests : Clean(q)
  BY <1>1 DEF CleanInv, Alone
<1>3. Alone'
  BY <1>2, AloneRequest
<1>4. CASE Commit(p)
  <2>1. Clean(p)'
    BY <1>4, EndEffect DEF Commit, Clean, Edits
  <2>. QED  BY <1>2, <1>3, <1>4, <2>1, CommitConsistent, CommitOthers
<1>5. ASSUME UNCHANGED db, Clean(p)'
      PROVE  (Consistent /\ \A q \in Requests : Clean(q))'
  <2>1. ASSUME NEW q \in Requests \ {p} PROVE Clean(q)'
    <3>1. /\ priv'[q] = priv[q] /\ pc'[q] = pc[q] /\ op'[q] = op[q]
          /\ seen'[q] = seen[q] /\ target'[q] = target[q]
      BY OthersKeep
    <3>. QED  BY <1>2, <1>5, <3>1 DEF Clean, StarClean, UnstarClean, EditClean, Holds, View
  <2>. QED  BY <1>2, <1>5, <2>1 DEF Consistent
<1>6. CASE \/ GetConference(p) \/ FindStar(p)
           \/ \E d \in Dates : UpdateConference(p, d)
           \/ \E z \in Zones : UpdateUserSettings(p, z)
  <2>1. UNCHANGED db
    BY <1>6 DEF GetConference, FindStar, UpdateConference, UpdateUserSettings
  <2>. QED  BY <1>3, <1>5, <1>6, <2>1, CleanArrival
<1>7. CASE GetUserSettings(p) \/ CreateStar(p)
  <2>1. UNCHANGED db
    BY <1>7 DEF GetUserSettings, CreateStar
  <2>. QED  BY <1>2, <1>3, <1>5, <1>7, <2>1, CleanStar
<1>8. CASE InsertReminderRow(p)
  <2>1. UNCHANGED db
    BY <1>8 DEF InsertReminderRow
  <2>. QED  BY <1>2, <1>3, <1>5, <1>8, <2>1, CleanInsert
<1>9. CASE \/ DeleteStar(p) \/ FindRow(p) \/ CancelRow(p)
           \/ DeleteRow(p) \/ ListStarring(p) \/ ListStarred(p)
  <2>1. UNCHANGED db
    BY <1>9 DEF DeleteStar, FindRow, CancelRow, DeleteRow, ListStarring, ListStarred
  <2>2. \/ op[p] = "unstar" /\ (DeleteStar(p) \/ FindRow(p) \/ CancelRow(p))
        \/ op[p] \in Edits /\ (FindRow(p) \/ DeleteRow(p) \/ ListStarring(p) \/ ListStarred(p))
    BY <1>9 DEF Shape, HandlersAt, Edits, DeleteStar, FindRow, CancelRow, DeleteRow,
                ListStarring, ListStarred
  <2>3. Clean(p)'
    BY <1>2, <2>2, CleanUnstar, CleanEdit
  <2>. QED  BY <1>3, <1>5, <2>1, <2>3
<1>10. CASE Rollback(p)
  <2>1. UNCHANGED db /\ Clean(p)'
    BY <1>10, EndEffect DEF Rollback, Clean, Edits
  <2>. QED  BY <1>3, <1>5, <2>1
<1>. QED  BY <1>4, <1>6, <1>7, <1>8, <1>9, <1>10 DEF Step

\* Any state that requests one after the other leave behind is clean.
LEMMA CleanInit == Init => CleanInv
<1>. SUFFICES ASSUME Init PROVE CleanInv
  OBVIOUS
<1>1. InFlight = {}
  BY DEF Init, InFlight
<1>2. \A p \in Requests : op[p] = "none"
  BY DEF Init
<1>3. Consistent
  BY ItemTypes DEF Init, Consistent, Row, NoRow, NoOne
<1>. QED  BY <1>1, <1>2, <1>3 DEF CleanInv, Clean, Edits

\* The whole inductive invariant of the races.
LEMMA RaceAlways == Spec => []RaceInv
<1>1. RaceInv /\ [Next]_vars => CleanInv'
  <2>. SUFFICES ASSUME RaceInv, [Next]_vars PROVE CleanInv'
    OBVIOUS
  <2>1. CASE UNCHANGED vars
    BY <2>1 DEF RaceInv, vars, CleanInv, Consistent, InFlight, Clean, StarClean, UnstarClean,
                EditClean, Holds, View
  <2>. QED  BY <2>1, CleanRequest DEF Next, AllDone, RaceInv
<1>. QED  BY LockAlways, CleanInit, <1>1, PTL DEF Spec, RaceInv

\* In every behaviour, with any number of requests, the schedule is consistent
\* whenever no request is running, unless an edit of the conference or of the
\* settings has overlapped another request.
THEOREM CleanUnlessEditsOverlapAlways == Spec => []CleanUnlessEditsOverlap
<1>1. RaceInv => CleanUnlessEditsOverlap
  BY DEF RaceInv, CleanInv, CleanUnlessEditsOverlap
<1>. QED  BY RaceAlways, <1>1, PTL
=============================================================================
