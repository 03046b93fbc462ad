---------------------------- MODULE CatalogProofs ---------------------------
(***************************************************************************)
(* Proofs about Catalog, for every number of requests and faults, every    *)
(* set of inputs and imports of any length.                                *)
(***************************************************************************)
EXTENDS Catalog, FiniteSetTheorems, TLAPS

-----------------------------------------------------------------------------
(* The invariants.                                                         *)

\* Which handlers have the statement.
HandlersAt(label) ==
    CASE label = "new"                 -> {"none"}
      [] label \in {"entry", "lookup"} -> {"import"}
      [] label = "insertRow"           -> {"create", "import"}
      [] label = "lockRow"             -> {"update", "delete", "archive", "unarchive", "import"}
      [] label = "updateRow"           -> {"update", "import"}
      [] label = "setTags"             -> {"create", "update", "import"}
      [] label = "attach"              -> {"archive", "unarchive"}
      [] label = "audit"               -> {"create", "update", "delete", "archive", "unarchive"}
      [] OTHER                         -> Ops \ {"none"}

\* The statements between the first write and the end of a transaction.
Writing == {"updateRow", "setTags", "commit"}

\* What a request has in hand at its statement.
Own(p) ==
    /\ op[p] \in HandlersAt(pc[p])
    /\ entries[p] \in Seq(Inputs)
    /\ cur[p] \in Nat \ {0}
    /\ op[p] # "import" \/ pc[p] = "done" => cur[p] = 1
    /\ op[p] = "import" /\ pc[p] # "done" =>
            entries[p] \in Imports /\ cur[p] <= Len(entries[p]) + 1
    /\ \/ pc[p] \in {"lookup", "insertRow", "updateRow", "setTags"}
       \/ pc[p] = "lockRow" /\ op[p] \in {"update", "import"}
       \/ pc[p] = "commit" /\ op[p] = "import"
       => cur[p] \in DOMAIN entries[p]
    /\ pc[p] \in {"insertRow", "lockRow", "attach", "audit"} \cup Writing => target[p] \in Ids
    /\ pc[p] = "insertRow" => target[p] = <<p, cur[p]>>
    /\ DOMAIN priv[p] = IF pc[p] \in Writing THEN {target[p]} ELSE {}
    /\ pc[p] \in {"updateRow", "setTags"} => priv[p][target[p]] \in Row
    /\ slugs[p] \in Seq(Tags)
    /\ pc[p] # "setTags" => slugs[p] = <<>>
    /\ pc[p] # "done" => report[p].error = "none"

ChangeSet == [by : Requests, entry : Nat \ {0}, action : Ops, id : Ids]

Domains ==
    /\ DOMAIN confs = Ids
    /\ DOMAIN priv = Requests /\ DOMAIN tagLocks = Requests /\ DOMAIN op = Requests
    /\ DOMAIN pc = Requests /\ DOMAIN entries = Requests /\ DOMAIN cur = Requests
    /\ DOMAIN target = Requests /\ DOMAIN slugs = Requests /\ DOMAIN answer = Requests
    /\ DOMAIN report = Requests /\ DOMAIN overtaken = Requests

Shape ==
    /\ Domains
    /\ changes \subseteq ChangeSet /\ IsFiniteSet(changes)
    /\ \A p \in Requests : Own(p)

Listed(s) == {s[i] : i \in DOMAIN s}

\* While the tags of a row are replaced, those it has and those to come are
\* the ones of its columns; when it is committed it has them all.
TagInv ==
    /\ TagsFollowRow
    /\ \A p \in Requests :
        LET row == priv[p][target[p]] IN
        /\ pc[p] = "setTags" => row.from = row.tags \cup Listed(slugs[p])
        /\ pc[p] = "commit" => row = Absent \/ row.tags = row.from

\* A conference that is there, or that a request has in hand, is known, or it
\* is the one that the request inserts, which nobody knows before the commit.
FreshInv ==
    /\ \A id \in Ids : confs[id] # Absent => id \in Known
    /\ \A p \in Requests : target[p] \in Known \cup {NoId, <<p, cur[p]>>}
    /\ \A p \in Requests, i \in Entries :
        pc[p] \notin {"attach", "audit", "done"} /\ i >= cur[p] => <<p, i>> \notin Known

\* No two conferences have the same acronym and year.
UniqueKeys ==
    \A id, id2 \in Ids : id # id2 => KeyOf(confs[id]) \cap KeyOf(confs[id2]) = {}

\* A row has one writer at a time.  The key an open transaction has written is
\* neither in the table, in another row, nor written by another transaction.
KeyInv ==
    /\ UniqueKeys
    /\ \A p \in Requests : \A id \in DOMAIN priv[p], id2 \in Ids :
        id # id2 => KeyOf(priv[p][id]) \cap KeyOf(confs[id2]) = {}
    /\ \A p, q \in Requests : \A id \in DOMAIN priv[p], id2 \in DOMAIN priv[q] :
        p # q => id # id2 /\ KeyOf(priv[p][id]) \cap KeyOf(priv[q][id2]) = {}

\* What the lookup of an import found is still so if nobody committed since.
LookupInv ==
    /\ StaleLookupNeedsRival
    /\ \A p \in Requests : op[p] = "import" /\ ~overtaken[p] /\ faults = 0 =>
        /\ pc[p] = "insertRow" => \A id \in Ids : In(p).key \notin KeyOf(confs[id])
        /\ pc[p] \in {"lockRow", "updateRow"} => In(p).key \in KeyOf(confs[target[p]])

\* A request other than an import changes one conference, once.
AuditInv ==
    /\ LostAuditNeedsFault
    /\ \A p \in Requests : op[p] # "import" =>
        /\ pc[p] \in {"attach", "audit"} => ChangesOf(p) \subseteq {Change(p)}
        /\ pc[p] \notin {"attach", "audit", "done"} => ChangesOf(p) = {}

Made(p, a) == {c \in ChangesOf(p) : c.action = a}

\* A running import has committed the entries before the current one, and has
\* counted them; other requests count nothing.
CountInv ==
    /\ ImportReportIsTrue
    /\ \A p \in Requests : op[p] # "import" => report[p].created = 0 /\ report[p].updated = 0
    /\ \A p \in Requests : op[p] = "import" /\ pc[p] # "done" =>
        /\ {c.entry : c \in ChangesOf(p)} = 1..(cur[p] - 1)
        /\ Cardinality(ChangesOf(p)) = cur[p] - 1
        /\ Cardinality(Made(p, "create")) = report[p].created
        /\ Cardinality(Made(p, "update")) = report[p].updated

-----------------------------------------------------------------------------
(* Rows, inputs and identifiers.                                           *)

\* A row is not the absence of one.
LEMMA RowFacts ==
    ASSUME NEW r \in Row
    PROVE  /\ r # Absent /\ KeyOf(r) = {r.key}
           /\ r.key \in Keys /\ r.from \subseteq Tags /\ r.tags \subseteq Tags
           /\ r.archived \in BOOLEAN
<1>1. r # Absent
  <2>1. DOMAIN r = {"key", "from", "tags", "archived"} /\ DOMAIN Absent = {}
    BY DEF Row, Absent
  <2>. QED  BY <2>1
<1>. QED  BY <1>1 DEF KeyOf, Row

\* The transaction that has written nothing.
LEMMA NothingIsEmpty == DOMAIN Nothing = {}
BY DEF Nothing

\* The current entry is an input.
LEMMA InputFacts ==
    ASSUME NEW in \in Inputs
    PROVE  /\ in.key \in Keys /\ Slugs(in) \subseteq Tags /\ in.tags \in Seq(Tags)
           /\ Slugs(in) = {in.tags[i] : i \in DOMAIN in.tags} /\ <<in>> \in Seq(Inputs)
<1>1. in.key \in Keys /\ Slugs(in) \subseteq Tags
  BY DEF Keys, Slugs, Tags
<1>2. in.tags \in Seq(Slugs(in))
  BY InputDomain DEF Slugs
<1>3. in.tags \in Seq(Tags)
  <2>1. Len(in.tags) \in Nat /\ in.tags \in [1..Len(in.tags) -> Slugs(in)]
    BY <1>2
  <2>2. in.tags \in [1..Len(in.tags) -> Tags]
    BY <1>1, <2>1
  <2>. QED  BY <2>1, <2>2
<1>. QED  BY <1>1, <1>3 DEF Slugs

\* The numbers of entries, and the conferences they make.
LEMMA EntryFacts ==
    /\ 1 \in Entries /\ Entries \subseteq Nat \ {0}
    /\ \A doc \in Imports, i \in Nat \ {0} :
        /\ i <= Len(doc) => i \in Entries
        /\ i <= Len(doc) + 1 => i \in Entries \cup {j + 1 : j \in Entries}
    /\ NoId \notin Ids /\ Setup \in Ids
    /\ \A p \in Requests, i \in Entries : <<p, i>> \in Ids /\ <<p, i>> # Setup
<1>1. 1 \in Entries
  BY DEF Entries
<1>2. \A doc \in Imports : doc \in Seq(Inputs) /\ DOMAIN doc = 1..Len(doc) /\ Len(doc) \in Nat
  BY InputDomain
<1>3. Entries \subseteq Nat \ {0}
  BY <1>2 DEF Entries
<1>4. \A doc \in Imports, i \in Nat \ {0} : i <= Len(doc) => i \in Entries
  BY <1>2 DEF Entries
<1>5. \A doc \in Imports, i \in Nat \ {0} :
        i <= Len(doc) + 1 => i \in Entries \cup {j + 1 : j \in Entries}
  <2>. SUFFICES ASSUME NEW doc \in Imports, NEW i \in Nat \ {0}, i = Len(doc) + 1, i # 1
                PROVE  i \in {j + 1 : j \in Entries}
    BY <1>1, <1>2, <1>4
  <2>1. i - 1 \in Nat \ {0} /\ i - 1 <= Len(doc) /\ i = (i - 1) + 1
    BY <1>2
  <2>. QED  BY <1>4, <2>1
<1>6. NoId \notin Ids
  BY <1>3 DEF Ids, NoId, Setup
<1>7. \A p \in Requests, i \in Entries : <<p, i>> \in Ids /\ <<p, i>> # Setup
  BY RequestNames DEF Ids, Setup
<1>. QED  BY <1>1, <1>3, <1>4, <1>5, <1>6, <1>7 DEF Ids

-----------------------------------------------------------------------------
(* The kinds of steps.                                                     *)

ownVars == <<entries, cur, answer, report>>

\* The loop of an import takes its next entry, or ends.
TakesEntry(p) ==
    /\ pc[p] = "entry" /\ cur[p] \in DOMAIN entries[p]
    /\ Goto(p, "lookup")
    /\ UNCHANGED <<confs, txVars, audit, op, ownVars, changes, overtaken, faults>>

ImportEnds(p) ==
    /\ pc[p] = "entry"
    /\ Finish(p, "2xx")
    /\ UNCHANGED <<confs, audit, op, report, changes, overtaken, faults>>

\* An UPDATE or DELETE has the row to itself.
GetsRow(p) ==
    /\ pc[p] = "lockRow" /\ Holders(p, target[p]) = {} /\ confs[target[p]] # Absent
    /\ UNCHANGED <<confs, tagLocks, audit, op, ownVars, target, slugs, changes, overtaken,
                   faults>>

Deletes(p) ==
    GetsRow(p) /\ op[p] = "delete" /\ Write(p, target[p], Absent) /\ Goto(p, "commit")

Archives(p) ==
    /\ GetsRow(p) /\ op[p] \in {"archive", "unarchive"}
    /\ Write(p, target[p], [confs[target[p]] EXCEPT !.archived = (op[p] = "archive")])
    /\ Goto(p, "commit")

LocksForUpdate(p) ==
    /\ GetsRow(p) /\ op[p] \in {"update", "import"}
    /\ Write(p, target[p], confs[target[p]])
    /\ Goto(p, "updateRow")

TagsSet(p) ==
    /\ pc[p] = "setTags" /\ slugs[p] = <<>>
    /\ Goto(p, "commit")
    /\ UNCHANGED <<confs, txVars, tagLocks, audit, op, ownVars, changes, overtaken, faults>>

\* A request fails: a fault is counted for it or it has not committed, and it
\* answers 404 or 409 for a row that is gone or a key that is taken.
Errs(p) ==
    \E code \in Codes \ {"none"} :
        /\ pc[p] \notin {"new", "done"}
        /\ Fail(p, code)
        /\ \/ faults' = faults /\ pc[p] \notin {"attach", "audit"}
           \/ faults' = faults + 1 /\ faults < MaxFaults
        /\ code = "404" => pc[p] = "lockRow" /\ confs[target[p]] = Absent
        /\ code = "409" => pc[p] \in {"insertRow", "updateRow"} /\ Taken(p, In(p).key)

\* Only a request that waits is in a circle.
LEMMA VictimWaits ==
    ASSUME NEW p \in Deadlocked
    PROVE  WaitsFor(p) # {} /\ pc[p] \in {"lockRow", "insertRow", "updateRow", "setTags"}
<1>1. WaitsFor(p) # {}
  <2>1. {} \in SUBSET Requests /\ p \notin {} /\ \A q \in {} : WaitsFor(q) \subseteq {}
    OBVIOUS
  <2>2. ~(WaitsFor(p) \subseteq {})
    BY <2>1, Zenon DEF Deadlocked
  <2>. QED  BY <2>2
<1>. QED  BY <1>1 DEF WaitsFor

\* Every step of a request after its arrival is of one of these kinds.
LEMMA StepCases ==
    ASSUME NEW p \in Requests, Own(p), Step(p) \/ Fault(p) \/ DeadlockVictim(p)
    PROVE  \/ TakesEntry(p) \/ ImportEnds(p) \/ Lookup(p) \/ LookupFails(p)
           \/ Deletes(p) \/ Archives(p) \/ LocksForUpdate(p)
           \/ WriteRow(p) \/ UpsertTag(p) \/ TagsSet(p)
           \/ Commit(p) \/ CommitUnheard(p) \/ Attach(p) \/ InsertAuditEntry(p)
           \/ Errs(p)
<1>0. {"400", "404", "409", "500", "2xx"} \subseteq Codes \ {"none"}
  BY DEF Codes
<1>1. CASE NextEntry(p)
  <2>1. CASE cur[p] \in DOMAIN entries[p] /\ In(p).flaw = "blank"
    <3>1. Fail(p, "400") /\ UNCHANGED faults /\ pc[p] = "entry"
      BY <1>1, <2>1 DEF NextEntry
    <3>. QED  BY <1>0, <3>1 DEF Errs
  <2>2. CASE cur[p] \in DOMAIN entries[p] /\ In(p).flaw # "blank"
    BY <1>1, <2>2 DEF NextEntry, TakesEntry, ownVars
  <2>3. CASE cur[p] \notin DOMAIN entries[p]
    BY <1>1, <2>3 DEF NextEntry, ImportEnds
  <2>. QED  BY <2>1, <2>2, <2>3
<1>2. CASE LockRow(p)
  <2>1. pc[p] = "lockRow" /\ WaitsFor(p) = {} /\ Holders(p, target[p]) = {}
    BY <1>2 DEF LockRow, WaitsFor
  <2>2. CASE confs[target[p]] = Absent
    <3>1. Fail(p, "404") /\ UNCHANGED faults
      BY <1>2, <2>2 DEF LockRow
    <3>. QED  BY <1>0, <2>1, <2>2, <3>1 DEF Errs
  <2>3. CASE confs[target[p]] # Absent
    <3>1. GetsRow(p)
      BY <1>2, <2>1, <2>3 DEF LockRow, GetsRow, ownVars
    <3>2. op[p] \in {"update", "delete", "archive", "unarchive", "import"}
      BY <2>1 DEF Own, HandlersAt
    <3>3. CASE op[p] = "delete"
      BY <1>2, <2>3, <3>1, <3>3 DEF LockRow, Deletes
    <3>4. CASE op[p] \in {"archive", "unarchive"}
      BY <1>2, <2>3, <3>1, <3>4 DEF LockRow, Archives
    <3>5. CASE op[p] \in {"update", "import"}
      BY <1>2, <2>3, <3>1, <3>5 DEF LockRow, LocksForUpdate
    <3>. QED  BY <3>2, <3>3, <3>4, <3>5
  <2>. QED  BY <2>2, <2>3
<1>3. CASE RowRefused(p)
  <2>1. CASE In(p).flaw = "unordered"
    <3>1. Fail(p, "500") /\ UNCHANGED faults /\ pc[p] \in {"insertRow", "updateRow"}
      BY <1>3, <2>1 DEF RowRefused
    <3>. QED  BY <1>0, <3>1 DEF Errs
  <2>2. CASE In(p).flaw # "unordered"
    <3>1. /\ Fail(p, "409") /\ UNCHANGED faults /\ pc[p] \in {"insertRow", "updateRow"}
          /\ Taken(p, In(p).key)
      BY <1>3, <2>2 DEF RowRefused
    <3>. QED  BY <1>0, <3>1 DEF Errs
  <2>. QED  BY <2>1, <2>2
<1>4. CASE SetTracks(p)
  <2>1. CASE In(p).flaw = "track"
    <3>1. Fail(p, "500") /\ UNCHANGED faults /\ pc[p] = "setTags"
      BY <1>4, <2>1 DEF SetTracks
    <3>. QED  BY <1>0, <3>1 DEF Errs
  <2>2. CASE In(p).flaw # "track"
    BY <1>4, <2>2 DEF SetTracks, TagsSet, ownVars, txVars
  <2>. QED  BY <2>1, <2>2
<1>5. CASE Break(p)
  <2>1. pc[p] \notin {"new", "done"} /\ faults' = faults + 1 /\ faults < MaxFaults
    BY <1>5 DEF Break, InFlight
  <2>2. Fail(p, "2xx") \/ Fail(p, "500")
    BY <1>5 DEF Break
  <2>. QED  BY <1>0, <2>1, <2>2 DEF Errs
<1>6. CASE DeadlockVictim(p)
  <2>1. Fail(p, "500") /\ UNCHANGED faults /\ pc[p] \notin {"new", "done", "attach", "audit"}
    BY <1>6, VictimWaits DEF DeadlockVictim
  <2>. QED  BY <1>0, <2>1 DEF Errs
<1>. QED  BY <1>1, <1>2, <1>3, <1>4, <1>5, <1>6 DEF Step, Fault

-----------------------------------------------------------------------------
(* What a step leaves alone.                                               *)

AnyStep(p) == Arrive(p) \/ Step(p) \/ Fault(p) \/ DeadlockVictim(p)

\* An arrival, whatever the request is.
LEMMA ArrivalEffect ==
    ASSUME Domains, NEW p \in Requests, Arrive(p)
    PROVE  /\ pc[p] = "new" /\ Domains'
           /\ UNCHANGED <<confs, priv, tagLocks, audit, cur, slugs, report, changes, overtaken,
                          faults>>
           /\ \A q \in Requests \ {p} :
                /\ pc'[q] = pc[q] /\ op'[q] = op[q] /\ entries'[q] = entries[q]
                /\ target'[q] = target[q] /\ answer'[q] = answer[q]
<1>. USE DEF Domains
<1>1. CASE \E in \in Inputs : CreateConference(p, in)
  BY <1>1 DEF CreateConference, Begin
<1>2. CASE \E id \in Known, in \in Inputs : UpdateConference(p, id, in)
  BY <1>2 DEF UpdateConference, Begin
<1>3. CASE \E o \in {"delete", "archive", "unarchive"}, id \in Known : ById(p, o, id)
  BY <1>3 DEF ById, Begin
<1>4. CASE \E doc \in Imports : ImportConferences(p, doc)
  BY <1>4 DEF ImportConferences, Begin
<1>5. CASE ImportUnparsable(p)
  BY <1>5 DEF ImportUnparsable, Begin
<1>. QED  BY <1>1, <1>2, <1>3, <1>4, <1>5 DEF Arrive

\* A write changes one row of the transaction of its request.
LEMMA WriteEffect ==
    ASSUME DOMAIN priv = Requests, NEW p \in Requests, NEW id, NEW row, Write(p, id, row),
           DOMAIN priv[p] \subseteq {id}
    PROVE  /\ DOMAIN priv' = Requests
           /\ DOMAIN priv'[p] = {id} /\ priv'[p][id] = row
           /\ \A q \in Requests \ {p} : priv'[q] = priv[q]
BY DEF Write

\* The end of a request.
LEMMA FinishEffect ==
    ASSUME Domains, NEW p \in Requests, NEW code, Finish(p, code)
    PROVE  /\ DOMAIN priv' = Requests /\ DOMAIN tagLocks' = Requests /\ DOMAIN pc' = Requests
           /\ DOMAIN entries' = Requests /\ DOMAIN cur' = Requests
           /\ DOMAIN target' = Requests /\ DOMAIN slugs' = Requests /\ DOMAIN answer' = Requests
           /\ DOMAIN priv'[p] = {} /\ tagLocks'[p] = {} /\ pc'[p] = "done"
           /\ entries'[p] = <<>> /\ cur'[p] = 1 /\ target'[p] = NoId /\ slugs'[p] = <<>>
           /\ answer'[p] = code
           /\ \A q \in Requests \ {p} :
                /\ priv'[q] = priv[q] /\ tagLocks'[q] = tagLocks[q] /\ pc'[q] = pc[q]
                /\ entries'[q] = entries[q] /\ cur'[q] = cur[q] /\ target'[q] = target[q]
                /\ slugs'[q] = slugs[q] /\ answer'[q] = answer[q]
BY NothingIsEmpty DEF Finish, Release, Goto, Domains

\* An error ends the request; an import reports it.
ErrsWith(p, code, shown) ==
    /\ pc[p] \notin {"new", "done"}
    /\ Finish(p, shown)
    /\ DOMAIN report' = Requests
    /\ \A q \in Requests \ {p} : report'[q] = report[q]
    /\ report'[p] = IF op[p] = "import" THEN [report[p] EXCEPT !.error = code] ELSE report[p]
    /\ UNCHANGED <<confs, audit, op, changes, overtaken>>
    /\ \/ faults' = faults /\ pc[p] \notin {"attach", "audit"}
       \/ faults' = faults + 1 /\ faults < MaxFaults
    /\ code = "404" => pc[p] = "lockRow" /\ confs[target[p]] = Absent
    /\ code = "409" => pc[p] \in {"insertRow", "updateRow"} /\ Taken(p, In(p).key)

\* Every error has a code, and the client sees one.
LEMMA ErrsEffect ==
    ASSUME Domains, NEW p \in Requests, Errs(p)
    PROVE  \E code \in Codes \ {"none"}, shown \in Codes \ {"none"} : ErrsWith(p, code, shown)
<1>1. PICK code \in Codes \ {"none"} :
        /\ pc[p] \notin {"new", "done"}
        /\ Fail(p, code)
        /\ \/ faults' = faults /\ pc[p] \notin {"attach", "audit"}
           \/ faults' = faults + 1 /\ faults < MaxFaults
        /\ code = "404" => pc[p] = "lockRow" /\ confs[target[p]] = Absent
        /\ code = "409" => pc[p] \in {"insertRow", "updateRow"} /\ Taken(p, In(p).key)
  BY DEF Errs
<1>2. PICK shown \in Codes \ {"none"} : Finish(p, shown)
  BY <1>1 DEF Fail, Codes
<1>3. /\ DOMAIN report' = Requests
      /\ \A q \in Requests \ {p} : report'[q] = report[q]
      /\ report'[p] = IF op[p] = "import" THEN [report[p] EXCEPT !.error = code] ELSE report[p]
      /\ UNCHANGED <<confs, audit, op, changes, overtaken>>
  BY <1>1 DEF Fail, Domains
<1>. QED  BY <1>1, <1>2, <1>3 DEF ErrsWith

\* A commit: the row is in the table, the change is recorded, and the running
\* imports of others are overtaken.
Publishes(p) ==
    /\ pc[p] = "commit"
    /\ DOMAIN confs' = Ids
    /\ confs'[target[p]] = priv[p][target[p]]
    /\ \A id \in Ids \ {target[p]} : confs'[id] = confs[id]
    /\ changes' = changes \cup {Change(p)}
    /\ overtaken'[p] = overtaken[p]
    /\ \A q \in Requests \ {p} : pc[q] \notin {"new", "done"} /\ op[q] = "import" => overtaken'[q]
    /\ \A q \in Requests \ {p} :
        pc[q] \in {"new", "done"} \/ op[q] # "import" => overtaken'[q] = overtaken[q]

\* COMMIT does this, and nothing to other rows.
LEMMA PublishEffect ==
    ASSUME TypeOK, Shape, NEW p \in Requests, pc[p] = "commit", Publish(p)
    PROVE  Publishes(p) /\ DOMAIN overtaken' = Requests
           /\ \A q \in Requests : overtaken'[q] \in BOOLEAN
<1>1. Own(p) /\ DOMAIN priv[p] = {target[p]} /\ target[p] \in Ids
  BY DEF Shape, Own, Writing
<1>2. /\ DOMAIN confs' = Ids
      /\ confs'[target[p]] = priv[p][target[p]]
      /\ \A id \in Ids \ {target[p]} : confs'[id] = confs[id]
  BY <1>1 DEF Publish, View
<1>3. /\ DOMAIN overtaken' = Requests
      /\ \A q \in Requests : overtaken'[q] \in BOOLEAN
      /\ overtaken'[p] = overtaken[p]
      /\ \A q \in Requests \ {p} : pc[q] \notin {"new", "done"} /\ op[q] = "import" => overtaken'[q]
      /\ \A q \in Requests \ {p} :
            pc[q] \in {"new", "done"} \/ op[q] # "import" => overtaken'[q] = overtaken[q]
  BY DEF Publish, InFlight, TypeOK
<1>. QED  BY <1>2, <1>3 DEF Publish, Publishes

\* A step of one request touches nothing of another, except that a commit
\* overtakes its import.
LEMMA OthersKeep ==
    ASSUME TypeOK, Shape, NEW p \in Requests, AnyStep(p)
    PROVE  /\ Domains'
           /\ \A q \in Requests \ {p} :
                /\ priv'[q] = priv[q] /\ tagLocks'[q] = tagLocks[q] /\ pc'[q] = pc[q]
                /\ op'[q] = op[q] /\ entries'[q] = entries[q] /\ cur'[q] = cur[q]
                /\ target'[q] = target[q] /\ slugs'[q] = slugs[q] /\ answer'[q] = answer[q]
                /\ report'[q] = report[q]
           /\ faults' \in {faults, faults + 1} /\ faults' \in 0..MaxFaults
           /\ \/ Publishes(p) /\ (Commit(p) \/ CommitUnheard(p))
              \/ /\ UNCHANGED <<confs, changes>> /\ (pc[p] # "lookup" => UNCHANGED overtaken)
                 /\ \A q \in Requests \ {p} : overtaken'[q] = overtaken[q]
           /\ \A q \in Requests : overtaken'[q] \in BOOLEAN
           /\ pc[p] # "audit" => UNCHANGED audit
<1>0. /\ Domains /\ Own(p) /\ faults \in 0..MaxFaults /\ MaxFaults \in Nat
      /\ \A q \in Requests : overtaken[q] \in BOOLEAN
  BY InputDomain DEF Shape, TypeOK
<1>1. CASE Arrive(p)
  BY <1>0, <1>1, ArrivalEffect
<1>2. CASE TakesEntry(p)
  BY <1>0, <1>2 DEF TakesEntry, Goto, txVars, ownVars, Domains
<1>3. CASE ImportEnds(p)
  BY <1>0, <1>3, FinishEffect DEF ImportEnds, Domains
<1>4. CASE Lookup(p)
  BY <1>0, <1>4 DEF Lookup, Goto, Domains
<1>5. CASE LookupFails(p)
  <2>1. faults' = faults + 1 /\ faults' \in 0..MaxFaults
    BY <1>0, <1>5 DEF LookupFails
  <2>2. /\ pc[p] = "lookup" /\ DOMAIN pc' = Requests /\ DOMAIN target' = Requests
        /\ DOMAIN overtaken' = Requests /\ overtaken'[p] = FALSE
        /\ \A q \in Requests \ {p} :
            pc'[q] = pc[q] /\ target'[q] = target[q] /\ overtaken'[q] = overtaken[q]
    BY <1>0, <1>5 DEF LookupFails, Goto, Domains
  <2>. QED  BY <1>0, <1>5, <2>1, <2>2 DEF LookupFails, Domains
<1>6. CASE Deletes(p) \/ Archives(p) \/ LocksForUpdate(p)
  <2>1. pc[p] = "lockRow" /\ DOMAIN priv[p] \subseteq {target[p]}
    BY <1>0, <1>6 DEF Deletes, Archives, LocksForUpdate, GetsRow, Own, Writing
  <2>2. DOMAIN priv' = Requests /\ \A q \in Requests \ {p} : priv'[q] = priv[q]
    BY <1>0, <1>6, <2>1, WriteEffect DEF Deletes, Archives, LocksForUpdate, Domains
  <2>. QED  BY <1>0, <1>6, <2>1, <2>2
            DEF Deletes, Archives, LocksForUpdate, GetsRow, Goto, ownVars, Domains
<1>7. CASE WriteRow(p)
  <2>1. DOMAIN priv[p] \subseteq {target[p]}
    BY <1>0, <1>7 DEF WriteRow, Own, Writing
  <2>2. DOMAIN priv' = Requests /\ \A q \in Requests \ {p} : priv'[q] = priv[q]
    BY <1>0, <1>7, <2>1, WriteEffect DEF WriteRow, Domains
  <2>. QED  BY <1>0, <1>7, <2>2 DEF WriteRow, Goto, Domains
<1>8. CASE UpsertTag(p)
  <2>1. DOMAIN priv[p] \subseteq {target[p]}
    BY <1>0, <1>8 DEF UpsertTag, Own, Writing
  <2>2. DOMAIN priv' = Requests /\ \A q \in Requests \ {p} : priv'[q] = priv[q]
    BY <1>0, <1>8, <2>1, WriteEffect DEF UpsertTag, Domains
  <2>. QED  BY <1>0, <1>8, <2>2 DEF UpsertTag, Domains
<1>9. CASE TagsSet(p)
  BY <1>0, <1>9 DEF TagsSet, Goto, txVars, ownVars, Domains
<1>10. CASE Commit(p)
  <2>1. pc[p] = "commit" /\ Publish(p)
    BY <1>10 DEF Commit
  <2>2. /\ Publishes(p) /\ DOMAIN overtaken' = Requests /\ DOMAIN confs' = Ids
        /\ \A q \in Requests : overtaken'[q] \in BOOLEAN
    BY <2>1, PublishEffect DEF Publishes
  <2>. QED  BY <1>0, <1>10, <2>1, <2>2 DEF Commit, Goto, Domains
<1>11. CASE CommitUnheard(p)
  <2>1. pc[p] = "commit" /\ Publish(p)
    BY <1>11 DEF CommitUnheard
  <2>2. /\ Publishes(p) /\ DOMAIN overtaken' = Requests /\ DOMAIN confs' = Ids
        /\ \A q \in Requests : overtaken'[q] \in BOOLEAN
    BY <2>1, PublishEffect DEF Publishes
  <2>3. \E code : Finish(p, code)
    BY <1>11 DEF CommitUnheard
  <2>. QED  BY <1>0, <1>11, <2>1, <2>2, <2>3, FinishEffect DEF CommitUnheard, Domains
<1>12. CASE Attach(p)
  BY <1>0, <1>12 DEF Attach, Goto, txVars, Domains
<1>13. CASE InsertAuditEntry(p)
  BY <1>0, <1>13, FinishEffect DEF InsertAuditEntry, Domains
<1>14. CASE Errs(p)
  <2>1. /\ \E shown : Finish(p, shown)
        /\ DOMAIN report' = Requests /\ UNCHANGED <<confs, audit, op, changes, overtaken>>
        /\ \A q \in Requests \ {p} : report'[q] = report[q]
        /\ faults' = faults \/ (faults' = faults + 1 /\ faults < MaxFaults)
    <3>1. PICK code \in Codes \ {"none"}, shown \in Codes \ {"none"} : ErrsWith(p, code, shown)
      BY <1>0, <1>14, ErrsEffect
    <3>2. Finish(p, shown)
      BY <3>1 DEF ErrsWith
    <3>3. /\ DOMAIN report' = Requests /\ UNCHANGED <<confs, audit, op, changes, overtaken>>
          /\ \A q \in Requests \ {p} : report'[q] = report[q]
      BY <3>1 DEF ErrsWith
    <3>4. faults' = faults \/ (faults' = faults + 1 /\ faults < MaxFaults)
      BY <3>1 DEF ErrsWith
    <3>. QED  BY <3>2, <3>3, <3>4
  <2>2. faults' \in {faults, faults + 1} /\ faults' \in 0..MaxFaults
    BY <1>0, <2>1
  <2>. QED  BY <1>0, <2>1, <2>2, FinishEffect DEF Domains
<1>. QED  BY <1>0, <1>1, <1>2, <1>3, <1>4, <1>5, <1>6, <1>7, <1>8, <1>9, <1>10, <1>11, <1>12,
             <1>13, <1>14, StepCases DEF AnyStep

-----------------------------------------------------------------------------
(* Type correctness.                                                       *)

Reports == [created : Nat, updated : Nat, error : Codes]

\* The part of the type invariant that is about one request.
OwnType(p) ==
    /\ \A id \in DOMAIN priv[p] : priv[p][id] \in Row \cup {Absent}
    /\ tagLocks[p] \subseteq Tags
    /\ pc[p] \in Labels /\ answer[p] \in Codes
    /\ target[p] \in Ids \cup {NoId}
    /\ report[p] \in Reports
    /\ Own(p)

\* The rest of it.
TableType ==
    /\ Domains
    /\ \A id \in Ids : confs[id] \in Row \cup {Absent}
    /\ changes \subseteq ChangeSet /\ IsFiniteSet(changes)
    /\ \A p \in Requests : overtaken[p] \in BOOLEAN
    /\ faults \in 0..MaxFaults

\* The handler of a statement is one.
LEMMA HandlersAreOps == \A label \in Labels : HandlersAt(label) \subseteq Ops
BY DEF HandlersAt, Ops, Labels

\* What Own says of a request is enough for the types of its other variables.
LEMMA OwnFacts ==
    ASSUME NEW p \in Requests, OwnType(p)
    PROVE  /\ op[p] \in Ops
           /\ cur[p] \in Entries \cup {i + 1 : i \in Entries}
           /\ DOMAIN priv[p] \subseteq Ids
           /\ cur[p] \in DOMAIN entries[p] => In(p) \in Inputs
           /\ op[p] = "import" /\ cur[p] \in DOMAIN entries[p] /\ pc[p] # "done" => cur[p] \in Entries
           /\ op[p] # "import" => cur[p] \in Entries
<1>1. op[p] \in Ops
  BY HandlersAreOps DEF OwnType, Own
<1>2. op[p] # "import" \/ pc[p] = "done" => cur[p] \in Entries
  BY EntryFacts DEF OwnType, Own
<1>3. ASSUME op[p] = "import", pc[p] # "done"
      PROVE  /\ cur[p] \in Entries \cup {i + 1 : i \in Entries}
             /\ cur[p] \in DOMAIN entries[p] => cur[p] \in Entries
  <2>1. entries[p] \in Imports /\ cur[p] \in Nat \ {0} /\ cur[p] <= Len(entries[p]) + 1
        /\ entries[p] \in Seq(Inputs)
    BY <1>3 DEF OwnType, Own
  <2>2. cur[p] \in Entries \cup {i + 1 : i \in Entries}
    BY <2>1, EntryFacts
  <2>3. cur[p] \in DOMAIN entries[p] => cur[p] \in Entries
    BY <2>1, EntryFacts
  <2>. QED  BY <2>2, <2>3
<1>4. DOMAIN priv[p] \subseteq Ids
  BY DEF OwnType, Own, Writing
<1>5. cur[p] \in DOMAIN entries[p] => In(p) \in Inputs
  BY DEF OwnType, Own, In
<1>. QED  BY <1>1, <1>2, <1>3, <1>4, <1>5

\* The two parts together.
LEMMA TypeParts ==
    TypeOK /\ Shape <=> TableType /\ \A p \in Requests : OwnType(p)
<1>1. ASSUME TypeOK, Shape PROVE TableType /\ \A p \in Requests : OwnType(p)
  BY <1>1 DEF TypeOK, Shape, TableType, OwnType, Reports
<1>2. ASSUME TableType, \A p \in Requests : OwnType(p) PROVE TypeOK /\ Shape
  BY <1>2, OwnFacts DEF TypeOK, Shape, TableType, OwnType, Reports
<1>. QED  BY <1>1, <1>2

\* The two parts together, in the next state.
LEMMA TypePartsNext ==
    ASSUME TableType', \A p \in Requests : OwnType(p)'
    PROVE  TypeOK' /\ Shape'
<1>1. (\A p \in Requests : OwnType(p))'
  OBVIOUS
<1>. QED  BY <1>1, TypeParts, PTL

\* Every request starts well typed.
LEMMA TypeInit == Init => TypeOK /\ Shape
<1>. SUFFICES ASSUME Init PROVE TableType /\ \A p \in Requests : OwnType(p)
  BY TypeParts
<1>1. PICK row \in {Absent} \cup {[key |-> in.key, from |-> Slugs(in), tags |-> Slugs(in),
                                  archived |-> FALSE] :
                                    in \in {in \in Inputs : in.flaw = "none"}} :
        confs = [id \in Ids |-> IF id = Setup THEN row ELSE Absent]
  BY DEF Init
<1>2. row \in Row \cup {Absent}
  <2>1. CASE row = Absent
    BY <2>1
  <2>2. CASE row # Absent
    <3>1. PICK in \in Inputs : row = [key |-> in.key, from |-> Slugs(in), tags |-> Slugs(in),
                                     archived |-> FALSE]
      BY <1>1, <2>2
    <3>. QED  BY <3>1, InputFacts DEF Row
  <2>. QED  BY <2>1, <2>2
<1>3. IsFiniteSet({})
  BY FS_EmptySet
<1>4. TableType
  BY <1>1, <1>2, <1>3, InputDomain DEF Init, TableType, Domains
<1>5. ASSUME NEW p \in Requests PROVE OwnType(p)
  <2>1. DOMAIN priv[p] = {}
    BY NothingIsEmpty DEF Init
  <2>2. report[p] \in Reports /\ report[p].error = "none"
    BY DEF Init, Reports, Codes
  <2>. QED  BY <2>1, <2>2 DEF Init, OwnType, Own, Labels, Codes, HandlersAt, Writing
<1>. QED  BY <1>4, <1>5

\* What clients know are conferences.
LEMMA KnownIds ==
    ASSUME changes \subseteq ChangeSet PROVE Known \subseteq Ids
BY EntryFacts DEF Known, ChangeSet

\* A request arrives well typed.
LEMMA OwnArrival ==
    ASSUME TableType, NEW p \in Requests, OwnType(p), Arrive(p)
    PROVE  OwnType(p)'
<1>0. /\ pc[p] = "new" /\ op[p] = "none" /\ cur[p] = 1 /\ DOMAIN priv[p] = {} /\ slugs[p] = <<>>
      /\ report[p] \in Reports /\ report[p].error = "none" /\ Known \subseteq Ids
      /\ tagLocks[p] \subseteq Tags
      /\ UNCHANGED <<priv, tagLocks, cur, slugs, report>>
      /\ Domains
  BY ArrivalEffect, KnownIds DEF OwnType, Own, HandlersAt, Writing, TableType
<1>1. SUFFICES /\ pc'[p] \in {"insertRow", "lockRow", "entry", "done"} /\ answer'[p] \in Codes
               /\ target'[p] \in Ids \cup {NoId}
               /\ pc'[p] \in {"insertRow", "lockRow"} => target'[p] \in Ids
               /\ pc'[p] = "insertRow" => target'[p] = <<p, 1>>
               /\ op'[p] \in HandlersAt(pc'[p]) /\ entries'[p] \in Seq(Inputs)
               /\ op'[p] = "import" /\ pc'[p] # "done" => entries'[p] \in Imports
               /\ \/ pc'[p] = "insertRow"
                  \/ pc'[p] = "lockRow" /\ op'[p] \in {"update", "import"}
                  => 1 \in DOMAIN entries'[p]
  <2>1. entries'[p] \in Seq(Inputs) => 1 <= Len(entries'[p]) + 1
    OBVIOUS
  <2>. QED  BY <1>0, <1>1, <2>1 DEF OwnType, Own, Labels, Writing
<1>. USE DEF Begin, Codes, HandlersAt, Ops, Domains
<1>2. ASSUME NEW in \in Inputs PROVE <<in>> \in Seq(Inputs) /\ 1 \in DOMAIN <<in>>
  OBVIOUS
<1>3. CASE \E in \in Inputs : CreateConference(p, in)
  BY <1>0, <1>2, <1>3, EntryFacts DEF CreateConference
<1>4. CASE \E id \in Known, in \in Inputs : UpdateConference(p, id, in)
  BY <1>0, <1>2, <1>4 DEF UpdateConference
<1>5. CASE \E o \in {"delete", "archive", "unarchive"}, id \in Known : ById(p, o, id)
  BY <1>0, <1>5 DEF ById
<1>6. CASE \E doc \in Imports : ImportConferences(p, doc)
  BY <1>0, <1>6, InputDomain DEF ImportConferences, OwnType
<1>7. CASE ImportUnparsable(p)
  BY <1>0, <1>7 DEF ImportUnparsable
<1>. QED  BY <1>3, <1>4, <1>5, <1>6, <1>7 DEF Arrive

\* So does it end.
LEMMA OwnFinish ==
    ASSUME Domains, NEW p \in Requests, OwnType(p), pc[p] # "new",
           NEW code \in Codes, Finish(p, code), op' = op, report'[p] \in Reports
    PROVE  OwnType(p)'
<1>1. op[p] \in HandlersAt("done")
  BY OwnFacts DEF OwnType, Own, HandlersAt, Labels
<1>2. /\ DOMAIN priv'[p] = {} /\ tagLocks'[p] = {} /\ pc'[p] = "done"
      /\ entries'[p] = <<>> /\ cur'[p] = 1 /\ target'[p] = NoId /\ slugs'[p] = <<>>
      /\ answer'[p] = code
  BY FinishEffect
<1>3. Own(p)'
  BY <1>1, <1>2 DEF Own, Writing
<1>. QED  BY <1>2, <1>3 DEF OwnType, Labels

\* The other steps of a request.
LEMMA OwnStep ==
    ASSUME TableType, NEW p \in Requests, OwnType(p), Step(p) \/ Fault(p) \/ DeadlockVictim(p)
    PROVE  OwnType(p)'
<1>0. /\ Domains /\ Own(p) /\ DOMAIN priv = Requests
      /\ \A id \in Ids : confs[id] \in Row \cup {Absent}
      /\ report[p] \in Reports /\ answer[p] \in Codes /\ cur[p] \in Nat \ {0}
  BY DEF TableType, OwnType, Domains, Own
<1>1. CASE TakesEntry(p)
  BY <1>0, <1>1
     DEF TakesEntry, Goto, txVars, ownVars, OwnType, Own, HandlersAt, Writing, Labels, Domains
<1>2. CASE ImportEnds(p)
  BY <1>0, <1>2, OwnFinish DEF ImportEnds, Codes
<1>3. CASE Lookup(p) \/ LookupFails(p)
  <2>1. pc[p] = "lookup" /\ op[p] = "import" /\ cur[p] \in DOMAIN entries[p] /\ cur[p] \in Entries
    BY <1>0, <1>3, OwnFacts DEF Lookup, LookupFails, Own, HandlersAt
  <2>2. /\ target'[p] \in Ids /\ pc'[p] \in {"insertRow", "lockRow"}
        /\ pc'[p] = "insertRow" => target'[p] = <<p, cur[p]>>
    <3>1. <<p, cur[p]>> \in Ids
      BY <2>1, EntryFacts
    <3>2. CASE LookupFails(p)
      BY <1>0, <3>1, <3>2 DEF LookupFails, Goto, Domains
    <3>3. CASE Lookup(p)
      <4>. DEFINE hits == {id \in Ids : In(p).key \in KeyOf(confs[id])}
      <4>1. hits # {} => (CHOOSE id \in hits : TRUE) \in Ids
        OBVIOUS
      <4>2. target'[p] = IF hits = {} THEN <<p, cur[p]>> ELSE CHOOSE id \in hits : TRUE
        BY <1>0, <3>3 DEF Lookup, Domains
      <4>3. pc'[p] = IF hits = {} THEN "insertRow" ELSE "lockRow"
        BY <1>0, <3>3 DEF Lookup, Goto, Domains
      <4>. HIDE DEF hits
      <4>. QED  BY <3>1, <4>1, <4>2, <4>3
    <3>. QED  BY <1>3, <3>2, <3>3
  <2>3. UNCHANGED <<priv, tagLocks, op, entries, cur, slugs, answer, report>>
    BY <1>3 DEF Lookup, LookupFails
  <2>. QED  BY <1>0, <2>1, <2>2, <2>3 DEF OwnType, Own, HandlersAt, Writing, Labels
<1>4. CASE Deletes(p) \/ Archives(p) \/ LocksForUpdate(p)
  <2>1. /\ pc[p] = "lockRow" /\ DOMAIN priv[p] = {} /\ target[p] \in Ids
        /\ op[p] \in {"update", "delete", "archive", "unarchive", "import"}
        /\ confs[target[p]] \in Row
    BY <1>0, <1>4 DEF Deletes, Archives, LocksForUpdate, GetsRow, Own, Writing, HandlersAt
  <2>2. PICK row \in Row \cup {Absent} :
          /\ Write(p, target[p], row)
          /\ \/ row = Absent /\ op[p] = "delete" /\ Goto(p, "commit")
             \/ row \in Row /\ op[p] \in {"archive", "unarchive"} /\ Goto(p, "commit")
             \/ row \in Row /\ op[p] \in {"update", "import"} /\ Goto(p, "updateRow")
    <3>1. CASE Deletes(p)
      BY <3>1 DEF Deletes
    <3>2. CASE Archives(p)
      <4>1. [confs[target[p]] EXCEPT !.archived = (op[p] = "archive")] \in Row
        BY <2>1 DEF Row
      <4>. QED  BY <3>2, <4>1 DEF Archives
    <3>3. CASE LocksForUpdate(p)
      BY <2>1, <3>3 DEF LocksForUpdate
    <3>. QED  BY <1>4, <3>1, <3>2, <3>3
  <2>3. DOMAIN priv'[p] = {target[p]} /\ priv'[p][target[p]] = row
    BY <1>0, <2>1, <2>2, WriteEffect
  <2>4. UNCHANGED <<tagLocks, op, entries, cur, target, slugs, answer, report>>
    BY <1>4 DEF Deletes, Archives, LocksForUpdate, GetsRow, ownVars
  <2>5. /\ pc'[p] \in {"commit", "updateRow"}
        /\ pc'[p] = "updateRow" => row \in Row /\ op[p] \in {"update", "import"}
        /\ pc'[p] = "commit" => op[p] \in {"delete", "archive", "unarchive"}
    BY <1>0, <2>2 DEF Goto, Domains
  <2>. QED  BY <1>0, <2>1, <2>2, <2>3, <2>4, <2>5
            DEF OwnType, Own, HandlersAt, Writing, Labels, Ops
<1>5. CASE WriteRow(p)
  <2>1. /\ pc[p] \in {"insertRow", "updateRow"} /\ op[p] \in {"create", "update", "import"}
        /\ cur[p] \in DOMAIN entries[p] /\ In(p) \in Inputs /\ target[p] \in Ids
        /\ DOMAIN priv[p] \subseteq {target[p]}
    BY <1>0, <1>5, OwnFacts DEF WriteRow, Own, HandlersAt, Writing
  <2>2. View(p, target[p]) \in Row \cup {Absent}
    BY <1>0, <2>1 DEF View, OwnType
  <2>3. NewRow(p, View(p, target[p])) \in Row
    BY <2>1, <2>2, InputFacts, RowFacts DEF NewRow, Row
  <2>4. /\ DOMAIN priv'[p] = {target[p]} /\ priv'[p][target[p]] \in Row
    BY <1>0, <1>5, <2>1, <2>3, WriteEffect DEF WriteRow
  <2>5. slugs'[p] \in Seq(Tags) /\ pc'[p] = "setTags"
    BY <1>0, <1>5, <2>1, InputFacts DEF WriteRow, Goto, Domains
  <2>6. UNCHANGED <<tagLocks, op, entries, cur, target, answer, report>>
    BY <1>5 DEF WriteRow
  <2>. QED  BY <1>0, <2>1, <2>4, <2>5, <2>6 DEF OwnType, Own, HandlersAt, Writing, Labels
<1>6. CASE UpsertTag(p)
  <2>1. /\ pc[p] = "setTags" /\ DOMAIN priv[p] = {target[p]} /\ priv[p][target[p]] \in Row
        /\ slugs[p] \in Seq(Tags) /\ slugs[p] # <<>>
    BY <1>0, <1>6 DEF UpsertTag, Own, Writing
  <2>2. Head(slugs[p]) \in Tags /\ Tail(slugs[p]) \in Seq(Tags)
    BY <2>1
  <2>3. /\ View(p, target[p]) = priv[p][target[p]]
        /\ [View(p, target[p]) EXCEPT !.tags = @ \cup {Head(slugs[p])}] \in Row
    BY <2>1, <2>2 DEF View, Row
  <2>4. DOMAIN priv'[p] = {target[p]} /\ priv'[p][target[p]] \in Row
    BY <1>0, <1>6, <2>1, <2>3, WriteEffect DEF UpsertTag
  <2>5. slugs'[p] \in Seq(Tags) /\ tagLocks'[p] \subseteq Tags
    BY <1>0, <1>6, <2>2 DEF UpsertTag, Domains, OwnType
  <2>6. UNCHANGED <<op, pc, entries, cur, target, answer, report>>
    BY <1>6 DEF UpsertTag
  <2>. QED  BY <1>0, <2>1, <2>4, <2>5, <2>6 DEF OwnType, Own, Writing
<1>7. CASE TagsSet(p)
  BY <1>0, <1>7
     DEF TagsSet, Goto, txVars, ownVars, OwnType, Own, HandlersAt, Writing, Labels, Ops, Domains
<1>8. CASE Commit(p)
  <2>1. /\ pc[p] = "commit" /\ slugs[p] = <<>> /\ op[p] \in Ops \ {"none"} /\ target[p] \in Ids
    BY <1>0, <1>8 DEF Commit, Own, HandlersAt, Writing
  <2>2. DOMAIN priv'[p] = {} /\ tagLocks'[p] = {} /\ UNCHANGED <<op, entries, slugs, answer>>
    BY <1>0, <1>8, NothingIsEmpty DEF Commit, Domains
  <2>3. CASE op[p] = "import"
    <3>1. /\ report'[p] = Counted(p) /\ cur'[p] = cur[p] + 1 /\ target'[p] = NoId
          /\ pc'[p] = "entry"
      BY <1>0, <1>8, <2>3 DEF Commit, Goto, Domains
    <3>2. Counted(p) \in Reports /\ Counted(p).error = report[p].error
      BY <1>0 DEF Counted, Reports
    <3>3. cur[p] + 1 \in Nat \ {0} /\ cur[p] + 1 <= Len(entries[p]) + 1
      BY <1>0, <2>1, <2>3 DEF Own
    <3>. QED  BY <1>0, <2>1, <2>2, <2>3, <3>1, <3>2, <3>3
              DEF OwnType, Own, HandlersAt, Writing, Labels
  <2>4. CASE op[p] # "import"
    <3>1. /\ pc'[p] = IF op[p] \in {"archive", "unarchive"} THEN "attach" ELSE "audit"
          /\ UNCHANGED <<report, cur, target>>
      BY <1>0, <1>8, <2>4 DEF Commit, Goto, Domains
    <3>. QED  BY <1>0, <2>1, <2>2, <2>4, <3>1
              DEF OwnType, Own, HandlersAt, Writing, Labels, Ops
  <2>. QED  BY <2>3, <2>4
<1>9. CASE CommitUnheard(p)
  <2>1. PICK code \in Codes : Finish(p, code)
    BY <1>9 DEF CommitUnheard, Codes
  <2>2. report'[p] \in Reports
    BY <1>0, <1>9 DEF CommitUnheard, Reports, Codes, Domains
  <2>. QED  BY <1>0, <1>9, <2>1, <2>2, OwnFinish DEF CommitUnheard
<1>10. CASE Attach(p)
  BY <1>0, <1>10
     DEF Attach, Goto, txVars, OwnType, Own, HandlersAt, Writing, Labels, Domains
<1>11. CASE InsertAuditEntry(p)
  BY <1>0, <1>11, OwnFinish DEF InsertAuditEntry, Codes
<1>12. CASE Errs(p)
  <2>1. PICK code \in Codes \ {"none"}, shown \in Codes \ {"none"} : ErrsWith(p, code, shown)
    BY <1>0, <1>12, ErrsEffect
  <2>2. report'[p] \in Reports
    BY <1>0, <2>1 DEF ErrsWith, Reports
  <2>. QED  BY <1>0, <2>1, <2>2, OwnFinish DEF ErrsWith
<1>. QED  BY <1>0, <1>1, <1>2, <1>3, <1>4, <1>5, <1>6, <1>7, <1>8, <1>9, <1>10, <1>11, <1>12,
             StepCases

\* What a transaction commits is a row, and its record a change.
LEMMA CommitFacts ==
    ASSUME TypeOK, Shape, NEW p \in Requests, pc[p] = "commit"
    PROVE  /\ target[p] \in Ids /\ DOMAIN priv[p] = {target[p]}
           /\ priv[p][target[p]] \in Row \cup {Absent}
           /\ Change(p) \in ChangeSet /\ op[p] \in Ops \ {"none"}
<1>1. Own(p)
  BY DEF Shape
<1>2. /\ target[p] \in Ids /\ DOMAIN priv[p] = {target[p]} /\ op[p] \in Ops \ {"none"}
      /\ cur[p] \in Nat \ {0}
  BY <1>1 DEF Own, Writing, HandlersAt
<1>3. Action(p) \in Ops
  BY <1>2 DEF Action, Ops
<1>. QED  BY <1>2, <1>3 DEF Change, ChangeSet, TypeOK

\* Every step of a request keeps the types.
LEMMA TypeRequest ==
    ASSUME TypeOK, Shape, NEW p \in Requests, AnyStep(p)
    PROVE  TypeOK' /\ Shape'
<1>1. TableType /\ \A q \in Requests : OwnType(q)
  BY TypeParts
<1>2. OwnType(p)'
  BY <1>1, OwnArrival, OwnStep DEF AnyStep
<1>3. ASSUME NEW q \in Requests \ {p} PROVE OwnType(q)'
  <2>1. /\ priv'[q] = priv[q] /\ tagLocks'[q] = tagLocks[q] /\ pc'[q] = pc[q]
        /\ op'[q] = op[q] /\ entries'[q] = entries[q] /\ cur'[q] = cur[q]
        /\ target'[q] = target[q] /\ slugs'[q] = slugs[q] /\ answer'[q] = answer[q]
        /\ report'[q] = report[q]
    BY OthersKeep
  <2>. QED  BY <1>1, <2>1 DEF OwnType, Own
<1>4. TableType'
  <2>1. /\ Domains' /\ faults' \in 0..MaxFaults /\ \A q \in Requests : overtaken'[q] \in BOOLEAN
        /\ Publishes(p) \/ UNCHANGED <<confs, changes>>
    BY OthersKeep
  <2>2. CASE Publishes(p)
    <3>1. pc[p] = "commit" /\ changes' = changes \cup {Change(p)}
      BY <2>2 DEF Publishes
    <3>2. IsFiniteSet(changes')
      BY <1>1, <3>1, FS_AddElement DEF TableType
    <3>3. \A id \in Ids : confs'[id] \in Row \cup {Absent}
      BY <1>1, <2>2, <3>1, CommitFacts DEF Publishes, TableType
    <3>. QED  BY <1>1, <2>1, <3>1, <3>2, <3>3, CommitFacts DEF TableType
  <2>3. CASE UNCHANGED <<confs, changes>>
    BY <1>1, <2>1, <2>3 DEF TableType
  <2>. QED  BY <2>1, <2>2, <2>3
<1>. QED  BY <1>2, <1>3, <1>4, TypePartsNext

\* A step of Next is a step of a request, or changes nothing.
LEMMA NextCases ==
    ASSUME [Next]_vars
    PROVE  (\E p \in Requests : AnyStep(p)) \/ UNCHANGED vars
BY DEF Next, AllDone, AnyStep

\* Stuttering.
LEMMA TypeStutters ==
    ASSUME TypeOK, Shape, UNCHANGED vars PROVE TypeOK' /\ Shape'
<1>1. UNCHANGED <<confs, priv, tagLocks, op, pc, entries, cur, target, slugs, answer, report,
                  changes, overtaken, faults>>
  BY DEF vars
<1>2. TableType /\ \A q \in Requests : OwnType(q)
  BY TypeParts
<1>3. TableType'
  BY <1>1, <1>2 DEF TableType, Domains
<1>4. \A q \in Requests : OwnType(q)'
  BY <1>1, <1>2 DEF OwnType, Own
<1>. QED  BY <1>3, <1>4, TypePartsNext

\* The types hold in every state, with the shape of what requests have in hand.
LEMMA TypesAlways == Spec => [](TypeOK /\ Shape)
<1>1. TypeOK /\ Shape /\ [Next]_vars => (TypeOK /\ Shape)'
  BY NextCases, TypeRequest, TypeStutters
<1>. QED  BY <1>1, TypeInit, PTL DEF Spec

\* Every state a request or a fault leads to is well typed, for any number of
\* requests and any inputs: in particular no transaction holds a row that is
\* not a conference's, and every answer is a status code.
THEOREM TypeCorrect == Spec => []TypeOK
BY TypesAlways, PTL

-----------------------------------------------------------------------------
(* Where a request comes from.                                             *)

\* Which steps lead to a statement.
LEMMA Origins ==
    ASSUME TypeOK, Shape, NEW p \in Requests, AnyStep(p)
    PROVE  /\ pc'[p] # "new"
           /\ pc'[p] \in {"setTags", "commit"} =>
                WriteRow(p) \/ UpsertTag(p) \/ TagsSet(p) \/ Deletes(p) \/ Archives(p)
           /\ pc'[p] = "updateRow" => LocksForUpdate(p)
           /\ pc'[p] = "insertRow" => Arrive(p) \/ Lookup(p) \/ LookupFails(p)
           /\ pc'[p] = "lockRow" => Arrive(p) \/ Lookup(p)
           /\ pc'[p] = "lookup" => TakesEntry(p)
           /\ pc'[p] = "entry" => Arrive(p) \/ Commit(p)
           /\ pc'[p] \in {"attach", "audit"} => Commit(p) \/ Attach(p)
           /\ pc'[p] = "done" => \/ Arrive(p) \/ ImportEnds(p) \/ CommitUnheard(p)
                                 \/ InsertAuditEntry(p) \/ Errs(p)
           /\ Arrive(p) => pc'[p] \in {"insertRow", "lockRow", "entry", "done"}
<1>0. Domains /\ Own(p)
  BY DEF Shape
<1>. USE DEF Goto, Domains
<1>1. ASSUME Arrive(p) PROVE pc'[p] \in {"insertRow", "lockRow", "entry", "done"}
  BY <1>0, <1>1
     DEF Arrive, CreateConference, UpdateConference, ById, ImportConferences, ImportUnparsable, Begin
<1>2. ASSUME TakesEntry(p) PROVE pc'[p] = "lookup"
  BY <1>0, <1>2 DEF TakesEntry
<1>3. ASSUME ImportEnds(p) \/ CommitUnheard(p) \/ InsertAuditEntry(p) \/ Errs(p)
      PROVE  pc'[p] = "done"
  BY <1>0, <1>3 DEF ImportEnds, CommitUnheard, InsertAuditEntry, Errs, Fail, Finish
<1>4. /\ Lookup(p) => pc'[p] \in {"insertRow", "lockRow"}
      /\ LookupFails(p) => pc'[p] = "insertRow"
  BY <1>0 DEF Lookup, LookupFails
<1>5. /\ Deletes(p) \/ Archives(p) => pc'[p] = "commit"
      /\ LocksForUpdate(p) => pc'[p] = "updateRow"
  BY <1>0 DEF Deletes, Archives, LocksForUpdate
<1>6. /\ WriteRow(p) \/ UpsertTag(p) => pc'[p] = "setTags"
      /\ TagsSet(p) => pc'[p] = "commit"
  BY <1>0 DEF WriteRow, UpsertTag, TagsSet
<1>7. /\ Commit(p) => pc'[p] \in {"entry", "attach", "audit"}
      /\ Attach(p) => pc'[p] = "audit"
  BY <1>0 DEF Commit, Attach
<1>. QED  BY <1>0, <1>1, <1>2, <1>3, <1>4, <1>5, <1>6, <1>7, StepCases DEF AnyStep

-----------------------------------------------------------------------------
(* The tags of a conference.                                               *)

\* The part of TagInv that is about one request.
OwnTags(p) ==
    LET row == priv[p][target[p]] IN
    /\ pc[p] = "setTags" => row.from = row.tags \cup Listed(slugs[p])
    /\ pc[p] = "commit" => row = Absent \/ row.tags = row.from

\* A list is its head and its tail.
LEMMA HeadAndTail ==
    ASSUME NEW S, NEW s \in Seq(S), s # <<>>
    PROVE  Listed(s) = {Head(s)} \cup Listed(Tail(s))
<1>. USE DEF Listed
<1>1. /\ DOMAIN s = 1..Len(s) /\ Len(s) \in Nat \ {0} /\ Head(s) = s[1]
      /\ DOMAIN Tail(s) = 1..(Len(s) - 1)
      /\ \A i \in DOMAIN Tail(s) : Tail(s)[i] = s[i + 1]
  OBVIOUS
<1>2. ASSUME NEW i \in DOMAIN s
      PROVE  s[i] \in {Head(s)} \cup {Tail(s)[j] : j \in DOMAIN Tail(s)}
  <2>1. CASE i = 1
    BY <1>1, <2>1
  <2>2. CASE i # 1
    <3>1. i - 1 \in DOMAIN Tail(s) /\ Tail(s)[i - 1] = s[i]
      BY <1>1, <2>2
    <3>. QED  BY <3>1
  <2>. QED  BY <2>1, <2>2
<1>3. ASSUME NEW j \in DOMAIN Tail(s) PROVE Tail(s)[j] \in {s[i] : i \in DOMAIN s}
  BY <1>1
<1>4. Head(s) \in {s[i] : i \in DOMAIN s}
  BY <1>1
<1>. QED  BY <1>2, <1>3, <1>4

\* The empty list has nothing in it.
LEMMA EmptyList == Listed(<<>>) = {}
BY DEF Listed

\* Every step of a request keeps the tags in line.
LEMMA TagsRequest ==
    ASSUME TypeOK, Shape, TagInv, NEW p \in Requests, AnyStep(p)
    PROVE  TagInv'
<1>0. Domains /\ Own(p) /\ OwnTags(p) /\ \A id \in Ids : confs[id] \in Row \cup {Absent}
  BY DEF TypeOK, Shape, TagInv, OwnTags
<1>1. TagsFollowRow'
  <2>1. CASE Publishes(p)
    <3>1. pc[p] = "commit"
      BY <2>1 DEF Publishes
    <3>2. \A id \in Ids : confs'[id] # Absent => confs'[id].tags = confs'[id].from
      BY <1>0, <2>1, <3>1 DEF TagInv, TagsFollowRow, Publishes, OwnTags
    <3>. QED  BY <3>2 DEF TagsFollowRow
  <2>2. CASE UNCHANGED confs
    BY <2>2 DEF TagInv, TagsFollowRow
  <2>. QED  BY <2>1, <2>2, OthersKeep
<1>2. \A q \in Requests \ {p} : OwnTags(q)'
  <2>1. \A q \in Requests \ {p} : OwnTags(q)
    BY DEF TagInv, OwnTags
  <2>2. ASSUME NEW q \in Requests \ {p} PROVE OwnTags(q)'
    <3>1. priv'[q] = priv[q] /\ target'[q] = target[q] /\ pc'[q] = pc[q] /\ slugs'[q] = slugs[q]
      BY OthersKeep
    <3>. QED  BY <2>1, <3>1 DEF OwnTags
  <2>. QED  BY <2>2
<1>3. OwnTags(p)'
  <2>1. CASE WriteRow(p)
    <3>1. DOMAIN priv[p] \subseteq {target[p]} /\ cur[p] \in DOMAIN entries[p] /\ DOMAIN priv = Requests
      BY <1>0, <2>1 DEF WriteRow, Own, Writing, Domains
    <3>2. priv'[p][target[p]] = NewRow(p, View(p, target[p])) /\ target' = target
      BY <2>1, <3>1, WriteEffect DEF WriteRow
    <3>3. slugs'[p] = In(p).tags /\ pc'[p] = "setTags"
      BY <1>0, <2>1 DEF WriteRow, Goto, Domains
    <3>. QED  BY <3>2, <3>3 DEF OwnTags, NewRow, Slugs, Listed
  <2>2. CASE UpsertTag(p)
    <3>. DEFINE row == priv[p][target[p]]  t == Head(slugs[p])
    <3>1. /\ pc[p] = "setTags" /\ DOMAIN priv[p] = {target[p]} /\ row \in Row
          /\ slugs[p] \in Seq(Tags) /\ slugs[p] # <<>> /\ DOMAIN priv = Requests
      BY <1>0, <2>2 DEF UpsertTag, Own, Writing, Domains
    <3>2. View(p, target[p]) = row
      BY <3>1 DEF View
    <3>3. priv'[p][target[p]] = [row EXCEPT !.tags = @ \cup {t}]
      BY <2>2, <3>1, <3>2, WriteEffect DEF UpsertTag
    <3>4. slugs'[p] = Tail(slugs[p]) /\ UNCHANGED <<pc, target>>
      BY <1>0, <2>2 DEF UpsertTag, Domains
    <3>5. row.from = row.tags \cup ({t} \cup Listed(Tail(slugs[p])))
      BY <1>0, <3>1, HeadAndTail DEF OwnTags
    <3>6. /\ [row EXCEPT !.tags = @ \cup {t}].from = row.from
          /\ [row EXCEPT !.tags = @ \cup {t}].tags = row.tags \cup {t}
      BY <3>1 DEF Row
    <3>. HIDE DEF row, t
    <3>. QED  BY <3>1, <3>3, <3>4, <3>5, <3>6 DEF OwnTags
  <2>3. CASE TagsSet(p)
    <3>1. /\ pc[p] = "setTags" /\ slugs[p] = <<>> /\ UNCHANGED <<priv, target>>
          /\ pc'[p] = "commit"
      BY <1>0, <2>3 DEF TagsSet, txVars, Goto, Domains
    <3>2. priv[p][target[p]].from = priv[p][target[p]].tags
      BY <1>0, <3>1, EmptyList DEF OwnTags
    <3>. QED  BY <3>1, <3>2 DEF OwnTags
  <2>4. CASE Deletes(p) \/ Archives(p)
    <3>1. /\ pc[p] = "lockRow" /\ DOMAIN priv[p] \subseteq {target[p]} /\ DOMAIN priv = Requests
          /\ target[p] \in Ids /\ confs[target[p]] \in Row /\ UNCHANGED target
          /\ pc'[p] = "commit"
      BY <1>0, <2>4 DEF Deletes, Archives, GetsRow, Own, Writing, Domains, Goto
    <3>2. confs[target[p]].tags = confs[target[p]].from
      BY <3>1, RowFacts DEF TagInv, TagsFollowRow
    <3>3. CASE Deletes(p)
      <4>1. priv'[p][target[p]] = Absent
        BY <3>1, <3>3, WriteEffect DEF Deletes
      <4>. QED  BY <3>1, <4>1 DEF OwnTags
    <3>4. CASE Archives(p)
      <4>1. priv'[p][target[p]] = [confs[target[p]] EXCEPT !.archived = (op[p] = "archive")]
        BY <3>1, <3>4, WriteEffect DEF Archives
      <4>2. priv'[p][target[p]].tags = priv'[p][target[p]].from
        BY <3>1, <3>2, <4>1 DEF Row
      <4>. QED  BY <3>1, <4>2 DEF OwnTags
    <3>. QED  BY <2>4, <3>3, <3>4
  <2>5. CASE pc'[p] \notin {"setTags", "commit"}
    BY <2>5 DEF OwnTags
  <2>. QED  BY <2>1, <2>2, <2>3, <2>4, <2>5, Origins
<1>. QED  BY <1>1, <1>2, <1>3 DEF TagInv, OwnTags

\* So they are in every state.
LEMMA TagsAlways == Spec => []TagInv
<1>1. Init => TagInv
  <2>. SUFFICES ASSUME Init PROVE TagInv
    OBVIOUS
  <2>1. PICK row \in {Absent} \cup {[key |-> in.key, from |-> Slugs(in), tags |-> Slugs(in),
                                  archived |-> FALSE] :
                                    in \in {in \in Inputs : in.flaw = "none"}} :
          confs = [id \in Ids |-> IF id = Setup THEN row ELSE Absent]
    BY DEF Init
  <2>2. row # Absent => row.tags = row.from
    BY <2>1
  <2>3. TagsFollowRow
    BY <2>1, <2>2 DEF TagsFollowRow
  <2>. QED  BY <2>3 DEF Init, TagInv
<1>2. TypeOK /\ Shape /\ TagInv /\ [Next]_vars => TagInv'
  <2>1. ASSUME TagInv, UNCHANGED vars PROVE TagInv'
    BY <2>1 DEF TagInv, TagsFollowRow, vars
  <2>. QED  BY <2>1, NextCases, TagsRequest
<1>. QED  BY <1>1, <1>2, TypesAlways, PTL DEF Spec

\* The tags of a conference are always those of the request that wrote its
\* columns: two edits that replace them upsert by upsert never mix theirs, and
\* a request that is aborted between two upserts leaves the old ones.
THEOREM TagsFollowRowAlways == Spec => []TagsFollowRow
BY TagsAlways, PTL DEF TagInv

-----------------------------------------------------------------------------
(* How far a step takes a request.                                         *)

\* COMMIT: an import goes on to the next entry.
LEMMA CommitEffect ==
    ASSUME TypeOK, Shape, NEW p \in Requests, Commit(p)
    PROVE  /\ Publishes(p) /\ pc[p] = "commit" /\ op' = op /\ faults' = faults /\ audit' = audit
           /\ DOMAIN priv'[p] = {}
           /\ op[p] = "import" => /\ report'[p] = Counted(p) /\ cur'[p] = cur[p] + 1
                                  /\ target'[p] = NoId /\ pc'[p] = "entry"
           /\ op[p] # "import" => /\ UNCHANGED <<report, cur, target>>
                                  /\ pc'[p] \in {"attach", "audit"}
<1>1. Domains
  BY DEF Shape
<1>2. Publishes(p) /\ pc[p] = "commit"
  BY PublishEffect DEF Commit
<1>. QED  BY <1>1, <1>2, NothingIsEmpty DEF Commit, Goto, Domains

\* A step that neither commits nor ends the request stays at its entry.
LEMMA Progress ==
    ASSUME TypeOK, Shape, NEW p \in Requests, AnyStep(p)
    PROVE  /\ pc[p] # "done"
           /\ op'[p] = op[p] \/ pc[p] = "new"
           /\ pc'[p] \notin {"attach", "audit", "done"} => pc[p] \notin {"attach", "audit", "done"}
           /\ pc'[p] # "done" /\ ~Commit(p) => cur'[p] = cur[p] /\ UNCHANGED report
           /\ pc'[p] # "done" => faults' = faults \/ LookupFails(p)
           /\ \/ target'[p] \in Known \cup {NoId, <<p, cur'[p]>>}
              \/ target'[p] = target[p] /\ cur'[p] = cur[p]
              \/ target'[p] \in Ids /\ confs[target'[p]] # Absent
<1>0. Domains /\ Own(p)
  BY DEF Shape
<1>1. CASE Arrive(p)
  <2>1. /\ pc[p] = "new" /\ pc'[p] \in {"insertRow", "lockRow", "entry", "done"}
        /\ UNCHANGED <<cur, report, faults>> /\ cur[p] = 1
    BY <1>0, <1>1, ArrivalEffect, Origins DEF Own, HandlersAt, AnyStep
  <2>2. target'[p] \in Known \cup {NoId, <<p, 1>>}
    BY <1>0, <1>1 DEF Arrive, CreateConference, UpdateConference, ById, ImportConferences,
                      ImportUnparsable, Begin, Domains
  <2>. QED  BY <2>1, <2>2
<1>2. CASE TakesEntry(p)
  BY <1>0, <1>2 DEF TakesEntry, txVars, ownVars, Goto, Domains
<1>3. CASE ImportEnds(p)
  BY <1>0, <1>3, FinishEffect DEF ImportEnds
<1>4. CASE Lookup(p)
  <2>. DEFINE hits == {id \in Ids : In(p).key \in KeyOf(confs[id])}
  <2>1. /\ target'[p] = IF hits = {} THEN <<p, cur[p]>> ELSE CHOOSE id \in hits : TRUE
        /\ pc[p] = "lookup" /\ UNCHANGED <<op, cur, report, faults>>
    BY <1>0, <1>4 DEF Lookup, Domains
  <2>2. hits # {} => (CHOOSE id \in hits : TRUE) \in hits
    OBVIOUS
  <2>3. \A id \in hits : id \in Ids /\ confs[id] # Absent
    BY DEF KeyOf
  <2>. HIDE DEF hits
  <2>4. target'[p] = <<p, cur'[p]>> \/ (target'[p] \in Ids /\ confs[target'[p]] # Absent)
    BY <2>1, <2>2, <2>3
  <2>. QED  BY <2>1, <2>4
<1>5. CASE LookupFails(p)
  BY <1>0, <1>5 DEF LookupFails, Domains
<1>6. CASE Deletes(p) \/ Archives(p) \/ LocksForUpdate(p)
  BY <1>6 DEF Deletes, Archives, LocksForUpdate, GetsRow, ownVars
<1>7. CASE WriteRow(p) \/ UpsertTag(p)
  BY <1>7 DEF WriteRow, UpsertTag
<1>8. CASE TagsSet(p)
  BY <1>8 DEF TagsSet, txVars, ownVars
<1>9. CASE Commit(p)
  BY <1>9, CommitEffect
<1>10. CASE CommitUnheard(p)
  <2>1. target'[p] = NoId /\ pc'[p] = "done" /\ pc[p] = "commit" /\ op' = op
    BY <1>0, <1>10 DEF CommitUnheard, Finish, Release, Goto, Domains
  <2>. QED  BY <1>10, <2>1
<1>11. CASE Attach(p)
  BY <1>0, <1>11 DEF Attach, txVars, Goto, Domains
<1>12. CASE InsertAuditEntry(p)
  BY <1>0, <1>12, FinishEffect DEF InsertAuditEntry
<1>13. CASE Errs(p)
  <2>1. PICK code \in Codes \ {"none"}, shown \in Codes \ {"none"} : ErrsWith(p, code, shown)
    BY <1>0, <1>13, ErrsEffect
  <2>2. target'[p] = NoId /\ pc'[p] = "done" /\ pc[p] # "done" /\ op' = op
    BY <1>0, <2>1, FinishEffect DEF ErrsWith
  <2>. QED  BY <2>2
<1>. QED  BY <1>0, <1>1, <1>2, <1>3, <1>4, <1>5, <1>6, <1>7, <1>8, <1>9, <1>10, <1>11, <1>12,
             <1>13, StepCases DEF AnyStep

-----------------------------------------------------------------------------
(* Nobody knows a conference before it is committed.                       *)

\* What a commit makes known.
LEMMA KnownNext ==
    ASSUME NEW p \in Requests
    PROVE  /\ UNCHANGED changes => Known' = Known
           /\ changes' = changes \cup {Change(p)} => Known' = Known \cup {target[p]}
<1>1. Change(p).id = target[p]
  BY DEF Change
<1>2. {c.id : c \in changes \cup {Change(p)}} = {c.id : c \in changes} \cup {target[p]}
  BY <1>1
<1>. QED  BY <1>2 DEF Known

\* Every step of a request keeps what it will insert unknown.
LEMMA FreshRequest ==
    ASSUME TypeOK, Shape, FreshInv, NEW p \in Requests, AnyStep(p)
    PROVE  FreshInv'
<1>0. /\ Own(p) /\ Known \subseteq Known' /\ Known' \subseteq Known \cup {target[p]}
      /\ \A q \in Requests : cur[q] \in Nat
      /\ target[p] \in Known \cup {NoId, <<p, cur[p]>>}
      /\ Entries \subseteq Nat \ {0}
  <2>1. Own(p) /\ target[p] \in Known \cup {NoId, <<p, cur[p]>>} /\ \A q \in Requests : cur[q] \in Nat
    BY DEF Shape, FreshInv, Own
  <2>2. changes' = changes \cup {Change(p)} \/ UNCHANGED changes
    BY OthersKeep DEF Publishes
  <2>. QED  BY <2>1, <2>2, KnownNext, EntryFacts
<1>1. \A id \in Ids : confs'[id] # Absent => id \in Known'
  <2>1. CASE Publishes(p)
    BY <1>0, <2>1, KnownNext DEF Publishes, FreshInv
  <2>2. CASE UNCHANGED confs
    BY <1>0, <2>2 DEF FreshInv
  <2>. QED  BY <2>1, <2>2, OthersKeep
<1>2. \A q \in Requests : target'[q] \in Known' \cup {NoId, <<q, cur'[q]>>}
  <2>1. ASSUME NEW q \in Requests \ {p} PROVE target'[q] \in Known' \cup {NoId, <<q, cur'[q]>>}
    <3>1. target'[q] = target[q] /\ cur'[q] = cur[q]
      BY OthersKeep
    <3>. QED  BY <1>0, <3>1 DEF FreshInv
  <2>2. target'[p] \in Known' \cup {NoId, <<p, cur'[p]>>}
    <3>1. \/ target'[p] \in Known \cup {NoId, <<p, cur'[p]>>}
          \/ target'[p] = target[p] /\ cur'[p] = cur[p]
          \/ target'[p] \in Ids /\ confs[target'[p]] # Absent
      BY Progress
    <3>2. target'[p] \in Ids /\ confs[target'[p]] # Absent => target'[p] \in Known
      BY DEF FreshInv
    <3>. QED  BY <1>0, <3>1, <3>2
  <2>. QED  BY <2>1, <2>2
<1>3. ASSUME NEW q \in Requests, NEW i \in Entries,
             pc'[q] \notin {"attach", "audit", "done"}, i >= cur'[q]
      PROVE  <<q, i>> \notin Known'
  <2>0. <<q, i>> # NoId
    BY EntryFacts
  <2>1. CASE q # p
    <3>1. pc'[q] = pc[q] /\ cur'[q] = cur[q]
      BY <2>1, OthersKeep
    <3>2. <<q, i>> \notin Known
      BY <1>3, <3>1 DEF FreshInv
    <3>. QED  BY <1>0, <2>0, <2>1, <3>2
  <2>2. CASE q = p
    <3>1. pc[p] \notin {"attach", "audit", "done"}
      BY <1>3, <2>2, Progress
    <3>2. \A j \in Entries : j >= cur[p] => <<p, j>> \notin Known
      BY <3>1 DEF FreshInv
    <3>3. CASE Commit(p)
      <4>1. cur'[p] = cur[p] + 1
        BY <1>3, <2>2, <3>3, CommitEffect
      <4>2. i >= cur[p] /\ i # cur[p]
        BY <1>0, <1>3, <2>2, <4>1
      <4>3. <<p, i>> \notin Known /\ <<p, i>> # <<p, cur[p]>>
        BY <3>2, <4>2
      <4>. QED  BY <1>0, <2>0, <2>2, <4>3
    <3>4. CASE ~Commit(p)
      <4>1. pc'[p] # "done" /\ cur'[p] = cur[p]
        BY <1>3, <2>2, <3>4, Progress
      <4>2. ~CommitUnheard(p)
        <5>1. ASSUME CommitUnheard(p) PROVE pc'[p] = "done"
          BY <5>1, FinishEffect DEF CommitUnheard, Shape
        <5>. QED  BY <4>1, <5>1
      <4>3. UNCHANGED changes
        BY <3>4, <4>2, OthersKeep
      <4>. QED  BY <1>3, <2>2, <3>2, <4>1, <4>3, KnownNext
    <3>. QED  BY <3>3, <3>4
  <2>. QED  BY <2>1, <2>2
<1>. QED  BY <1>1, <1>2, <1>3 DEF FreshInv

-----------------------------------------------------------------------------
(* The unique index.                                                       *)

\* A transaction that writes a row nobody else has written, with a key that is
\* in no other row.
LEMMA KeysWrite ==
    ASSUME TypeOK, Shape, KeyInv, NEW p \in Requests, NEW id \in Ids, NEW row,
           UNCHANGED confs,
           DOMAIN priv'[p] = {id}, priv'[p][id] = row,
           \A q \in Requests \ {p} : priv'[q] = priv[q],
           \A q \in Requests \ {p} : id \notin DOMAIN priv[q],
           \A id2 \in Ids \ {id} : KeyOf(row) \cap KeyOf(confs[id2]) = {},
           \A q \in Requests \ {p} : \A id2 \in DOMAIN priv[q] :
                KeyOf(row) \cap KeyOf(priv[q][id2]) = {}
    PROVE  KeyInv'
<1>1. UniqueKeys'
  BY DEF KeyInv, UniqueKeys, KeyOf
<1>2. ASSUME NEW q \in Requests, NEW i \in DOMAIN priv'[q], NEW id2 \in Ids, i # id2
      PROVE  KeyOf(priv'[q][i]) \cap KeyOf(confs'[id2]) = {}
  <2>1. CASE q = p
    BY <1>2, <2>1
  <2>2. CASE q # p
    <3>1. priv'[q] = priv[q]
      BY <2>2
    <3>. QED  BY <1>2, <3>1 DEF KeyInv
  <2>. QED  BY <2>1, <2>2
<1>3. ASSUME NEW q \in Requests, NEW r \in Requests, q # r,
             NEW i \in DOMAIN priv'[q], NEW i2 \in DOMAIN priv'[r]
      PROVE  i # i2 /\ KeyOf(priv'[q][i]) \cap KeyOf(priv'[r][i2]) = {}
  <2>1. CASE q = p
    <3>1. priv'[r] = priv[r] /\ i = id
      BY <1>3, <2>1
    <3>. QED  BY <1>3, <2>1, <3>1
  <2>2. CASE r = p
    <3>1. priv'[q] = priv[q] /\ i2 = id
      BY <1>3, <2>2
    <3>. QED  BY <1>3, <2>2, <3>1
  <2>3. CASE q # p /\ r # p
    <3>1. priv'[q] = priv[q] /\ priv'[r] = priv[r]
      BY <2>3
    <3>. QED  BY <1>3, <3>1 DEF KeyInv
  <2>. QED  BY <2>1, <2>2, <2>3
<1>. QED  BY <1>1, <1>2, <1>3 DEF KeyInv, KeyOf

\* A transaction that ends, committed or not.
LEMMA KeysEnd ==
    ASSUME TypeOK, Shape, KeyInv, NEW p \in Requests, Publishes(p) \/ UNCHANGED confs,
           DOMAIN priv'[p] = {},
           \A q \in Requests \ {p} : priv'[q] = priv[q]
    PROVE  KeyInv'
<1>1. ASSUME NEW q \in Requests, NEW i \in DOMAIN priv'[q]
      PROVE  q # p /\ priv'[q] = priv[q] /\ i \in DOMAIN priv[q]
  BY <1>1
<1>2. ASSUME NEW q \in Requests, NEW r \in Requests, q # r,
             NEW i \in DOMAIN priv'[q], NEW i2 \in DOMAIN priv'[r]
      PROVE  i # i2 /\ KeyOf(priv'[q][i]) \cap KeyOf(priv'[r][i2]) = {}
  BY <1>1, <1>2 DEF KeyInv
<1>3. CASE Publishes(p)
  <2>1. /\ target[p] \in Ids /\ target[p] \in DOMAIN priv[p]
        /\ confs'[target[p]] = priv[p][target[p]]
        /\ \A id \in Ids \ {target[p]} : confs'[id] = confs[id]
    BY <1>3, CommitFacts DEF Publishes
  <2>2. ASSUME NEW id \in Ids, NEW id2 \in Ids, id # id2
        PROVE  KeyOf(confs'[id]) \cap KeyOf(confs'[id2]) = {}
    <3>1. CASE id = target[p]
      <4>1. confs'[id] = priv[p][target[p]] /\ confs'[id2] = confs[id2]
        BY <2>1, <2>2, <3>1
      <4>. QED  BY <2>1, <2>2, <3>1, <4>1 DEF KeyInv
    <3>2. CASE id2 = target[p]
      BY <2>1, <2>2, <3>2 DEF KeyInv
    <3>3. CASE id # target[p] /\ id2 # target[p]
      BY <2>1, <2>2, <3>3 DEF KeyInv, UniqueKeys
    <3>. QED  BY <3>1, <3>2, <3>3
  <2>3. ASSUME NEW q \in Requests, NEW i \in DOMAIN priv'[q], NEW id2 \in Ids, i # id2
        PROVE  KeyOf(priv'[q][i]) \cap KeyOf(confs'[id2]) = {}
    <3>1. q # p /\ priv'[q] = priv[q] /\ i \in DOMAIN priv[q]
      BY <1>1, <2>3
    <3>2. CASE id2 = target[p]
      BY <2>1, <3>1, <3>2 DEF KeyInv
    <3>3. CASE id2 # target[p]
      BY <2>1, <2>3, <3>1, <3>3 DEF KeyInv
    <3>. QED  BY <3>2, <3>3
  <2>. QED  BY <1>2, <2>2, <2>3 DEF KeyInv, UniqueKeys, KeyOf
<1>4. CASE UNCHANGED confs
  <2>1. ASSUME NEW q \in Requests, NEW i \in DOMAIN priv'[q], NEW id2 \in Ids, i # id2
        PROVE  KeyOf(priv'[q][i]) \cap KeyOf(confs[id2]) = {}
    BY <1>1, <2>1 DEF KeyInv
  <2>. QED  BY <1>2, <1>4, <2>1 DEF KeyInv, UniqueKeys, KeyOf
<1>. QED  BY <1>3, <1>4

\* The conference that a request inserts is in nobody else's transaction.
LEMMA InsertedIsOwn ==
    ASSUME TypeOK, Shape, FreshInv, NEW p \in Requests, pc[p] = "insertRow",
           NEW q \in Requests \ {p}
    PROVE  target[p] \notin DOMAIN priv[q]
<1>1. target[p] = <<p, cur[p]>> /\ cur[p] \in Entries
  BY TypeParts, OwnFacts DEF OwnType, Own
<1>2. target[p] \notin Known /\ target[p] # NoId
  <2>1. cur[p] \in Nat /\ cur[p] >= cur[p]
    <3>1. cur[p] \in Nat
      BY DEF Shape, Own
    <3>. QED  BY <3>1
  <2>. QED  BY <1>1, <2>1, EntryFacts DEF FreshInv
<1>3. DOMAIN priv[q] \subseteq {target[q]} /\ target[q] \in Known \cup {NoId, <<q, cur[q]>>}
  BY DEF Shape, Own, FreshInv
<1>. QED  BY <1>1, <1>2, <1>3

\* Every step of a request keeps the keys apart.
LEMMA KeysRequest ==
    ASSUME TypeOK, Shape, FreshInv, KeyInv, NEW p \in Requests, AnyStep(p)
    PROVE  KeyInv'
<1>0. /\ Domains /\ DOMAIN priv = Requests /\ Own(p)
      /\ \A q \in Requests \ {p} : priv'[q] = priv[q]
      /\ \A id \in Ids : confs[id] \in Row \cup {Absent}
  BY OthersKeep DEF Shape, Domains, TypeOK
<1>1. CASE UNCHANGED <<confs, priv>>
  BY <1>1 DEF KeyInv, UniqueKeys, KeyOf
<1>2. ASSUME \E code : Finish(p, code) PROVE DOMAIN priv'[p] = {}
  BY <1>0, <1>2, FinishEffect
<1>3. CASE ImportEnds(p) \/ InsertAuditEntry(p) \/ Errs(p)
  <2>1. (\E code : Finish(p, code)) /\ UNCHANGED confs
    BY <1>3 DEF ImportEnds, InsertAuditEntry, Errs, Fail
  <2>. QED  BY <1>0, <1>2, <2>1, KeysEnd
<1>4. CASE Commit(p) \/ CommitUnheard(p)
  <2>1. Publishes(p)
    BY <1>4, PublishEffect DEF Commit, CommitUnheard
  <2>2. DOMAIN priv'[p] = {}
    BY <1>2, <1>4, CommitEffect DEF CommitUnheard
  <2>. QED  BY <1>0, <2>1, <2>2, KeysEnd
<1>5. CASE Deletes(p) \/ Archives(p) \/ LocksForUpdate(p)
  <2>1. /\ pc[p] = "lockRow" /\ target[p] \in Ids /\ DOMAIN priv[p] = {} /\ UNCHANGED confs
        /\ confs[target[p]] \in Row
        /\ \A q \in Requests \ {p} : target[p] \notin DOMAIN priv[q]
    BY <1>0, <1>5 DEF Deletes, Archives, LocksForUpdate, GetsRow, Own, Writing, Holders
  <2>2. PICK row : Write(p, target[p], row) /\ KeyOf(row) \subseteq KeyOf(confs[target[p]])
    <3>1. CASE Deletes(p)
      BY <3>1 DEF Deletes, KeyOf
    <3>2. CASE Archives(p)
      <4>. DEFINE new == [confs[target[p]] EXCEPT !.archived = (op[p] = "archive")]
      <4>1. new \in Row /\ new.key = confs[target[p]].key
        BY <2>1 DEF Row
      <4>2. KeyOf(new) = KeyOf(confs[target[p]])
        BY <2>1, <4>1, RowFacts
      <4>. QED  BY <3>2, <4>2 DEF Archives
    <3>3. CASE LocksForUpdate(p)
      BY <3>3 DEF LocksForUpdate
    <3>. QED  BY <1>5, <3>1, <3>2, <3>3
  <2>3. DOMAIN priv'[p] = {target[p]} /\ priv'[p][target[p]] = row
    BY <1>0, <2>1, <2>2, WriteEffect
  <2>4. \A id2 \in Ids \ {target[p]} : KeyOf(row) \cap KeyOf(confs[id2]) = {}
    BY <2>1, <2>2 DEF KeyInv, UniqueKeys
  <2>5. \A q \in Requests \ {p} : \A id2 \in DOMAIN priv[q] :
            KeyOf(row) \cap KeyOf(priv[q][id2]) = {}
    <3>1. \A q \in Requests \ {p} : \A id2 \in DOMAIN priv[q] :
            KeyOf(priv[q][id2]) \cap KeyOf(confs[target[p]]) = {}
      BY <2>1 DEF KeyInv
    <3>. QED  BY <2>2, <3>1
  <2>. QED  BY <1>0, <2>1, <2>3, <2>4, <2>5, KeysWrite
<1>6. CASE WriteRow(p)
  <2>. DEFINE k == In(p).key  row == NewRow(p, View(p, target[p]))
  <2>1. /\ pc[p] \in {"insertRow", "updateRow"} /\ target[p] \in Ids
        /\ DOMAIN priv[p] \subseteq {target[p]} /\ UNCHANGED confs
        /\ pc[p] = "updateRow" => target[p] \in DOMAIN priv[p]
    BY <1>0, <1>6 DEF WriteRow, Own, Writing
  <2>2. KeyHolders(p, k) = {} /\ ~Taken(p, k) /\ Write(p, target[p], row)
    BY <1>6 DEF WriteRow, WaitsFor
  <2>3. KeyOf(row) \subseteq {k}
    BY DEF KeyOf, NewRow
  <2>4. DOMAIN priv'[p] = {target[p]} /\ priv'[p][target[p]] = row
    BY <1>0, <2>1, <2>2, WriteEffect
  <2>5. \A q \in Requests \ {p} : target[p] \notin DOMAIN priv[q]
    BY <2>1, InsertedIsOwn DEF KeyInv
  <2>6. \A id2 \in Ids \ {target[p]} : KeyOf(row) \cap KeyOf(confs[id2]) = {}
    BY <2>1, <2>2, <2>3 DEF Taken, View
  <2>7. \A q \in Requests \ {p} : \A id2 \in DOMAIN priv[q] :
            KeyOf(row) \cap KeyOf(priv[q][id2]) = {}
    BY <2>2, <2>3 DEF KeyHolders
  <2>. HIDE DEF row
  <2>. QED  BY <1>0, <2>1, <2>4, <2>5, <2>6, <2>7, KeysWrite
<1>7. CASE UpsertTag(p)
  <2>. DEFINE old == priv[p][target[p]]
              row == [old EXCEPT !.tags = @ \cup {Head(slugs[p])}]
  <2>1. /\ pc[p] = "setTags" /\ DOMAIN priv[p] = {target[p]} /\ old \in Row
        /\ target[p] \in Ids /\ slugs[p] \in Seq(Tags) /\ slugs[p] # <<>> /\ UNCHANGED confs
    BY <1>0, <1>7 DEF UpsertTag, Own, Writing
  <2>2. Head(slugs[p]) \in Tags /\ View(p, target[p]) = old
    BY <2>1 DEF View
  <2>3. Write(p, target[p], row)
    BY <1>7, <2>2 DEF UpsertTag
  <2>4. DOMAIN priv'[p] = {target[p]} /\ priv'[p][target[p]] = row
    BY <1>0, <2>1, <2>3, WriteEffect
  <2>5. row \in Row /\ row.key = old.key
    BY <2>1, <2>2 DEF Row
  <2>6. KeyOf(row) = KeyOf(old)
    BY <2>1, <2>5, RowFacts
  <2>7. \A q \in Requests \ {p} : target[p] \notin DOMAIN priv[q]
    BY <2>1 DEF KeyInv
  <2>. HIDE DEF row
  <2>8. \A id2 \in Ids \ {target[p]} : KeyOf(row) \cap KeyOf(confs[id2]) = {}
    <3>1. target[p] \in DOMAIN priv[p]
      BY <2>1
    <3>2. \A id2 \in Ids \ {target[p]} : KeyOf(old) \cap KeyOf(confs[id2]) = {}
      BY <3>1 DEF KeyInv
    <3>. QED  BY <2>6, <3>2
  <2>9. \A q \in Requests \ {p} : \A id2 \in DOMAIN priv[q] :
            KeyOf(row) \cap KeyOf(priv[q][id2]) = {}
    <3>1. target[p] \in DOMAIN priv[p]
      BY <2>1
    <3>2. \A q \in Requests \ {p} : \A id2 \in DOMAIN priv[q] :
            KeyOf(old) \cap KeyOf(priv[q][id2]) = {}
      BY <3>1 DEF KeyInv
    <3>. QED  BY <2>6, <3>2
  <2>. QED  BY <1>0, <2>1, <2>4, <2>7, <2>8, <2>9, KeysWrite
<1>8. CASE Arrive(p)
  BY <1>0, <1>1, <1>8, ArrivalEffect
<1>9. CASE TakesEntry(p) \/ Lookup(p) \/ LookupFails(p) \/ TagsSet(p) \/ Attach(p)
  BY <1>1, <1>9 DEF TakesEntry, Lookup, LookupFails, TagsSet, Attach, txVars
<1>. QED  BY <1>0, <1>3, <1>4, <1>5, <1>6, <1>7, <1>8, <1>9, StepCases DEF AnyStep

-----------------------------------------------------------------------------
(* What an import has looked up.                                           *)

\* The part of LookupInv that is about one request.
OwnLookup(p) ==
    op[p] = "import" /\ ~overtaken[p] /\ faults = 0 =>
        /\ pc[p] = "insertRow" => \A id \in Ids : In(p).key \notin KeyOf(confs[id])
        /\ pc[p] \in {"lockRow", "updateRow"} => In(p).key \in KeyOf(confs[target[p]])

OwnStale(p) == report[p].error \in {"404", "409"} => overtaken[p] \/ faults > 0

\* A missing row or a taken key contradicts the lookup.
LEMMA ErrorNeedsRival ==
    ASSUME TypeOK, Shape, KeyInv, NEW p \in Requests, OwnLookup(p), op[p] = "import",
           \/ pc[p] = "lockRow" /\ confs[target[p]] = Absent
           \/ pc[p] \in {"insertRow", "updateRow"} /\ Taken(p, In(p).key)
    PROVE  overtaken[p] \/ faults > 0
<1>0. SUFFICES ASSUME ~overtaken[p], faults = 0 PROVE FALSE
  BY InputDomain DEF TypeOK
<1>1. CASE pc[p] = "lockRow" /\ confs[target[p]] = Absent
  BY <1>0, <1>1 DEF OwnLookup, KeyOf
<1>2. CASE pc[p] \in {"insertRow", "updateRow"} /\ Taken(p, In(p).key)
  <2>1. PICK id \in Ids \ {target[p]} : In(p).key \in KeyOf(View(p, id))
    BY <1>2 DEF Taken
  <2>2. View(p, id) = confs[id] /\ target[p] \in Ids
    <3>1. DOMAIN priv[p] \subseteq {target[p]} /\ target[p] \in Ids
      BY <1>2 DEF Shape, Own, Writing
    <3>. QED  BY <2>1, <3>1 DEF View
  <2>3. CASE pc[p] = "insertRow"
    BY <1>0, <2>1, <2>2, <2>3 DEF OwnLookup
  <2>4. CASE pc[p] = "updateRow"
    <3>1. In(p).key \in KeyOf(confs[target[p]])
      BY <1>0, <2>4 DEF OwnLookup
    <3>2. KeyOf(confs[id]) \cap KeyOf(confs[target[p]]) = {}
      BY <2>1, <2>2 DEF KeyInv, UniqueKeys
    <3>. QED  BY <2>1, <2>2, <3>1, <3>2
  <2>. QED  BY <1>2, <2>3, <2>4
<1>. QED  BY <1>1, <1>2

\* Every step of a request keeps the lookups true, or marks them overtaken.
LEMMA LookupRequest ==
    ASSUME TypeOK, Shape, KeyInv, LookupInv, NEW p \in Requests, AnyStep(p)
    PROVE  LookupInv'
<1>0. /\ Domains /\ Own(p) /\ \A q \in Requests : OwnLookup(q) /\ OwnStale(q)
      /\ faults \in Nat /\ faults' \in {faults, faults + 1}
      /\ report[p].error = "none" /\ report[p] \in Reports
      /\ Publishes(p) \/ UNCHANGED confs
  <2>1. pc[p] # "done"
    BY Progress
  <2>2. \A q \in Requests : OwnLookup(q) /\ OwnStale(q)
    BY DEF LookupInv, StaleLookupNeedsRival, OwnLookup, OwnStale
  <2>3. Domains /\ Own(p) /\ report[p].error = "none"
    BY <2>1 DEF Shape, Own
  <2>4. report[p] \in Reports /\ faults \in Nat
    BY InputDomain DEF TypeOK, Reports
  <2>5. faults' \in {faults, faults + 1} /\ (Publishes(p) \/ UNCHANGED confs)
    BY OthersKeep
  <2>. QED  BY <2>2, <2>3, <2>4, <2>5
<1>1. ASSUME NEW q \in Requests \ {p} PROVE OwnLookup(q)' /\ OwnStale(q)'
  <2>1. /\ pc'[q] = pc[q] /\ op'[q] = op[q] /\ entries'[q] = entries[q] /\ cur'[q] = cur[q]
        /\ target'[q] = target[q] /\ report'[q] = report[q]
    BY OthersKeep
  <2>2. In(q)' = In(q)
    BY <2>1 DEF In
  <2>3. CASE Publishes(p)
    <3>1. overtaken[q] => overtaken'[q]
      BY <2>3 DEF Publishes
    <3>2. OwnStale(q)'
      BY <1>0, <2>1, <3>1 DEF OwnStale
    <3>3. OwnLookup(q)'
      BY <2>1, <2>3 DEF OwnLookup, Publishes
    <3>. QED  BY <3>2, <3>3
  <2>4. CASE UNCHANGED confs /\ overtaken'[q] = overtaken[q]
    <3>1. OwnStale(q)'
      BY <1>0, <2>1, <2>4 DEF OwnStale
    <3>2. faults' = 0 => faults = 0
      BY <1>0
    <3>3. OwnLookup(q)'
      BY <1>0, <2>1, <2>2, <2>4, <3>2 DEF OwnLookup, KeyOf
    <3>. QED  BY <3>1, <3>3
  <2>. QED  BY <2>3, <2>4, OthersKeep
<1>2. OwnStale(p)'
  <2>1. CASE Errs(p)
    <3>1. PICK code \in Codes \ {"none"}, shown \in Codes \ {"none"} : ErrsWith(p, code, shown)
      BY <1>0, <2>1, ErrsEffect
    <3>2. overtaken' = overtaken
      BY <3>1 DEF ErrsWith
    <3>3. CASE op[p] # "import"
      BY <1>0, <3>1, <3>3 DEF ErrsWith, OwnStale
    <3>4. CASE op[p] = "import"
      <4>1. report'[p].error = code
        BY <1>0, <3>1, <3>4 DEF ErrsWith, Reports
      <4>2. code \in {"404", "409"} => overtaken[p] \/ faults > 0
        BY <1>0, <3>1, <3>4, ErrorNeedsRival DEF ErrsWith
      <4>. QED  BY <1>0, <3>2, <4>1, <4>2 DEF OwnStale
    <3>. QED  BY <3>3, <3>4
  <2>2. CASE CommitUnheard(p)
    <3>1. report'[p].error \in {"none", "500"}
      BY <1>0, <2>2 DEF CommitUnheard, Domains, Reports
    <3>. QED  BY <3>1 DEF OwnStale
  <2>3. CASE Commit(p)
    <3>1. Counted(p).error = "none"
      BY <1>0 DEF Counted, Reports
    <3>2. report'[p].error = "none"
      BY <1>0, <2>3, <3>1, CommitEffect
    <3>. QED  BY <3>2 DEF OwnStale
  <2>4. CASE ~Errs(p) /\ ~CommitUnheard(p) /\ ~Commit(p)
    <3>1. report' = report
      <4>1. CASE pc'[p] # "done"
        BY <2>4, <4>1, Progress
      <4>2. CASE pc'[p] = "done"
        <5>1. Arrive(p) \/ ImportEnds(p) \/ InsertAuditEntry(p)
          BY <2>4, <4>2, Origins
        <5>. QED  BY <1>0, <5>1, ArrivalEffect DEF ImportEnds, InsertAuditEntry
      <4>. QED  BY <4>1, <4>2
    <3>. QED  BY <1>0, <3>1 DEF OwnStale
  <2>. QED  BY <2>1, <2>2, <2>3, <2>4
<1>3. OwnLookup(p)'
  <2>1. CASE Arrive(p)
    <3>1. op'[p] = "import" => pc'[p] \in {"entry", "done"}
      BY <1>0, <2>1 DEF Arrive, CreateConference, UpdateConference, ById, ImportConferences,
                        ImportUnparsable, Begin, Domains
    <3>. QED  BY <3>1 DEF OwnLookup
  <2>2. CASE LookupFails(p)
    <3>1. faults' # 0
      BY <1>0, <2>2 DEF LookupFails
    <3>. QED  BY <3>1 DEF OwnLookup
  <2>3. CASE Lookup(p)
    <3>. DEFINE hits == {id \in Ids : In(p).key \in KeyOf(confs[id])}
    <3>1. /\ target'[p] = IF hits = {} THEN <<p, cur[p]>> ELSE CHOOSE id \in hits : TRUE
          /\ pc'[p] = IF hits = {} THEN "insertRow" ELSE "lockRow"
          /\ UNCHANGED <<confs, entries, cur>>
      BY <1>0, <2>3 DEF Lookup, Goto, Domains
    <3>2. hits # {} => (CHOOSE id \in hits : TRUE) \in hits
      OBVIOUS
    <3>3. In(p)' = In(p)
      BY <3>1 DEF In
    <3>4. hits = {} => \A id \in Ids : In(p).key \notin KeyOf(confs[id])
      OBVIOUS
    <3>5. \A id \in hits : In(p).key \in KeyOf(confs[id])
      OBVIOUS
    <3>. HIDE DEF hits
    <3>6. CASE hits = {}
      <4>1. pc'[p] = "insertRow" /\ \A id \in Ids : In(p).key' \notin KeyOf(confs'[id])
        BY <3>1, <3>3, <3>4, <3>6
      <4>. QED  BY <4>1 DEF OwnLookup, KeyOf
    <3>7. CASE hits # {}
      <4>1. pc'[p] = "lockRow" /\ target'[p] \in hits
        BY <3>1, <3>2, <3>7
      <4>2. In(p).key' \in KeyOf(confs'[target'[p]])
        BY <3>1, <3>3, <3>5, <4>1
      <4>. QED  BY <4>1, <4>2 DEF OwnLookup, KeyOf
    <3>. QED  BY <3>6, <3>7
  <2>4. CASE LocksForUpdate(p)
    <3>1. /\ pc[p] = "lockRow" /\ pc'[p] = "updateRow"
          /\ UNCHANGED <<confs, op, entries, cur, target, overtaken, faults>>
      BY <1>0, <2>4 DEF LocksForUpdate, GetsRow, ownVars, Goto, Domains
    <3>2. In(p)' = In(p)
      BY <3>1 DEF In
    <3>. QED  BY <1>0, <3>1, <3>2 DEF OwnLookup, KeyOf
  <2>5. CASE pc'[p] \notin {"insertRow", "lockRow", "updateRow"}
    BY <2>5 DEF OwnLookup
  <2>. QED  BY <2>1, <2>2, <2>3, <2>4, <2>5, Origins
<1>4. \A q \in Requests : OwnLookup(q)' /\ OwnStale(q)'
  BY <1>1, <1>2, <1>3
<1>. QED  BY <1>4 DEF LookupInv, StaleLookupNeedsRival, OwnLookup, OwnStale

\* The state a request or a fault meets: the layers so far, together.
IndexInv == FreshInv /\ KeyInv /\ LookupInv

\* At the start there is one conference at most, and nobody has looked.
LEMMA IndexInit == Init => IndexInv
<1>. SUFFICES ASSUME Init PROVE IndexInv
  OBVIOUS
<1>1. PICK row : confs = [id \in Ids |-> IF id = Setup THEN row ELSE Absent]
  BY DEF Init
<1>2. Known = {Setup}
  BY DEF Init, Known
<1>3. \A id \in Ids : id # Setup => confs[id] = Absent /\ KeyOf(confs[id]) = {}
  BY <1>1 DEF KeyOf
<1>4. FreshInv
  <2>1. \A p \in Requests, i \in Entries : <<p, i>> \notin Known
    BY <1>2, EntryFacts
  <2>. QED  BY <1>2, <1>3, <2>1 DEF FreshInv, Init
<1>5. KeyInv
  <2>1. \A p \in Requests : DOMAIN priv[p] = {}
    BY NothingIsEmpty DEF Init
  <2>2. UniqueKeys
    BY <1>3 DEF UniqueKeys
  <2>. QED  BY <2>1, <2>2 DEF KeyInv
<1>6. LookupInv
  BY DEF Init, LookupInv, StaleLookupNeedsRival
<1>. QED  BY <1>4, <1>5, <1>6 DEF IndexInv

\* The three layers hold in every state.
LEMMA IndexAlways == Spec => []IndexInv
<1>1. TypeOK /\ Shape /\ IndexInv /\ [Next]_vars => IndexInv'
  <2>. SUFFICES ASSUME TypeOK, Shape, IndexInv, [Next]_vars PROVE IndexInv'
    OBVIOUS
  <2>1. CASE UNCHANGED vars
    <3>1. UNCHANGED <<confs, priv, op, pc, entries, cur, target, report, changes, overtaken, faults>>
      BY <2>1 DEF vars
    <3>2. FreshInv' /\ KeyInv'
      BY <3>1 DEF IndexInv, FreshInv, Known, KeyInv, UniqueKeys, KeyOf
    <3>3. LookupInv'
      BY <3>1 DEF IndexInv, LookupInv, StaleLookupNeedsRival, In, KeyOf
    <3>. QED  BY <3>2, <3>3 DEF IndexInv
  <2>2. CASE \E p \in Requests : AnyStep(p)
    BY <2>2, FreshRequest, KeysRequest, LookupRequest DEF IndexInv
  <2>. QED  BY <2>1, <2>2, NextCases
<1>. QED  BY <1>1, IndexInit, TypesAlways, PTL DEF Spec

\* No two committed conferences ever have the same acronym and year, although
\* inserts, updates that change the acronym, deletions and imports interleave
\* statement by statement: uq_conferences_acronym_year with the waits for open
\* transactions is enough.
THEOREM UniqueKeysAlways == Spec => []UniqueKeys
BY IndexAlways, PTL DEF IndexInv, KeyInv

\* An import that reports a conflict, or a row gone since its lookup, was
\* overtaken by another request's commit or hit by a fault: it never trips over
\* its own entries, not even when a document names a conference twice.
THEOREM StaleLookupNeedsRivalAlways == Spec => []StaleLookupNeedsRival
BY IndexAlways, PTL DEF IndexInv, LookupInv

-----------------------------------------------------------------------------
(* The audit log.                                                          *)

\* What a step adds to the changes of a request.
LEMMA ChangesNext ==
    ASSUME TypeOK, Shape, NEW p \in Requests, AnyStep(p)
    PROVE  /\ \A q \in Requests \ {p} : ChangesOf(q)' = ChangesOf(q) /\ Change(q)' = Change(q)
           /\ UNCHANGED changes => ChangesOf(p)' = ChangesOf(p)
           /\ Publishes(p) => ChangesOf(p)' = ChangesOf(p) \cup {Change(p)}
<1>1. Change(p).by = p
  BY DEF Change
<1>2. ASSUME NEW q \in Requests \ {p} PROVE Change(q)' = Change(q)
  BY OthersKeep DEF Change, Action
<1>3. ASSUME NEW q \in Requests \ {p} PROVE ChangesOf(q)' = ChangesOf(q)
  <2>1. changes' = changes \cup {Change(p)} \/ UNCHANGED changes
    BY OthersKeep DEF Publishes
  <2>. QED  BY <1>1, <2>1 DEF ChangesOf
<1>4. UNCHANGED changes => ChangesOf(p)' = ChangesOf(p)
  BY DEF ChangesOf
<1>5. Publishes(p) => ChangesOf(p)' = ChangesOf(p) \cup {Change(p)}
  BY <1>1 DEF ChangesOf, Publishes
<1>. QED  BY <1>2, <1>3, <1>4, <1>5

\* The part of AuditInv that is about one request.
OwnAudit(p) ==
    op[p] # "import" =>
        /\ pc[p] \in {"attach", "audit"} => ChangesOf(p) \subseteq {Change(p)}
        /\ pc[p] \notin {"attach", "audit", "done"} => ChangesOf(p) = {}

\* The changes whose audit row is lost.
Lost == {c \in changes \ audit : op[c.by] # "import" /\ pc[c.by] = "done"}

\* A step that does not commit changes no conference.
LEMMA OnlyCommits ==
    ASSUME TypeOK, Shape, NEW p \in Requests, AnyStep(p)
    PROVE  /\ ~Commit(p) /\ ~CommitUnheard(p) => ChangesOf(p)' = ChangesOf(p)
           /\ pc'[p] # "done" => ~CommitUnheard(p)
           /\ Commit(p) => pc'[p] # "done" /\ ChangesOf(p)' = ChangesOf(p) \cup {Change(p)}
           /\ CommitUnheard(p) => /\ pc'[p] = "done" /\ pc[p] = "commit" /\ faults' = faults + 1
                                  /\ op' = op
                                  /\ ChangesOf(p)' = ChangesOf(p) \cup {Change(p)}
<1>1. ~Commit(p) /\ ~CommitUnheard(p) => UNCHANGED changes
  BY OthersKeep
<1>2. CommitUnheard(p) => /\ pc'[p] = "done" /\ pc[p] = "commit" /\ faults' = faults + 1
                          /\ op' = op /\ Publishes(p)
  BY FinishEffect, PublishEffect DEF CommitUnheard, Shape
<1>3. Commit(p) => pc'[p] # "done" /\ Publishes(p)
  BY CommitEffect
<1>. QED  BY <1>1, <1>2, <1>3, ChangesNext

\* Every step of a request leaves it with at most one change.
LEMMA OwnAuditRequest ==
    ASSUME TypeOK, Shape, AuditInv, NEW p \in Requests, AnyStep(p)
    PROVE  \A q \in Requests : OwnAudit(q)'
<1>0. Domains /\ Own(p) /\ \A q \in Requests : OwnAudit(q)
  BY DEF AuditInv, OwnAudit, Shape
<1>1. ASSUME NEW q \in Requests \ {p} PROVE OwnAudit(q)'
  BY <1>0, ChangesNext, OthersKeep DEF OwnAudit
<1>2. ASSUME op'[p] # "import" PROVE OwnAudit(p)'
  <2>1. op[p] # "import"
    BY <1>0, <1>2, Progress DEF Own, HandlersAt
  <2>2. CASE pc'[p] \in {"attach", "audit"}
    <3>1. CASE Commit(p)
      <4>1. pc[p] = "commit" /\ UNCHANGED <<op, cur, target>>
        BY <2>1, <3>1, CommitEffect
      <4>2. Change(p)' = Change(p)
        BY <4>1 DEF Change, Action
      <4>3. ChangesOf(p) = {}
        BY <1>0, <2>1, <4>1 DEF OwnAudit
      <4>. QED  BY <2>2, <3>1, <4>2, <4>3, OnlyCommits DEF OwnAudit
    <3>2. CASE Attach(p)
      <4>1. pc[p] = "attach" /\ UNCHANGED <<op, cur, target, changes>>
        BY <3>2 DEF Attach, txVars
      <4>2. Change(p)' = Change(p)
        BY <4>1 DEF Change, Action
      <4>3. ChangesOf(p)' = ChangesOf(p)
        BY <4>1, ChangesNext
      <4>. QED  BY <1>0, <2>1, <2>2, <4>1, <4>2, <4>3 DEF OwnAudit
    <3>. QED  BY <2>2, <3>1, <3>2, Origins
  <2>3. CASE pc'[p] \notin {"attach", "audit", "done"}
    <3>1. pc[p] \notin {"attach", "audit", "done"}
      BY <2>3, Progress
    <3>2. ~Commit(p) /\ ~CommitUnheard(p)
      BY <2>1, <2>3, CommitEffect, OnlyCommits
    <3>. QED  BY <1>0, <2>1, <2>3, <3>1, <3>2, OnlyCommits DEF OwnAudit
  <2>4. CASE pc'[p] = "done"
    BY <2>4 DEF OwnAudit
  <2>. QED  BY <2>2, <2>3, <2>4
<1>3. OwnAudit(p)'
  BY <1>2 DEF OwnAudit
<1>. QED  BY <1>1, <1>3

\* The log only grows.
LEMMA AuditGrows ==
    ASSUME TypeOK, Shape, NEW p \in Requests, AnyStep(p)
    PROVE  audit \subseteq audit'
<1>1. CASE pc[p] # "audit"
  BY <1>1, OthersKeep
<1>2. CASE pc[p] = "audit"
  <2>1. InsertAuditEntry(p) \/ Errs(p)
    BY <1>2, StepCases, ArrivalEffect
       DEF AnyStep, Shape, TakesEntry, ImportEnds, Lookup, LookupFails, Deletes, Archives,
           LocksForUpdate, GetsRow, WriteRow, UpsertTag, TagsSet, Commit, CommitUnheard, Attach
  <2>. QED  BY <2>1 DEF InsertAuditEntry, Errs, Fail
<1>. QED  BY <1>1, <1>2

\* A request loses its audit row with a fault, and at most the one.
LEMMA LostNext ==
    ASSUME TypeOK, Shape, AuditInv, NEW p \in Requests, AnyStep(p)
    PROVE  Lost' \subseteq Lost \/ (Lost' \subseteq Lost \cup {Change(p)} /\ faults' = faults + 1)
<1>0. /\ Domains /\ Own(p) /\ OwnAudit(p) /\ pc[p] # "done"
      /\ changes \subseteq ChangeSet
  BY Progress DEF AuditInv, OwnAudit, Shape
<1>1. ASSUME NEW c \in Lost', c.by # p PROVE c \in Lost
  <2>1. c \in changes' /\ c \notin audit' /\ op'[c.by] # "import" /\ pc'[c.by] = "done"
    BY <1>1 DEF Lost
  <2>2. c \in changes
    BY <1>1, <2>1, OthersKeep DEF Publishes, Change
  <2>3. c.by \in Requests \ {p}
    BY <1>0, <1>1, <2>2 DEF ChangeSet
  <2>4. op'[c.by] = op[c.by] /\ pc'[c.by] = pc[c.by]
    BY <2>3, OthersKeep
  <2>. QED  BY <2>1, <2>2, <2>4, AuditGrows DEF Lost
<1>2. ASSUME NEW c \in Lost', c.by = p
      PROVE  /\ c \in ChangesOf(p)' /\ c \notin audit' /\ op'[p] # "import" /\ pc'[p] = "done"
  BY <1>2 DEF Lost, ChangesOf
<1>3. CASE \A c \in Lost' : c.by # p
  BY <1>1, <1>3
<1>4. CASE \E c \in Lost' : c.by = p
  <2>1. op'[p] # "import" /\ pc'[p] = "done" /\ op[p] # "import"
    BY <1>0, <1>2, <1>4, Progress DEF Own, HandlersAt
  <2>2. ASSUME ChangesOf(p)' \subseteq {Change(p)}, faults' = faults + 1
        PROVE  Lost' \subseteq Lost \cup {Change(p)}
    BY <1>1, <1>2, <2>2
  <2>3. CASE Arrive(p)
    <3>1. pc[p] = "new" /\ UNCHANGED changes
      BY <1>0, <2>3, ArrivalEffect
    <3>2. ChangesOf(p)' = {}
      BY <1>0, <2>1, <3>1, ChangesNext DEF OwnAudit
    <3>. QED  BY <1>2, <1>4, <3>2
  <2>4. CASE ImportEnds(p)
    BY <1>0, <2>1, <2>4 DEF ImportEnds, Own, HandlersAt
  <2>5. CASE InsertAuditEntry(p)
    <3>1. pc[p] = "audit" /\ audit' = audit \cup {Change(p)} /\ UNCHANGED changes
      BY <2>5 DEF InsertAuditEntry
    <3>2. ChangesOf(p)' \subseteq audit'
      BY <1>0, <2>1, <3>1, ChangesNext DEF OwnAudit
    <3>. QED  BY <1>2, <1>4, <3>2
  <2>6. CASE CommitUnheard(p)
    <3>1. ChangesOf(p)' \subseteq {Change(p)} /\ faults' = faults + 1
      BY <1>0, <2>1, <2>6, OnlyCommits DEF OwnAudit
    <3>. QED  BY <2>2, <3>1
  <2>7. CASE Errs(p)
    <3>1. PICK code \in Codes \ {"none"}, shown \in Codes \ {"none"} : ErrsWith(p, code, shown)
      BY <1>0, <2>7, ErrsEffect
    <3>2. ChangesOf(p)' = ChangesOf(p)
      <4>1. UNCHANGED changes
        BY <3>1 DEF ErrsWith
      <4>. QED  BY <4>1, ChangesNext
    <3>3. CASE faults' = faults + 1
      <4>1. ChangesOf(p) \subseteq {Change(p)}
        BY <1>0, <2>1 DEF OwnAudit
      <4>. QED  BY <2>2, <3>2, <3>3, <4>1
    <3>4. CASE faults' = faults /\ pc[p] \notin {"attach", "audit"}
      <4>1. ChangesOf(p)' = {}
        BY <1>0, <2>1, <3>2, <3>4 DEF OwnAudit
      <4>. QED  BY <1>2, <1>4, <4>1
    <3>. QED  BY <3>1, <3>3, <3>4 DEF ErrsWith
  <2>. QED  BY <2>1, <2>3, <2>4, <2>5, <2>6, <2>7, Origins
<1>. QED  BY <1>3, <1>4

\* Every step of a request keeps the count of lost audit rows below that of faults.
LEMMA AuditRequest ==
    ASSUME TypeOK, Shape, AuditInv, NEW p \in Requests, AnyStep(p)
    PROVE  AuditInv'
<1>1. /\ IsFiniteSet(changes) /\ faults \in Nat /\ faults' \in {faults, faults + 1}
      /\ Cardinality(Lost) <= faults
  BY OthersKeep, InputDomain DEF Shape, TypeOK, AuditInv, LostAuditNeedsFault, Lost
<1>2. IsFiniteSet(Lost) /\ Cardinality(Lost) \in Nat
  <2>1. Lost \subseteq changes
    BY DEF Lost
  <2>. QED  BY <1>1, <2>1, FS_Subset, FS_CardinalityType
<1>3. Cardinality(Lost') <= faults'
  <2>1. CASE Lost' \subseteq Lost
    <3>1. Cardinality(Lost') <= Cardinality(Lost) /\ Cardinality(Lost') \in Nat
      BY <1>2, <2>1, FS_Subset, FS_CardinalityType
    <3>. QED  BY <1>1, <1>2, <3>1
  <2>2. CASE Lost' \subseteq Lost \cup {Change(p)} /\ faults' = faults + 1
    <3>1. /\ IsFiniteSet(Lost \cup {Change(p)})
          /\ Cardinality(Lost \cup {Change(p)}) \in {Cardinality(Lost), Cardinality(Lost) + 1}
      BY <1>2, FS_AddElement
    <3>2. Cardinality(Lost') <= Cardinality(Lost \cup {Change(p)}) /\ Cardinality(Lost') \in Nat
      BY <2>2, <3>1, FS_Subset, FS_CardinalityType
    <3>. QED  BY <1>1, <1>2, <2>2, <3>1, <3>2
  <2>. QED  BY <2>1, <2>2, LostNext
<1>. QED  BY <1>3, OwnAuditRequest DEF AuditInv, LostAuditNeedsFault, Lost, OwnAudit

-----------------------------------------------------------------------------
(* The report of an import.                                                *)

\* The parts of CountInv that are about one request.
OwnRunning(p) ==
    op[p] = "import" /\ pc[p] # "done" =>
        /\ {c.entry : c \in ChangesOf(p)} = 1..(cur[p] - 1)
        /\ Cardinality(ChangesOf(p)) = cur[p] - 1
        /\ Cardinality(Made(p, "create")) = report[p].created
        /\ Cardinality(Made(p, "update")) = report[p].updated

OwnReport(p) ==
    op[p] = "import" /\ pc[p] = "done" =>
        /\ {c.entry : c \in ChangesOf(p)} = 1..Cardinality(ChangesOf(p))
        /\ Cardinality(Made(p, "create")) - report[p].created \in 0..faults
        /\ Cardinality(Made(p, "update")) - report[p].updated \in 0..faults

OwnIdle(p) == op[p] # "import" => report[p].created = 0 /\ report[p].updated = 0

OwnCount(p) == OwnRunning(p) /\ OwnReport(p) /\ OwnIdle(p)

\* CountInv, request by request.
LEMMA CountParts ==
    /\ CountInv <=> \A p \in Requests : OwnCount(p)
    /\ CountInv' <=> \A p \in Requests : OwnCount(p)'
BY DEF CountInv, ImportReportIsTrue, OwnCount, OwnRunning, OwnReport, OwnIdle, Made

\* The changes with an action, and the entries they are of.
OfAction(S, a) == {c \in S : c.action = a}
EntriesOf(S) == {c.entry : c \in S}

\* One more committed entry.
LEMMA OneMore ==
    ASSUME NEW S, IsFiniteSet(S), NEW n \in Nat, EntriesOf(S) = 1..n,
           NEW d, d.entry = n + 1
    PROVE  /\ EntriesOf(S \cup {d}) = 1..(n + 1)
           /\ Cardinality(S \cup {d}) = Cardinality(S) + 1
           /\ \A a : Cardinality(OfAction(S \cup {d}, a))
                      = Cardinality(OfAction(S, a)) + IF d.action = a THEN 1 ELSE 0
<1>. USE DEF EntriesOf
<1>1. d \notin S
  <2>1. \A c \in S : c.entry \in 1..n
    OBVIOUS
  <2>2. n + 1 \notin 1..n
    OBVIOUS
  <2>. QED  BY <2>1, <2>2
<1>2. Cardinality(S) \in Nat /\ Cardinality(S \cup {d}) = Cardinality(S) + 1
  BY <1>1, FS_AddElement, FS_CardinalityType
<1>3. {c.entry : c \in S \cup {d}} = 1..(n + 1)
  <2>1. {c.entry : c \in S \cup {d}} = {c.entry : c \in S} \cup {d.entry}
    OBVIOUS
  <2>2. 1..(n + 1) = (1..n) \cup {n + 1}
    OBVIOUS
  <2>. QED  BY <2>1, <2>2
<1>4. ASSUME NEW a
      PROVE  /\ Cardinality({c \in S : c.action = a}) \in Nat
             /\ Cardinality({c \in S \cup {d} : c.action = a})
                  = Cardinality({c \in S : c.action = a}) + IF d.action = a THEN 1 ELSE 0
  <2>. DEFINE T == {c \in S : c.action = a}
  <2>1. IsFiniteSet(T) /\ d \notin T /\ Cardinality(T) \in Nat
    <3>1. T \subseteq S /\ d \notin T
      BY <1>1
    <3>. QED  BY <3>1, FS_Subset, FS_CardinalityType
  <2>2. CASE d.action = a
    <3>1. {c \in S \cup {d} : c.action = a} = T \cup {d}
      BY <2>2
    <3>2. Cardinality(T \cup {d}) = Cardinality(T) + 1
      BY <2>1, FS_AddElement
    <3>. QED  BY <2>1, <2>2, <3>1, <3>2
  <2>3. CASE d.action # a
    <3>1. {c \in S \cup {d} : c.action = a} = T
      BY <2>3
    <3>. HIDE DEF T
    <3>2. Cardinality(T) = Cardinality(T) + 0
      BY <2>1
    <3>. QED  BY <2>1, <2>3, <3>1, <3>2 DEF T
  <2>. QED  BY <2>2, <2>3
<1>. QED  BY <1>2, <1>3, <1>4 DEF OfAction

\* The changes of a request without any.
LEMMA NoChanges ==
    ASSUME NEW p \in Requests, ChangesOf(p) = {}
    PROVE  /\ {c.entry : c \in ChangesOf(p)} = 1..0 /\ Cardinality(ChangesOf(p)) = 0
           /\ \A a : Cardinality(Made(p, a)) = 0
BY FS_EmptySet DEF Made

\* A step that commits nothing leaves the counts, and one that ends a request
\* in an error only notes the error.
LEMMA CountsKept ==
    ASSUME TypeOK, Shape, NEW p \in Requests, AnyStep(p), ~Commit(p)
    PROVE  /\ report'[p].created = report[p].created
           /\ report'[p].updated = report[p].updated
<1>0. Domains /\ report[p] \in Reports
  BY DEF Shape, TypeOK, Reports
<1>1. CASE pc'[p] # "done"
  BY <1>1, Progress
<1>2. CASE Arrive(p) \/ ImportEnds(p) \/ InsertAuditEntry(p)
  BY <1>0, <1>2, ArrivalEffect DEF ImportEnds, InsertAuditEntry
<1>3. CASE CommitUnheard(p)
  BY <1>0, <1>3 DEF CommitUnheard, Domains, Reports
<1>4. CASE Errs(p)
  <2>1. PICK code \in Codes \ {"none"}, shown \in Codes \ {"none"} : ErrsWith(p, code, shown)
    BY <1>0, <1>4, ErrsEffect
  <2>2. report'[p] = [report[p] EXCEPT !.error = code] \/ report'[p] = report[p]
    BY <2>1 DEF ErrsWith
  <2>. QED  BY <1>0, <2>2 DEF Reports
<1>. QED  BY <1>1, <1>2, <1>3, <1>4, Origins

\* Every step of a request keeps the reports true.
LEMMA CountRequest ==
    ASSUME TypeOK, Shape, AuditInv, CountInv, NEW p \in Requests, AnyStep(p)
    PROVE  CountInv'
<1>0. /\ Domains /\ Own(p) /\ OwnAudit(p) /\ \A q \in Requests : OwnCount(q)
      /\ pc[p] # "done" /\ faults \in Nat /\ faults' \in {faults, faults + 1}
      /\ report[p] \in Reports /\ IsFiniteSet(ChangesOf(p))
  <2>1. Domains /\ Own(p) /\ OwnAudit(p) /\ pc[p] # "done" /\ \A q \in Requests : OwnCount(q)
    BY CountParts, Progress DEF Shape, AuditInv, OwnAudit
  <2>2. report[p] \in Reports /\ faults \in Nat
    BY InputDomain DEF TypeOK, Reports
  <2>3. faults' \in {faults, faults + 1}
    BY OthersKeep
  <2>4. IsFiniteSet(ChangesOf(p))
    <3>1. ChangesOf(p) \subseteq changes /\ IsFiniteSet(changes)
      BY DEF ChangesOf, Shape
    <3>. QED  BY <3>1, FS_Subset
  <2>. QED  BY <2>1, <2>2, <2>3, <2>4
<1>1. \A k : k \in 0..faults => k \in 0..faults'
  BY <1>0
<1>2. ASSUME NEW q \in Requests \ {p} PROVE OwnCount(q)'
  <2>1. /\ pc'[q] = pc[q] /\ op'[q] = op[q] /\ cur'[q] = cur[q] /\ report'[q] = report[q]
        /\ ChangesOf(q)' = ChangesOf(q)
    BY OthersKeep, ChangesNext
  <2>2. \A a : Made(q, a)' = Made(q, a)
    BY <2>1 DEF Made
  <2>3. OwnRunning(q) /\ OwnReport(q) /\ OwnIdle(q)
    BY <1>0 DEF OwnCount
  <2>4. OwnRunning(q)' /\ OwnIdle(q)'
    BY <2>1, <2>2, <2>3 DEF OwnRunning, OwnIdle
  <2>5. OwnReport(q)'
    BY <1>1, <2>1, <2>2, <2>3 DEF OwnReport
  <2>. QED  BY <2>4, <2>5 DEF OwnCount
<1>. SUFFICES OwnCount(p)'
  BY <1>2, CountParts
<1>3. CASE pc[p] = "new"
  <2>1. Arrive(p)
    BY <1>3, StepCases, VictimWaits
       DEF AnyStep, Shape, TakesEntry, ImportEnds, Lookup, LookupFails, Deletes, Archives,
           LocksForUpdate, GetsRow, WriteRow, UpsertTag, TagsSet, Commit, CommitUnheard, Attach,
           InsertAuditEntry, Errs
  <2>2. op[p] = "none" /\ cur[p] = 1 /\ UNCHANGED <<cur, report, changes>>
    BY <1>0, <1>3, <2>1, ArrivalEffect DEF Own, HandlersAt
  <2>3. ChangesOf(p) = {} /\ ChangesOf(p)' = ChangesOf(p)
    BY <1>0, <1>3, <2>2, ChangesNext DEF OwnAudit
  <2>4. \A a : Made(p, a)' = Made(p, a)
    BY <2>3 DEF Made
  <2>5. report'[p].created = 0 /\ report'[p].updated = 0 /\ cur'[p] = 1
    BY <1>0, <2>2 DEF OwnCount, OwnIdle
  <2>6. /\ {c.entry : c \in ChangesOf(p)'} = 1..0 /\ Cardinality(ChangesOf(p)') = 0
        /\ \A a : Cardinality(Made(p, a)') = 0
    BY <2>3, <2>4, NoChanges
  <2>7. 0 - 0 \in 0..faults' /\ 1 - 1 = 0
    BY <1>0
  <2>. QED  BY <2>5, <2>6, <2>7 DEF OwnCount, OwnRunning, OwnReport, OwnIdle
<1>4. CASE pc[p] # "new" /\ op[p] # "import"
  <2>1. op'[p] = op[p]
    BY <1>4, Progress
  <2>2. report'[p].created = report[p].created /\ report'[p].updated = report[p].updated
    BY <1>4, CountsKept, CommitEffect
  <2>. QED  BY <1>0, <1>4, <2>1, <2>2 DEF OwnCount, OwnRunning, OwnReport, OwnIdle
<1>5. CASE pc[p] # "new" /\ op[p] = "import"
  <2>1. op'[p] = "import"
    BY <1>5, Progress
  <2>2. /\ {c.entry : c \in ChangesOf(p)} = 1..(cur[p] - 1)
        /\ Cardinality(ChangesOf(p)) = cur[p] - 1
        /\ Cardinality(Made(p, "create")) = report[p].created
        /\ Cardinality(Made(p, "update")) = report[p].updated
        /\ cur[p] - 1 \in Nat /\ report[p].created \in Nat /\ report[p].updated \in Nat
    BY <1>0, <1>5 DEF OwnCount, OwnRunning, Own, Reports
  <2>3. CASE ~Commit(p) /\ ~CommitUnheard(p)
    <3>1. /\ ChangesOf(p)' = ChangesOf(p)
          /\ report'[p].created = report[p].created /\ report'[p].updated = report[p].updated
          /\ pc'[p] # "done" => cur'[p] = cur[p]
      BY <2>3, OnlyCommits, CountsKept, Progress
    <3>2. \A a : Made(p, a)' = Made(p, a)
      BY <3>1 DEF Made
    <3>3. \A n \in Nat : n - n \in 0..faults'
      BY <1>0
    <3>4. OwnRunning(p)'
      BY <2>2, <3>1, <3>2 DEF OwnRunning
    <3>5. OwnReport(p)'
      BY <2>2, <3>1, <3>2, <3>3 DEF OwnReport
    <3>. QED  BY <2>1, <3>4, <3>5 DEF OwnCount, OwnIdle
  <2>4. ASSUME Commit(p) \/ CommitUnheard(p)
        PROVE  /\ {c.entry : c \in ChangesOf(p)'} = 1..cur[p]
               /\ Cardinality(ChangesOf(p)') = cur[p]
               /\ Cardinality(Made(p, "create")')
                    = report[p].created + IF Action(p) = "create" THEN 1 ELSE 0
               /\ Cardinality(Made(p, "update")')
                    = report[p].updated + IF Action(p) = "update" THEN 1 ELSE 0
    <3>1. ChangesOf(p)' = ChangesOf(p) \cup {Change(p)}
      BY <2>4, OnlyCommits
    <3>2. Change(p).entry = cur[p] /\ Change(p).action = Action(p)
      BY DEF Change
    <3>3. (cur[p] - 1) + 1 = cur[p]
      BY <1>0 DEF Own
    <3>. DEFINE n == cur[p] - 1  S == ChangesOf(p)  d == Change(p)
    <3>4. n \in Nat /\ EntriesOf(S) = 1..n /\ d.entry = n + 1 /\ IsFiniteSet(S)
      BY <1>0, <2>2, <3>2, <3>3 DEF EntriesOf
    <3>5. ChangesOf(p)' = S \cup {d}
      BY <3>1
    <3>6. \A a : Made(p, a) = OfAction(S, a) /\ Made(p, a)' = OfAction(S \cup {d}, a)
      BY <3>1 DEF Made, OfAction
    <3>. HIDE DEF n, S, d
    <3>7. /\ EntriesOf(S \cup {d}) = 1..(n + 1)
          /\ Cardinality(S \cup {d}) = Cardinality(S) + 1
          /\ \A a : Cardinality(OfAction(S \cup {d}, a))
                      = Cardinality(OfAction(S, a)) + IF d.action = a THEN 1 ELSE 0
      BY <3>4, OneMore
    <3>8. \A a : Cardinality(Made(p, a)')
                   = Cardinality(Made(p, a)) + IF d.action = a THEN 1 ELSE 0
      BY <3>6, <3>7
    <3>9. n + 1 = cur[p] /\ d.action = Action(p) /\ Cardinality(S) = n
      BY <2>2, <3>2, <3>3 DEF n, d, S
    <3>10. {c.entry : c \in ChangesOf(p)'} = 1..cur[p] /\ Cardinality(ChangesOf(p)') = cur[p]
      BY <3>5, <3>7, <3>9 DEF EntriesOf
    <3>. QED  BY <2>2, <3>8, <3>9, <3>10
  <2>5. Action(p) \in {"create", "update"}
    BY <1>5 DEF Action
  <2>6. CASE Commit(p)
    <3>1. cur'[p] = cur[p] + 1 /\ report'[p] = Counted(p) /\ pc'[p] = "entry"
      BY <1>5, <2>6, CommitEffect
    <3>2. /\ report'[p].created = report[p].created + IF Action(p) = "create" THEN 1 ELSE 0
          /\ report'[p].updated = report[p].updated + IF Action(p) = "update" THEN 1 ELSE 0
      BY <1>0, <2>2, <2>5, <3>1 DEF Counted, Reports
    <3>3. cur'[p] - 1 = cur[p]
      BY <1>0, <3>1 DEF Own
    <3>4. OwnRunning(p)'
      BY <2>4, <2>6, <3>2, <3>3 DEF OwnRunning
    <3>. QED  BY <2>1, <3>1, <3>4 DEF OwnCount, OwnReport, OwnIdle
  <2>7. CASE CommitUnheard(p)
    <3>1. pc'[p] = "done" /\ faults' = faults + 1
      BY <2>7, OnlyCommits
    <3>2. ~Commit(p)
      BY <3>1, OnlyCommits
    <3>3. report'[p].created = report[p].created /\ report'[p].updated = report[p].updated
      BY <3>2, CountsKept
    <3>4. \A n \in Nat : (n + 0) - n \in 0..faults' /\ (n + 1) - n \in 0..faults'
      BY <1>0, <3>1
    <3>5. OwnReport(p)'
      BY <2>2, <2>4, <2>7, <3>3, <3>4 DEF OwnReport
    <3>. QED  BY <2>1, <3>1, <3>5 DEF OwnCount, OwnRunning, OwnIdle
  <2>. QED  BY <2>3, <2>6, <2>7
<1>. QED  BY <1>3, <1>4, <1>5

\* The log and the reports are in order in every state.
LEMMA HistoryAlways == Spec => [](AuditInv /\ CountInv)
<1>1. Init => AuditInv /\ CountInv
  <2>. SUFFICES ASSUME Init PROVE AuditInv /\ CountInv
    OBVIOUS
  <2>1. \A p \in Requests : ChangesOf(p) = {}
    BY DEF Init, ChangesOf
  <2>2. Lost = {} /\ faults = 0 /\ Cardinality({}) = 0
    BY FS_EmptySet DEF Init, Lost
  <2>3. Cardinality(Lost) <= faults
    BY <2>2
  <2>4. AuditInv
    BY <2>1, <2>3 DEF AuditInv, LostAuditNeedsFault, Lost, Init
  <2>5. \A p \in Requests : OwnCount(p)
    BY DEF Init, OwnCount, OwnRunning, OwnReport, OwnIdle
  <2>. QED  BY <2>4, <2>5, CountParts
<1>2. TypeOK /\ Shape /\ AuditInv /\ CountInv /\ [Next]_vars => (AuditInv /\ CountInv)'
  <2>. SUFFICES ASSUME TypeOK, Shape, AuditInv, CountInv, [Next]_vars
                PROVE  AuditInv' /\ CountInv'
    OBVIOUS
  <2>1. CASE UNCHANGED vars
    <3>1. UNCHANGED <<audit, op, pc, cur, target, report, changes, faults>>
      BY <2>1 DEF vars
    <3>2. \A p \in Requests : ChangesOf(p)' = ChangesOf(p) /\ Change(p)' = Change(p)
      BY <3>1 DEF ChangesOf, Change, Action
    <3>3. AuditInv'
      BY <3>1, <3>2 DEF AuditInv, LostAuditNeedsFault
    <3>4. ASSUME NEW p \in Requests PROVE OwnCount(p)'
      <4>1. OwnRunning(p) /\ OwnReport(p) /\ OwnIdle(p)
        BY CountParts DEF OwnCount
      <4>2. \A a : Made(p, a)' = Made(p, a)
        BY <3>2 DEF Made
      <4>3. OwnRunning(p)' /\ OwnReport(p)' /\ OwnIdle(p)'
        BY <3>1, <3>2, <4>1, <4>2 DEF OwnRunning, OwnReport, OwnIdle
      <4>. QED  BY <4>3 DEF OwnCount
    <3>. QED  BY <3>3, <3>4, CountParts
  <2>2. CASE \E p \in Requests : AnyStep(p)
    BY <2>2, AuditRequest, CountRequest
  <2>. QED  BY <2>1, <2>2, NextCases
<1>. QED  BY <1>1, <1>2, TypesAlways, PTL DEF Spec

\* The changes without an audit row, of requests that are over and are not
\* imports, never outnumber the faults: the middleware that runs after the
\* commit loses a row only to a failure, whatever else is going on.
THEOREM LostAuditNeedsFaultAlways == Spec => []LostAuditNeedsFault
BY HistoryAlways, PTL DEF AuditInv

\* What RunImport reports is what it committed: a prefix of the document,
\* counted as created or updated as each entry really was, for documents of any
\* length, except for commits whose answer was lost.
THEOREM ImportReportIsTrueAlways == Spec => []ImportReportIsTrue
BY HistoryAlways, PTL DEF CountInv

=============================================================================
