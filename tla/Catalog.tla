------------------------------- MODULE Catalog ------------------------------
(***************************************************************************)
(* The conferences, the bulk import and the audit log, statement by        *)
(* statement.                                                              *)
(*                                                                         *)
(* Reminders treats a request as one step and has no unique key, no tags   *)
(* and no audit log.  Here every request is a process: it validates, opens *)
(* a transaction, writes the conference, replaces its tags one upsert at a *)
(* time, commits, and only then does the audit middleware insert its row,  *)
(* in a transaction of its own.  An import does this for one entry after   *)
(* the other, each looked up before its transaction starts, and is not     *)
(* audited.  Transactions run at READ COMMITTED and hold their row locks   *)
(* to the end; PostgreSQL ends a deadlock by aborting one of them.         *)
(***************************************************************************)
EXTENDS Naturals, Sequences, FiniteSets

CONSTANTS
    Requests,   \* one process per request
    Inputs,     \* the conference inputs that requests may carry
    Imports,    \* the documents that imports may carry: sequences of inputs
    MaxFaults   \* bound: failed statements, lost connections, crashes

\* `key` is (LOWER(acronym), year); `tags` is the list of slugs; `flaw` tells
\* who refuses the input: nobody, both validations (no name), only that of the
\* API and the table's CHECK (dates out of order), the foreign key to tracks.
Flaws == {"none", "blank", "unordered", "track"}

ASSUME InputDomain ==
    /\ \A in \in Inputs :
        /\ DOMAIN in = {"key", "tags", "flaw"}
        /\ in.flaw \in Flaws
        /\ in.tags \in Seq({in.tags[i] : i \in DOMAIN in.tags})
    /\ Imports \subseteq Seq(Inputs)
    /\ MaxFaults \in Nat

\* The conference that is there at the start was inserted by no request.
ASSUME RequestNames == "setup" \notin Requests

VARIABLES
    confs,      \* conferences and conference_tags, as committed
    priv,       \* the rows each request's transaction has written
    tagLocks,   \* the tag rows it has upserted
    audit,      \* audit_log
    op,         \* which handler the request runs
    pc,         \* its next statement
    entries,    \* its input: one, or the entries of an import
    cur,        \* which entry it is at
    target,     \* the conference it writes
    slugs,      \* the tags it has still to upsert
    answer,     \* the status code
    report,     \* what RunImport returns: created, updated and the error it met
    changes,    \* every committed change of a conference
    overtaken,  \* a change was committed after the lookup of a running import
    faults

txVars == <<priv, tagLocks, target, slugs>>
vars == <<confs, priv, tagLocks, audit, op, pc, entries, cur, target, slugs,
          answer, report, changes, overtaken, faults>>

\* A conference is known by the request, and the entry, that inserted it.
Setup == <<"setup", 1>>
NoId == <<"none", 0>>
Entries == {1} \cup UNION {DOMAIN doc : doc \in Imports}
Ids == {Setup} \cup (Requests \X Entries)

Keys == {in.key : in \in Inputs}
Tags == UNION {{in.tags[i] : i \in DOMAIN in.tags} : in \in Inputs}
Slugs(in) == {in.tags[i] : i \in DOMAIN in.tags}

\* `from` stands for the columns of the row, `tags` for its conference_tags.
Row == [key : Keys, from : SUBSET Tags, tags : SUBSET Tags, archived : BOOLEAN]
Absent == <<>>
Ops == {"none", "create", "update", "delete", "archive", "unarchive", "import"}
Labels == {"new", "entry", "lookup", "insertRow", "lockRow", "updateRow", "setTags",
           "commit", "attach", "audit", "done"}
Codes == {"none", "2xx", "400", "404", "409", "500"}

TypeOK ==
    /\ \A id \in Ids : confs[id] \in Row \cup {Absent}
    /\ \A p \in Requests :
        /\ DOMAIN priv[p] \subseteq Ids
        /\ \A id \in DOMAIN priv[p] : priv[p][id] \in Row \cup {Absent}
        /\ tagLocks[p] \subseteq Tags
        /\ op[p] \in Ops /\ pc[p] \in Labels /\ answer[p] \in Codes
        /\ cur[p] \in Entries \cup {i + 1 : i \in Entries}
        /\ target[p] \in Ids \cup {NoId}
        /\ report[p] \in [created : Nat, updated : Nat, error : Codes]
        /\ overtaken[p] \in BOOLEAN
    /\ faults \in 0..MaxFaults

Nothing == <<>>

\* No conference yet, or one.
Init ==
    /\ \E row \in {Absent} \cup {[key |-> in.key, from |-> Slugs(in), tags |-> Slugs(in),
                                  archived |-> FALSE] :
                                    in \in {in \in Inputs : in.flaw = "none"}} :
        confs = [id \in Ids |-> IF id = Setup THEN row ELSE Absent]
    /\ priv = [p \in Requests |-> Nothing]
    /\ tagLocks = [p \in Requests |-> {}]
    /\ audit = {}
    /\ op = [p \in Requests |-> "none"]
    /\ pc = [p \in Requests |-> "new"]
    /\ entries = [p \in Requests |-> <<>>]
    /\ cur = [p \in Requests |-> 1]
    /\ target = [p \in Requests |-> NoId]
    /\ slugs = [p \in Requests |-> <<>>]
    /\ answer = [p \in Requests |-> "none"]
    /\ report = [p \in Requests |-> [created |-> 0, updated |-> 0, error |-> "none"]]
    /\ changes = {}
    /\ overtaken = [p \in Requests |-> FALSE]
    /\ faults = 0

-----------------------------------------------------------------------------
(* READ COMMITTED, row locks and the unique index.                         *)

View(p, id) == IF id \in DOMAIN priv[p] THEN priv[p][id] ELSE confs[id]
KeyOf(row) == IF row = Absent THEN {} ELSE {row.key}
In(p) == entries[p][cur[p]]

\* The other requests whose open transaction has written row id.
Holders(p, id) == {q \in Requests \ {p} : id \in DOMAIN priv[q]}

\* Those whose open transaction may free or take the key: an entry of the
\* index whose row is being written is neither there nor not there.
KeyHolders(p, key) ==
    {q \in Requests \ {p} : \E id \in DOMAIN priv[q] :
        key \in KeyOf(confs[id]) \cup KeyOf(priv[q][id])}

\* uq_conferences_acronym_year refuses the row.
Taken(p, key) == \E id \in Ids \ {target[p]} : key \in KeyOf(View(p, id))

Write(p, id, row) ==
    priv' = [priv EXCEPT ![p] =
                [i \in DOMAIN priv[p] \cup {id} |-> IF i = id THEN row ELSE priv[p][i]]]

Goto(p, label) == pc' = [pc EXCEPT ![p] = label]

InFlight == {p \in Requests : pc[p] \notin {"new", "done"}}

\* Whom the request's next statement has to wait for.
WaitsFor(p) ==
    CASE pc[p] = "lockRow" -> Holders(p, target[p])
      [] pc[p] \in {"insertRow", "updateRow"} /\ In(p).flaw # "unordered" ->
            KeyHolders(p, In(p).key)
      [] pc[p] = "setTags" /\ slugs[p] # <<>> ->
            {q \in Requests \ {p} : Head(slugs[p]) \in tagLocks[q]}
      [] OTHER -> {}

-----------------------------------------------------------------------------
(* Ends of a request.                                                      *)

Release(p) ==
    /\ priv' = [priv EXCEPT ![p] = Nothing]
    /\ tagLocks' = [tagLocks EXCEPT ![p] = {}]
    /\ slugs' = [slugs EXCEPT ![p] = <<>>]
    /\ target' = [target EXCEPT ![p] = NoId]

Finish(p, code) ==
    /\ Release(p)
    /\ Goto(p, "done")
    /\ answer' = [answer EXCEPT ![p] = code]
    /\ entries' = [entries EXCEPT ![p] = <<>>]
    /\ cur' = [cur EXCEPT ![p] = 1]

\* Mutant: an error keeps no status code.
Fail_noStatus(p, code) ==
    /\ Finish(p, "unset")
    /\ UNCHANGED <<confs, audit, op, report, changes, overtaken>>

\* Mutant: the import tries the entry again.
Fail_retries(p, code) ==
    /\ IF op[p] = "import"
       THEN Release(p) /\ Goto(p, "entry") /\ UNCHANGED <<answer, entries, cur>>
       ELSE Finish(p, code)
    /\ UNCHANGED <<confs, audit, op, report, changes, overtaken>>

\* The handler returns an error.  RunImport (always strict) reports it in the
\* body of a 200 and stops.
Fail(p, code) ==
    /\ Finish(p, IF op[p] = "import" THEN "2xx" ELSE code)
    /\ report' = IF op[p] = "import" THEN [report EXCEPT ![p].error = code] ELSE report
    /\ UNCHANGED <<confs, audit, op, changes, overtaken>>

-----------------------------------------------------------------------------
(* Requests arrive.                                                        *)

Begin(p, o, label, ins, id) ==
    /\ pc[p] = "new"
    /\ op' = [op EXCEPT ![p] = o]
    /\ pc' = [pc EXCEPT ![p] = label]
    /\ entries' = [entries EXCEPT ![p] = IF label = "done" THEN <<>> ELSE ins]
    /\ target' = [target EXCEPT ![p] = IF label = "done" THEN NoId ELSE id]
    /\ UNCHANGED <<confs, priv, tagLocks, audit, cur, slugs, report, changes, overtaken, faults>>

\* validateInput; tracks are left to the foreign key.
ValidInput(in) == in.flaw \notin {"blank", "unordered"}

\* The ids that clients may know.
Known == {Setup} \cup {c.id : c \in changes}

CreateConference(p, in) ==
    /\ Begin(p, "create", IF ValidInput(in) THEN "insertRow" ELSE "done", <<in>>, <<p, 1>>)
    /\ answer' = [answer EXCEPT ![p] = IF ValidInput(in) THEN "none" ELSE "400"]

\* The snapshot of the UPDATE finds the row, or there is none.
UpdateConference(p, id, in) ==
    LET code == IF ~ValidInput(in) THEN "400"
                ELSE IF confs[id] = Absent THEN "404" ELSE "none"
    IN /\ Begin(p, "update", IF code = "none" THEN "lockRow" ELSE "done", <<in>>, id)
       /\ answer' = [answer EXCEPT ![p] = code]

\* DeleteConference, ArchiveConference, UnarchiveConference.
ById(p, o, id) ==
    /\ Begin(p, o, IF confs[id] = Absent THEN "done" ELSE "lockRow", <<>>, id)
    /\ answer' = [answer EXCEPT ![p] = IF confs[id] = Absent THEN "404" ELSE "none"]

\* ImportConferences, with a body that parses or does not.
ImportConferences(p, ins) ==
    /\ Begin(p, "import", "entry", ins, NoId)
    /\ UNCHANGED answer

ImportUnparsable(p) ==
    /\ Begin(p, "import", "done", <<>>, NoId)
    /\ answer' = [answer EXCEPT ![p] = "400"]

-----------------------------------------------------------------------------
(* RunImport and the lookup of UpsertFromImport, outside the transaction.  *)

\* The loop takes the next entry, stops at one that Validate refuses, or ends.
NextEntry(p) ==
    /\ pc[p] = "entry"
    /\ IF cur[p] \in DOMAIN entries[p]
       THEN IF In(p).flaw = "blank"
            THEN Fail(p, "400")
            ELSE /\ Goto(p, "lookup")
                 /\ UNCHANGED <<confs, txVars, audit, op, entries, cur, answer, report,
                                changes, overtaken>>
       ELSE /\ Finish(p, "2xx")
            /\ UNCHANGED <<confs, audit, op, report, changes, overtaken>>
    /\ UNCHANGED faults

\* Mutant: the acronym is compared as written, and not found.
Lookup_exactCase(p) ==
    /\ pc[p] = "lookup"
    /\ target' = [target EXCEPT ![p] = <<p, cur[p]>>]
    /\ Goto(p, "insertRow")
    /\ overtaken' = [overtaken EXCEPT ![p] = FALSE]
    /\ UNCHANGED <<confs, priv, tagLocks, audit, op, entries, cur, slugs, answer, report,
                   changes, faults>>

\* GetConferenceByAcronymYear.
Lookup(p) ==
    LET hits == {id \in Ids : In(p).key \in KeyOf(confs[id])} IN
    /\ pc[p] = "lookup"
    /\ target' = [target EXCEPT ![p] = IF hits = {} THEN <<p, cur[p]>>
                                       ELSE CHOOSE id \in hits : TRUE]
    /\ Goto(p, IF hits = {} THEN "insertRow" ELSE "lockRow")
    /\ overtaken' = [overtaken EXCEPT ![p] = FALSE]
    /\ UNCHANGED <<confs, priv, tagLocks, audit, op, entries, cur, slugs, answer, report,
                   changes, faults>>

\* Any error of the lookup is taken for "not found".
LookupFails(p) ==
    /\ pc[p] = "lookup" /\ faults < MaxFaults
    /\ target' = [target EXCEPT ![p] = <<p, cur[p]>>]
    /\ Goto(p, "insertRow")
    /\ overtaken' = [overtaken EXCEPT ![p] = FALSE]
    /\ faults' = faults + 1
    /\ UNCHANGED <<confs, priv, tagLocks, audit, op, entries, cur, slugs, answer, report,
                   changes>>

-----------------------------------------------------------------------------
(* Statements.                                                             *)

\* Mutant: DeleteAllConferenceTags is not called.
NewRow_keepsTags(p, old) ==
    [key |-> In(p).key, from |-> Slugs(In(p)),
     tags |-> IF old = Absent THEN {} ELSE old.tags,
     archived |-> old # Absent /\ old.archived]

\* The columns of the input, with archived_at as it was and the tags cleared:
\* DeleteAllConferenceTags has nobody to wait for once the row is locked.
NewRow(p, old) ==
    [key |-> In(p).key, from |-> Slugs(In(p)), tags |-> {},
     archived |-> old # Absent /\ old.archived]

\* CreateConference, or UpdateConference once it has the row: the CHECK, the
\* unique index, then the row and the start of setTagsAndTracks.
WriteRow(p) ==
    /\ pc[p] \in {"insertRow", "updateRow"} /\ WaitsFor(p) = {}
    /\ In(p).flaw # "unordered" /\ ~Taken(p, In(p).key)
    /\ Write(p, target[p], NewRow(p, View(p, target[p])))
    /\ slugs' = [slugs EXCEPT ![p] = In(p).tags]
    /\ Goto(p, "setTags")
    /\ UNCHANGED <<confs, tagLocks, audit, op, entries, cur, target, answer, report,
                   changes, overtaken, faults>>

\* The CHECK fails with a plain error, the index with ErrConflict.
RowRefused(p) ==
    /\ pc[p] \in {"insertRow", "updateRow"} /\ WaitsFor(p) = {}
    /\ In(p).flaw = "unordered" \/ Taken(p, In(p).key)
    /\ Fail(p, IF In(p).flaw = "unordered" THEN "500" ELSE "409")
    /\ UNCHANGED faults

\* An UPDATE or DELETE that found the row gets its lock, or finds it deleted.
LockRow(p) ==
    LET old == confs[target[p]] IN
    /\ pc[p] = "lockRow" /\ WaitsFor(p) = {}
    /\ IF old = Absent
       THEN Fail(p, "404")
       ELSE /\ CASE op[p] = "delete" ->
                      Write(p, target[p], Absent) /\ Goto(p, "commit")
                 [] op[p] \in {"archive", "unarchive"} ->
                      /\ Write(p, target[p], [old EXCEPT !.archived = (op[p] = "archive")])
                      /\ Goto(p, "commit")
                 [] OTHER -> Write(p, target[p], old) /\ Goto(p, "updateRow")
            /\ UNCHANGED <<confs, tagLocks, audit, op, entries, cur, target, slugs, answer,
                           report, changes, overtaken>>
    /\ UNCHANGED faults

\* setTagsAndTracks: each upsert locks the tag until the transaction ends, in
\* the order of the input.
UpsertTag(p) ==
    /\ pc[p] = "setTags" /\ slugs[p] # <<>> /\ WaitsFor(p) = {}
    /\ tagLocks' = [tagLocks EXCEPT ![p] = @ \cup {Head(slugs[p])}]
    /\ Write(p, target[p], [View(p, target[p]) EXCEPT !.tags = @ \cup {Head(slugs[p])}])
    /\ slugs' = [slugs EXCEPT ![p] = Tail(@)]
    /\ UNCHANGED <<confs, audit, op, pc, entries, cur, target, answer, report, changes,
                   overtaken, faults>>

\* The tracks: an unknown code fails on the foreign key.
SetTracks(p) ==
    /\ pc[p] = "setTags" /\ slugs[p] = <<>>
    /\ IF In(p).flaw = "track"
       THEN Fail(p, "500")
       ELSE /\ Goto(p, "commit")
            /\ UNCHANGED <<confs, priv, tagLocks, audit, op, entries, cur, target, slugs, answer,
                           report, changes, overtaken>>
    /\ UNCHANGED faults

-----------------------------------------------------------------------------
(* COMMIT, and what comes after it.                                        *)

Action(p) ==
    IF op[p] = "import"
    THEN IF target[p] = <<p, cur[p]>> THEN "create" ELSE "update" ELSE op[p]
Change(p) == [by |-> p, entry |-> cur[p], action |-> Action(p), id |-> target[p]]

Publish(p) ==
    /\ confs' = [id \in Ids |-> View(p, id)]
    /\ changes' = changes \cup {Change(p)}
    /\ overtaken' = [q \in Requests |->
            overtaken[q] \/ (q \in InFlight \ {p} /\ op[q] = "import")]

\* Mutant: every entry is counted as created.
Counted_created(p) == [report[p] EXCEPT !.created = @ + 1]

Counted(p) ==
    IF Action(p) = "create" THEN [report[p] EXCEPT !.created = @ + 1]
                            ELSE [report[p] EXCEPT !.updated = @ + 1]

\* An import goes on to its next entry; the other handlers answer, Archive and
\* Unarchive after reading tags and tracks.
Commit(p) ==
    /\ pc[p] = "commit"
    /\ Publish(p)
    /\ priv' = [priv EXCEPT ![p] = Nothing]
    /\ tagLocks' = [tagLocks EXCEPT ![p] = {}]
    /\ IF op[p] = "import"
       THEN /\ report' = [report EXCEPT ![p] = Counted(p)]
            /\ cur' = [cur EXCEPT ![p] = @ + 1]
            /\ target' = [target EXCEPT ![p] = NoId]
            /\ Goto(p, "entry")
       ELSE /\ Goto(p, IF op[p] \in {"archive", "unarchive"} THEN "attach" ELSE "audit")
            /\ UNCHANGED <<report, cur, target>>
    /\ UNCHANGED <<audit, op, entries, slugs, answer, faults>>

\* Mutant: MarkEntity is not called.
Attach_unmarked(p) ==
    /\ pc[p] = "attach"
    /\ Finish(p, "2xx")
    /\ UNCHANGED <<confs, audit, op, report, changes, overtaken, faults>>

\* attachTagsAndTracks.
Attach(p) ==
    /\ pc[p] = "attach"
    /\ Goto(p, "audit")
    /\ UNCHANGED <<confs, txVars, audit, op, entries, cur, answer, report, changes, overtaken,
                   faults>>

\* audit.For, after a 2xx of a handler that called MarkEntity.
InsertAuditEntry(p) ==
    /\ pc[p] = "audit"
    /\ audit' = audit \cup {Change(p)}
    /\ Finish(p, "2xx")
    /\ UNCHANGED <<confs, op, report, changes, overtaken, faults>>

-----------------------------------------------------------------------------
(* Failures.                                                               *)

\* A statement fails, the client goes away and its context is cancelled, or
\* the process dies.  The audit row is not tried again.
Break(p) ==
    /\ p \in InFlight \ {q \in Requests : pc[q] = "entry"} /\ faults < MaxFaults
    /\ Fail(p, IF pc[p] = "audit" THEN "2xx" ELSE "500")
    /\ faults' = faults + 1

\* COMMIT succeeds but its answer is lost: the handler reports an error.
CommitUnheard(p) ==
    /\ pc[p] = "commit" /\ faults < MaxFaults
    /\ Publish(p)
    /\ Finish(p, IF op[p] = "import" THEN "2xx" ELSE "500")
    /\ report' = IF op[p] = "import" THEN [report EXCEPT ![p].error = "500"] ELSE report
    /\ faults' = faults + 1
    /\ UNCHANGED <<audit, op>>

\* The requests that wait for each other in a circle: those in every set that
\* has whom they wait for, and with each request whom it waits for.
Deadlocked ==
    {p \in Requests : \A S \in SUBSET Requests :
        (WaitsFor(p) \subseteq S /\ \A q \in S : WaitsFor(q) \subseteq S) => p \in S}

\* PostgreSQL aborts one transaction of the circle; the handler answers 500.
DeadlockVictim(p) ==
    /\ p \in Deadlocked
    /\ Fail(p, "500")
    /\ UNCHANGED faults

-----------------------------------------------------------------------------
Arrive(p) ==
    \/ \E in \in Inputs : CreateConference(p, in)
    \/ \E id \in Known, in \in Inputs : UpdateConference(p, id, in)
    \/ \E o \in {"delete", "archive", "unarchive"}, id \in Known : ById(p, o, id)
    \/ \E doc \in Imports : ImportConferences(p, doc)
    \/ ImportUnparsable(p)

Step(p) ==
    \/ NextEntry(p) \/ Lookup(p) \/ LockRow(p) \/ WriteRow(p) \/ RowRefused(p)
    \/ UpsertTag(p) \/ SetTracks(p) \/ Commit(p) \/ Attach(p) \/ InsertAuditEntry(p)

Fault(p) == LookupFails(p) \/ Break(p) \/ CommitUnheard(p)

AllDone == (\A p \in Requests : pc[p] = "done") /\ UNCHANGED vars

Next ==
    \/ \E p \in Requests : Arrive(p) \/ Step(p) \/ Fault(p) \/ DeadlockVictim(p)
    \/ AllDone

\* The database executes every statement that need not wait, and its deadlock
\* detector runs.
Spec ==
    /\ Init /\ [][Next]_vars
    /\ \A p \in Requests : WF_vars(Step(p))
    /\ WF_vars(\E p \in Requests : DeadlockVictim(p))

-----------------------------------------------------------------------------
(* Properties.                                                             *)

ChangesOf(p) == {c \in changes : c.by = p}

\* The tags of a conference are those of the input that wrote its columns,
\* whichever requests edited it at the same time and whichever were aborted
\* between two upserts.
TagsFollowRow == \A id \in Ids : confs[id] # Absent => confs[id].tags = confs[id].from

\* A create, update, archive, unarchive or delete request that changed a
\* conference has an audit row when it is over, unless a fault hit it after
\* its commit.  FR-20 and DATA_MODEL.md promise more: a row for every change,
\* in the transaction of the change.
LostAuditNeedsFault ==
    Cardinality({c \in changes \ audit : op[c.by] # "import" /\ pc[c.by] = "done"}) <= faults

\* The import's report is true: the entries before the first error and only
\* those are in the table, and they are counted as what they were.  A commit
\* whose answer was lost is the one thing it may leave out.  IMPORT_FORMAT.md
\* promises more: after an error nothing is imported.
ImportReportIsTrue ==
    \A p \in Requests : (op[p] = "import" /\ pc[p] = "done") =>
        LET made(a) == Cardinality({c \in ChangesOf(p) : c.action = a}) IN
        /\ {c.entry : c \in ChangesOf(p)} = 1..Cardinality(ChangesOf(p))
        /\ made("create") - report[p].created \in 0..faults
        /\ made("update") - report[p].updated \in 0..faults

\* An import meets the unique index, or finds the row it looked up gone, only
\* if another request committed a change after the lookup, or the lookup
\* itself failed.
StaleLookupNeedsRival ==
    \A p \in Requests : report[p].error \in {"404", "409"} =>
        overtaken[p] \/ faults > 0

\* No request waits for ever: two that list the same tags in different orders,
\* or swap acronyms, lock each other out and one of them is aborted.
RequestsFinish == \A p \in Requests : (pc[p] # "new") ~> (pc[p] = "done")
=============================================================================
