----------------------------- MODULE Reminders ------------------------------
(***************************************************************************)
(* The reminder schedule of confero and the worker that mails it.          *)
(*                                                                         *)
(* The service layer keeps reminder_dispatch_log in step with stars,       *)
(* conference deadlines and user settings: every request that changes one  *)
(* of them changes the rows in the same transaction, modelled as one       *)
(* action.  The scheduler (one per replica) selects a batch of due rows    *)
(* FOR UPDATE SKIP LOCKED, mails them one by one and commits the outcomes  *)
(* together; its statements are separate actions, because mail that has    *)
(* been handed to the relay does not come back when the transaction is     *)
(* rolled back.  A request whose UPDATE or DELETE meets a row the          *)
(* dispatcher holds waits for it: its action is not enabled.  An INSERT    *)
(* that meets such a row ends as DO NOTHING whether or not it waits.       *)
(***************************************************************************)
EXTENDS Schedule, FiniteSets

CONSTANTS
    Users,          \* users that have logged in (each has a settings row)
    Confs,          \* conference ids
    Kinds,          \* the kinds of deadline a conference may have
    Leads,          \* lead times, in days, that users may choose
    Offsets,        \* timezones that users may choose
    Deadlines,      \* instants a deadline may be set to
    EndDays,        \* days an event may end on
    Instants,       \* the instants the clock shows
    DefaultLeads,   \* column defaults of user_settings
    DefaultOffset,
    Replicas,       \* server processes, each running one scheduler
    MaxAttempts,    \* Config.MaxAttempts
    BatchLimit,     \* LIMIT of SelectDueReminders
    GraceDays,      \* Config.GraceDays
    MaxFaults       \* bound: crashes, broken transactions, unheard answers

ASSUME DomainAssumption ==
    /\ Kinds \subseteq {"submission", "abstract", "notification", "camera_ready"}
    /\ Leads \subseteq 0..365
    /\ Offsets \subseteq -12..14
    /\ Deadlines \subseteq Nat
    /\ EndDays \subseteq Nat
    /\ Instants \subseteq Nat /\ 0 \in Instants
    /\ DefaultLeads \subseteq Leads
    /\ DefaultOffset \in Offsets
    /\ IsFiniteSet(Replicas)

ASSUME BoundAssumption ==
    /\ MaxAttempts \in Nat \ {0}
    /\ BatchLimit \in Nat \ {0}
    /\ GraceDays \in Nat
    /\ MaxFaults \in Nat

VARIABLES
    now,        \* the clock
    conf,       \* the conferences table
    settings,   \* the user_settings table
    stars,      \* the stars table
    log,        \* reminder_dispatch_log, as committed
    pc,         \* where each replica's tick stands
    conn,       \* state of the transaction of its dispatchReminders
    batch,      \* the rows that transaction selected and locked
    todo,       \* those the loop has still to reach
    mark,       \* the outcomes written in the transaction
    lastSweep,  \* Scheduler.lastArchiveSweep (-1: the zero time)
    mails,      \* messages the relay has accepted, per row key
    faults      \* faults so far

dbVars == <<conf, settings, stars, log>>
txVars == <<pc, conn, batch, todo, mark, lastSweep>>
vars == <<now, conf, settings, stars, log, pc, conn, batch, todo, mark,
          lastSweep, mails, faults>>

-----------------------------------------------------------------------------
\* UNIQUE (user_id, conference_id, deadline_kind, lead_time_days)
Key == [user : Users, conf : Confs, kind : Kinds, lead : Leads]

Status == {"none", "pending", "sent", "failed", "cancelled"}
Row == [status : Status, at : Int, attempts : Nat]
NoRow == [status |-> "none", at |-> 0, attempts |-> 0]

DeadlineMap == [Kinds -> Deadlines \cup {Unset}]
\* An id that is not yet used, a row whose archived_at is NULL or set, and an
\* id whose row was deleted (ids are random and do not come back).
ConfState == {"fresh", "active", "archived", "deleted"}
ConfRow == [state : ConfState, deadline : DeadlineMap, ends : EndDays \cup {Unset}]
NewConf == [state |-> "fresh", deadline |-> [d \in Kinds |-> Unset], ends |-> Unset]
SettingsRow == [leads : SUBSET Leads, tz : Offsets]
Mark == {"none", "sent", "failed", "retry"}
NoMarks == [k \in Key |-> "none"]

TypeOK ==
    /\ now \in Instants
    /\ conf \in [Confs -> ConfRow]
    /\ settings \in [Users -> SettingsRow]
    /\ stars \subseteq Users \X Confs
    /\ log \in [Key -> Row]
    /\ pc \in [Replicas -> {"idle", "dispatch", "sweep"}]
    /\ conn \in [Replicas -> {"ok", "aborted", "lost"}]
    /\ batch \in [Replicas -> SUBSET Key]
    /\ todo \in [Replicas -> SUBSET Key]
    /\ mark \in [Replicas -> [Key -> Mark]]
    /\ lastSweep \in [Replicas -> Instants \cup {-1}]
    /\ mails \in [Key -> Nat]
    /\ faults \in 0..MaxFaults

Init ==
    /\ now = 0
    /\ conf = [c \in Confs |-> NewConf]
    /\ settings = [u \in Users |-> [leads |-> DefaultLeads, tz |-> DefaultOffset]]
    /\ stars = {}
    /\ log = [k \in Key |-> NoRow]
    /\ pc = [r \in Replicas |-> "idle"]
    /\ conn = [r \in Replicas |-> "ok"]
    /\ batch = [r \in Replicas |-> {}]
    /\ todo = [r \in Replicas |-> {}]
    /\ mark = [r \in Replicas |-> NoMarks]
    /\ lastSweep = [r \in Replicas |-> -1]
    /\ mails = [k \in Key |-> 0]
    /\ faults = 0

-----------------------------------------------------------------------------
(* The statements on reminder_dispatch_log.  rows is the table; K is the   *)
(* set of keys a statement's WHERE clause selects.                         *)

Pending(rows, k) == rows[k].status = "pending"

\* Mutant: the status is misspelt, which the table's CHECK would refuse.
CancelPending_misspelt(rows, K) ==
    [k \in Key |-> IF k \in K /\ Pending(rows, k)
                   THEN [rows[k] EXCEPT !.status = "canceled"] ELSE rows[k]]

\* Mutant: WHERE status = 'pending' is missing.
CancelPending_any(rows, K) ==
    [k \in Key |-> IF k \in K /\ rows[k].status # "none"
                   THEN [rows[k] EXCEPT !.status = "cancelled"] ELSE rows[k]]

CancelPending(rows, K) ==
    [k \in Key |-> IF k \in K /\ Pending(rows, k)
                   THEN [rows[k] EXCEPT !.status = "cancelled"] ELSE rows[k]]

\* Mutant: re-materialization only inserts.
DeletePending_forgotten(rows, K) == rows

DeletePending(rows, K) ==
    [k \in Key |-> IF k \in K /\ Pending(rows, k) THEN NoRow ELSE rows[k]]

\* A row is wanted for every set deadline and every lead time of the user.
Wanted(k, cs, ss) ==
    /\ cs[k.conf].deadline[k.kind] # Unset
    /\ k.lead \in ss[k.user].leads

SendAt(k, cs, ss) ==
    ScheduledFor(cs[k.conf].deadline[k.kind], k.lead, ss[k.user].tz)

\* Mutant: reminders whose time has passed are not inserted.
Materialize_skipPast(rows, K, cs, ss) ==
    [k \in Key |-> IF /\ k \in K /\ Wanted(k, cs, ss) /\ rows[k].status = "none"
                      /\ SendAt(k, cs, ss) > now
                   THEN [status |-> "pending", at |-> SendAt(k, cs, ss),
                         attempts |-> 0]
                   ELSE rows[k]]

\* materializeReminders for the (user, conference) pairs of K, with
\* INSERT ... ON CONFLICT DO NOTHING: a row of any status blocks its key.
Materialize(rows, K, cs, ss) ==
    [k \in Key |-> IF k \in K /\ Wanted(k, cs, ss) /\ rows[k].status = "none"
                   THEN [status |-> "pending", at |-> SendAt(k, cs, ss),
                         attempts |-> 0]
                   ELSE rows[k]]

OfPair(u, c) == {k \in Key : k.user = u /\ k.conf = c}
OfConf(c) == {k \in Key : k.conf = c}
StarredOf(u) == {k \in Key : k.user = u /\ <<u, k.conf>> \in stars}
Starring(c) == {k \in Key : k.conf = c /\ <<k.user, c>> \in stars}

\* Mutant: the rows are selected without FOR UPDATE.
Locked_never(k) == FALSE

\* A row is locked until the dispatcher's transaction ends or its connection
\* is gone; a transaction that a failed statement aborted keeps its locks.
Locked(k) == \E r \in Replicas : conn[r] # "lost" /\ k \in batch[r]
Unlocked(K) == \A k \in K : ~Locked(k)

Live(c) == conf[c].state \in {"active", "archived"}

-----------------------------------------------------------------------------
(* Requests: ConferenceService, StarService, SettingsService.              *)

Create(c, d, e) ==
    /\ conf[c].state = "fresh"
    /\ ValidDeadlines(d)
    /\ conf' = [conf EXCEPT ![c] = [state |-> "active", deadline |-> d, ends |-> e]]
    /\ UNCHANGED <<now, settings, stars, log, txVars, mails, faults>>

\* Update (and the update half of an import): archived_at is left alone and
\* not looked at.
Update(c, d, e) ==
    /\ Live(c)
    /\ ValidDeadlines(d)
    /\ Unlocked(OfConf(c))
    /\ conf' = [conf EXCEPT ![c] = [@ EXCEPT !.deadline = d, !.ends = e]]
    /\ log' = Materialize(DeletePending(log, OfConf(c)), Starring(c), conf', settings)
    /\ UNCHANGED <<now, settings, stars, txVars, mails, faults>>

\* ON DELETE CASCADE removes the stars and every row of the log.
Delete(c) ==
    /\ Live(c)
    /\ Unlocked(OfConf(c))
    /\ conf' = [conf EXCEPT ![c].state = "deleted"]
    /\ stars' = {s \in stars : s[2] # c}
    /\ log' = [k \in Key |-> IF k.conf = c THEN NoRow ELSE log[k]]
    /\ UNCHANGED <<now, settings, txVars, mails, faults>>

Archive(c) ==
    /\ Live(c)
    /\ Unlocked(OfConf(c))
    /\ conf' = [conf EXCEPT ![c].state = "archived"]
    /\ log' = CancelPending(log, OfConf(c))
    /\ UNCHANGED <<now, settings, stars, txVars, mails, faults>>

\* Clears archived_at and nothing else.
Unarchive(c) ==
    /\ Live(c)
    /\ conf' = [conf EXCEPT ![c].state = "active"]
    /\ UNCHANGED <<now, settings, stars, log, txVars, mails, faults>>

Star(u, c) ==
    /\ Live(c)
    /\ stars' = stars \cup {<<u, c>>}
    /\ log' = Materialize(log, OfPair(u, c), conf, settings)
    /\ UNCHANGED <<now, conf, settings, txVars, mails, faults>>

\* Mutant: the star goes, its reminders stay.
Unstar_keepsRows(u, c) ==
    /\ Live(c)
    /\ stars' = stars \ {<<u, c>>}
    /\ UNCHANGED <<now, conf, settings, log, txVars, mails, faults>>

Unstar(u, c) ==
    /\ Live(c)
    /\ Unlocked(OfPair(u, c))
    /\ stars' = stars \ {<<u, c>>}
    /\ log' = CancelPending(log, OfPair(u, c))
    /\ UNCHANGED <<now, conf, settings, txVars, mails, faults>>

\* Mutant: the rows are rebuilt from the settings read before the UPDATE.
UpdateSettings_staleRow(u, s) ==
    /\ Unlocked(StarredOf(u))
    /\ settings' = [settings EXCEPT ![u] = s]
    /\ log' = Materialize(DeletePending(log, StarredOf(u)), StarredOf(u), conf, settings)
    /\ UNCHANGED <<now, conf, stars, txVars, mails, faults>>

UpdateSettings(u, s) ==
    /\ Unlocked(StarredOf(u))
    /\ settings' = [settings EXCEPT ![u] = s]
    /\ log' = Materialize(DeletePending(log, StarredOf(u)), StarredOf(u), conf, settings')
    /\ UNCHANGED <<now, conf, stars, txVars, mails, faults>>

-----------------------------------------------------------------------------
(* dispatchReminders.                                                      *)

Due == {k \in Key : Pending(log, k) /\ log[k].at <= now}

\* Mutant: without SKIP LOCKED, and without waiting either.
SelectDueReminders_noSkip(B) ==
    /\ B \subseteq Due
    /\ Cardinality(B) <= BatchLimit
    /\ B # Due => Cardinality(B) = BatchLimit

\* ORDER BY scheduled_for LIMIT n FOR UPDATE SKIP LOCKED: the rows taken are
\* no later than the rows left, which are left only when the limit is full.
SelectDueReminders(B) ==
    LET free == {k \in Due : ~Locked(k)} IN
    /\ B \subseteq free
    /\ Cardinality(B) <= BatchLimit
    /\ B # free => Cardinality(B) = BatchLimit
    /\ \A k \in B, j \in free \ B : log[k].at <= log[j].at

BeginDispatch(r) ==
    /\ pc[r] = "idle"
    /\ \E B \in SUBSET Due :
        /\ SelectDueReminders(B)
        /\ batch' = [batch EXCEPT ![r] = B]
        /\ todo' = [todo EXCEPT ![r] = B]
    /\ pc' = [pc EXCEPT ![r] = "dispatch"]
    /\ UNCHANGED <<now, dbVars, conn, mark, lastSweep, mails, faults>>

\* The loop takes the rows in the order of the result set, which is the
\* table's own as long as the rows are locked; once the locks are gone the
\* table may have moved on, and any order is allowed.
NextRow(r, k) ==
    /\ pc[r] = "dispatch"
    /\ k \in todo[r]
    /\ conn[r] # "lost" => \A j \in todo[r] : log[k].at <= log[j].at
    /\ todo' = [todo EXCEPT ![r] = @ \ {k}]

\* A mark is written only while the transaction is usable: its error is
\* logged and the loop goes on to the next row.
SetMark(r, k, m) ==
    mark' = IF conn[r] = "ok" THEN [mark EXCEPT ![r][k] = m] ELSE mark

\* Mutant: the old count of attempts is compared.
FailureMark_offByOne(k) == IF log[k].attempts >= MaxAttempts THEN "failed" ELSE "retry"

\* The outcome of a Send that returned an error.
FailureMark(k) == IF log[k].attempts + 1 >= MaxAttempts THEN "failed" ELSE "retry"

SendOk(r, k) ==
    /\ NextRow(r, k)
    /\ SetMark(r, k, "sent")
    /\ mails' = [mails EXCEPT ![k] = @ + 1]
    /\ UNCHANGED <<now, dbVars, pc, conn, batch, lastSweep, faults>>

\* Mutant: without the continue, the loop falls through to MarkReminderSent.
SendError_fallsThrough(r, k) ==
    /\ NextRow(r, k)
    /\ SetMark(r, k, "sent")
    /\ UNCHANGED <<now, dbVars, pc, conn, batch, lastSweep, mails, faults>>

SendError(r, k) ==
    /\ NextRow(r, k)
    /\ SetMark(r, k, FailureMark(k))
    /\ UNCHANGED <<now, dbVars, pc, conn, batch, lastSweep, mails, faults>>

\* Send reports an error although the relay has accepted the message: the
\* answer to DATA is lost, or Quit fails after it.
SendUnacknowledged(r, k) ==
    /\ faults < MaxFaults
    /\ NextRow(r, k)
    /\ SetMark(r, k, FailureMark(k))
    /\ mails' = [mails EXCEPT ![k] = @ + 1]
    /\ faults' = faults + 1
    /\ UNCHANGED <<now, dbVars, pc, conn, batch, lastSweep>>

\* The template fails: the row is skipped and stays pending.
RenderError(r, k) ==
    /\ faults < MaxFaults
    /\ NextRow(r, k)
    /\ faults' = faults + 1
    /\ UNCHANGED <<now, dbVars, pc, conn, batch, mark, lastSweep, mails>>

\* The transaction breaks under the loop and its marks are gone: a statement
\* failed ("aborted", locks kept until the end), or shutdown cancelled the
\* context or the connection dropped ("lost", locks released).  The loop does
\* not notice and keeps sending.
TxBreaks(r, how) ==
    /\ faults < MaxFaults
    /\ pc[r] = "dispatch" /\ conn[r] = "ok"
    /\ conn' = [conn EXCEPT ![r] = how]
    /\ mark' = [mark EXCEPT ![r] = NoMarks]
    /\ faults' = faults + 1
    /\ UNCHANGED <<now, dbVars, pc, batch, todo, lastSweep, mails>>

\* Mutant: a failed attempt is not counted.
ApplyMarks_uncounted(rows, m) ==
    [k \in Key |->
        CASE m[k] = "sent"   -> [rows[k] EXCEPT !.status = "sent"]
          [] m[k] = "failed" -> [rows[k] EXCEPT !.status = "failed"]
          [] OTHER           -> rows[k]]

\* The effect of the marks of one transaction on the table.
ApplyMarks(rows, m) ==
    [k \in Key |->
        CASE m[k] = "sent"   -> [rows[k] EXCEPT !.status = "sent"]
          [] m[k] = "failed" -> [rows[k] EXCEPT !.status = "failed"]
          [] m[k] = "retry"  -> [rows[k] EXCEPT !.attempts = @ + 1]
          [] OTHER           -> rows[k]]

\* Mutant: the transaction ends only when every row of it was mailed.
CommitDispatch_allSent(r) ==
    /\ pc[r] = "dispatch" /\ todo[r] = {}
    /\ \A k \in batch[r] : mark[r][k] = "sent"
    /\ log' = ApplyMarks(log, mark[r])
    /\ pc' = [pc EXCEPT ![r] = IF conn[r] = "ok" THEN "sweep" ELSE "idle"]
    /\ conn' = [conn EXCEPT ![r] = "ok"]
    /\ batch' = [batch EXCEPT ![r] = {}]
    /\ mark' = [mark EXCEPT ![r] = NoMarks]
    /\ UNCHANGED <<now, conf, settings, stars, todo, lastSweep, mails, faults>>

\* tx.Commit.  On a broken transaction it returns an error and the tick ends
\* early, without the archive sweep.
CommitDispatch(r) ==
    /\ pc[r] = "dispatch" /\ todo[r] = {}
    /\ log' = ApplyMarks(log, mark[r])
    /\ pc' = [pc EXCEPT ![r] = IF conn[r] = "ok" THEN "sweep" ELSE "idle"]
    /\ conn' = [conn EXCEPT ![r] = "ok"]
    /\ batch' = [batch EXCEPT ![r] = {}]
    /\ mark' = [mark EXCEPT ![r] = NoMarks]
    /\ UNCHANGED <<now, conf, settings, stars, todo, lastSweep, mails, faults>>

-----------------------------------------------------------------------------
(* The archive sweep that ends a tick, and the life of the process.        *)

SweepDue(r) == now - lastSweep[r] >= 1

Expired == {c \in Confs : /\ conf[c].state = "active"
                          /\ conf[c].ends # Unset
                          /\ conf[c].ends < Today(now) - GraceDays}

SweepArchive(r) ==
    /\ pc[r] = "sweep" /\ SweepDue(r)
    /\ Unlocked({k \in Key : k.conf \in Expired})
    /\ conf' = [c \in Confs |-> IF c \in Expired
                                THEN [conf[c] EXCEPT !.state = "archived"] ELSE conf[c]]
    /\ log' = CancelPending(log, {k \in Key : k.conf \in Expired})
    /\ lastSweep' = [lastSweep EXCEPT ![r] = now]
    /\ pc' = [pc EXCEPT ![r] = "idle"]
    /\ UNCHANGED <<now, settings, stars, conn, batch, todo, mark, mails, faults>>

SkipSweep(r) ==
    /\ pc[r] = "sweep" /\ ~SweepDue(r)
    /\ pc' = [pc EXCEPT ![r] = "idle"]
    /\ UNCHANGED <<now, dbVars, conn, batch, todo, mark, lastSweep, mails, faults>>

\* Mutant: lastArchiveSweep is set although the sweep has failed.
SweepFails_counted(r) ==
    /\ faults < MaxFaults
    /\ pc[r] = "sweep" /\ SweepDue(r)
    /\ pc' = [pc EXCEPT ![r] = "idle"]
    /\ lastSweep' = [lastSweep EXCEPT ![r] = now]
    /\ faults' = faults + 1
    /\ UNCHANGED <<now, dbVars, conn, batch, todo, mark, mails>>

\* Any error rolls the whole sweep back; the next tick tries again.
SweepFails(r) ==
    /\ faults < MaxFaults
    /\ pc[r] = "sweep" /\ SweepDue(r)
    /\ pc' = [pc EXCEPT ![r] = "idle"]
    /\ faults' = faults + 1
    /\ UNCHANGED <<now, dbVars, conn, batch, todo, mark, lastSweep, mails>>

\* The process dies and is started again: the database rolls its transaction
\* back, and what it kept in memory is gone.
Crash(r) ==
    /\ faults < MaxFaults
    /\ pc' = [pc EXCEPT ![r] = "idle"]
    /\ conn' = [conn EXCEPT ![r] = "ok"]
    /\ batch' = [batch EXCEPT ![r] = {}]
    /\ todo' = [todo EXCEPT ![r] = {}]
    /\ mark' = [mark EXCEPT ![r] = NoMarks]
    /\ lastSweep' = [lastSweep EXCEPT ![r] = -1]
    /\ faults' = faults + 1
    /\ UNCHANGED <<now, dbVars, mails>>

Advance ==
    /\ \E t \in Instants : t > now /\ now' = t
    /\ UNCHANGED <<dbVars, txVars, mails, faults>>

-----------------------------------------------------------------------------
Request ==
    \/ \E c \in Confs, d \in DeadlineMap, e \in EndDays \cup {Unset} :
            Create(c, d, e) \/ Update(c, d, e)
    \/ \E c \in Confs : Delete(c) \/ Archive(c) \/ Unarchive(c)
    \/ \E u \in Users, c \in Confs : Star(u, c) \/ Unstar(u, c)
    \/ \E u \in Users, s \in SettingsRow : UpdateSettings(u, s)

\* The steps the scheduler goroutine of a replica takes by itself.
Work(r) ==
    \/ BeginDispatch(r)
    \/ \E k \in Key : SendOk(r, k) \/ SendError(r, k)
    \/ CommitDispatch(r)
    \/ SweepArchive(r)
    \/ SkipSweep(r)

Fault(r) ==
    \/ \E k \in Key : SendUnacknowledged(r, k) \/ RenderError(r, k)
    \/ \E how \in {"aborted", "lost"} : TxBreaks(r, how)
    \/ SweepFails(r)
    \/ Crash(r)

Next == Request \/ Advance \/ \E r \in Replicas : Work(r) \/ Fault(r)

Spec == Init /\ [][Next]_vars

\* The ticker keeps firing while the process is up, the relay answers or
\* refuses every message (Send itself has no deadline), and time passes:
\* no request and no fault is assumed to happen.
FairSpec == Spec /\ WF_vars(Advance) /\ \A r \in Replicas : WF_vars(Work(r))

-----------------------------------------------------------------------------
(* Properties.                                                             *)

\* No stray reminder: a row waiting to be mailed belongs to a conference that
\* exists and that its user stars, to a deadline that is set and a lead time
\* the user has chosen, and its time is the one that today's deadline and
\* timezone give.  Star, Unstar, Update, Delete, Archive and UpdateSettings
\* each have to re-derive the rows they affect for this to hold.
NoStrayReminder ==
    \A k \in Key : Pending(log, k) =>
        /\ Live(k.conf) /\ <<k.user, k.conf>> \in stars
        /\ Wanted(k, conf, settings)
        /\ log[k].at = SendAt(k, conf, settings)

\* A pending reminder leaves at 09:00 on the user's own clock, exactly its lead
\* time before the calendar day that the deadline has on that clock, whatever
\* deadline and timezone edits came before: materializeReminders computes the
\* instant once, and it has to be recomputed when either changes.
LeavesAtNineLocal ==
    \A k \in Key : Pending(log, k) =>
        LET tz == settings[k.user].tz
            deadline == conf[k.conf].deadline[k.kind] IN
        /\ (log[k].at + tz) % HoursPerDay = SendHour
        /\ LocalDay(deadline, tz) - LocalDay(log[k].at, tz) = k.lead

\* No gap: every (deadline, lead time) a starring user wants has a row, of
\* whatever status; re-materialization never loses one.
NoGap ==
    \A k \in Key :
        (<<k.user, k.conf>> \in stars /\ Wanted(k, conf, settings))
            => log[k].status # "none"

\* FOR UPDATE SKIP LOCKED: a row a dispatcher holds is still pending in the
\* table, and no other dispatcher holds it.
HeldRowsArePending ==
    \A r \in Replicas : conn[r] # "lost" => \A k \in batch[r] :
        /\ Pending(log, k)
        /\ \A q \in Replicas \ {r} : conn[q] # "lost" => k \notin batch[q]

\* The retry budget: a row that may still be tried has fewer than MaxAttempts
\* failures on record, whatever happened to its earlier transactions.
AttemptsBelowMax ==
    \A k \in Key : Pending(log, k) => log[k].attempts < MaxAttempts

\* A second copy of a reminder costs a fault: however transactions, replicas,
\* requests and retries interleave, the relay never accepts more copies than
\* one plus the number of crashes, broken transactions and unheard answers.
DuplicateNeedsFault == \A k \in Key : mails[k] <= 1 + faults

\* What the table calls sent was accepted by the relay.
SentMeansMailed ==
    \A k \in Key : log[k].status = "sent" => mails[k] >= 1

\* A row that is sent, failed or cancelled is history: no step changes it or
\* takes it away except the deletion of its conference.
HistoryIsFinal ==
    [][\A k \in Key : log[k].status \in {"sent", "failed", "cancelled"} =>
            log'[k] = log[k] \/ conf'[k.conf].state = "deleted"]_vars

\* FR-13: a message leaves only while its user stars the conference, and only
\* from the time that today's deadline and settings give; a request that
\* would change this waits for the dispatcher.  The exception is a dispatcher
\* whose connection is gone, and with it the locks.
MailIsCurrent ==
    [][\A k \in Key : mails'[k] # mails[k] =>
            \/ \E r \in Replicas : conn[r] = "lost"
            \/ /\ <<k.user, k.conf>> \in stars
               /\ SendAt(k, conf, settings) <= now]_vars

\* Once requests stop, every due reminder is mailed, fails for good or is
\* cancelled: retries end, and a full batch does not starve the rest.
DueRemindersSettle ==
    (<>[][~Request]_vars) => \A k \in Key : (k \in Due) ~> (k \notin Due)

\* No row stays locked for ever, so no request waits for ever.
LocksAreReleased == \A k \in Key : Locked(k) ~> ~Locked(k)

\* A conference that has expired when the sweep is due is archived, although a
\* failing dispatch ends its tick before the sweep, a failing sweep is rolled
\* back, and requests go on editing the conference meanwhile.
ExpiredAreArchived ==
    \A c \in Confs : (c \in Expired /\ \A r \in Replicas : SweepDue(r)) ~> (c \notin Expired)

-----------------------------------------------------------------------------
(* What the worker promises: the ledger of Outbox.                         *)

LedgerRow(k) ==
    [status |-> IF log[k].status = "cancelled" THEN "dropped" ELSE log[k].status,
     tries |-> log[k].attempts]

Ledger == INSTANCE Outbox WITH
    Revocable <- Key, row <- [k \in Key |-> LedgerRow(k)], lapses <- faults

\* Refinement: seen as a ledger, replicas, locked batches, broken transactions
\* and the requests that rewrite the log together do what Outbox promises.
ImplementsOutbox == Ledger!Spec

-----------------------------------------------------------------------------
(* What the documents say and the code does not do.                        *)

\* FR-15 and ADR 0008: at most one mail per key, also across crashes.
AtMostOnce == \A k \in Key : mails[k] <= 1

\* ARCHITECTURE 8.2: starring inserts a row per set deadline and lead time of
\* the user; a key that was never mailed is then scheduled.
StarringSchedules ==
    [][\A k \in Key :
            (/\ <<k.user, k.conf>> \in stars' \ stars
             /\ Wanted(k, conf, settings) /\ mails[k] = 0)
                => log'[k].status # "cancelled"]_vars
=============================================================================
