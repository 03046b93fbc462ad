------------------------------- MODULE Digests ------------------------------
(***************************************************************************)
(* The weekly digest: the probe that schedules it and the dispatcher that  *)
(* mails it.                                                               *)
(*                                                                         *)
(* scheduleDigests reads the users whose digest day and hour it is, then   *)
(* inserts one row per user, each INSERT its own transaction; what it read *)
(* may be stale by then, and another replica may be doing the same.        *)
(* dispatchDigests works like dispatchReminders: a locked batch, one mail  *)
(* after the other, one commit.  No request writes digest_dispatch_log.    *)
(***************************************************************************)
EXTENDS Schedule, FiniteSets

CONSTANTS
    Users,
    Days,           \* weekly_digest_day values in use (0 = Sunday)
    Hours,          \* weekly_digest_hour values in use
    Offsets,        \* timezones that users may choose
    Deadlines,      \* instants of deadlines that users may star
    Horizon,        \* weekly_digest_horizon_weeks
    Instants,       \* the instants the clock shows
    Replicas,
    MaxAttempts,    \* Config.MaxAttempts
    BatchLimit,     \* LIMIT of SelectDueDigests
    MaxFaults       \* bound: crashes, broken transactions, failed statements

ASSUME DigestDomains ==
    /\ Days \subseteq 0..6
    /\ Hours \subseteq 0..23
    /\ Offsets \subseteq -12..14
    /\ Deadlines \subseteq Nat
    /\ Horizon \in 1..52
    /\ Instants \subseteq Nat
    /\ IsFiniteSet(Replicas)

ASSUME DigestBounds ==
    /\ MaxAttempts \in Nat \ {0}
    /\ BatchLimit \in Nat \ {0}
    /\ MaxFaults \in Nat

VARIABLES
    now,
    settings,   \* the digest columns of user_settings
    starred,    \* the deadlines of the active conferences each user stars
    log,        \* digest_dispatch_log, as committed
    pc,         \* where each replica's tick stands
    found,      \* users the probe has read and not yet inserted
    probeAt,    \* nowTime of that probe
    conn,       \* state of the transaction of its dispatchDigests
    batch,      \* the rows that transaction selected and locked
    todo,       \* those the loop has still to reach
    mark,       \* the outcomes written in the transaction
    mails,      \* messages the relay has accepted, per row key
    faults

probeVars == <<found, probeAt>>
txVars == <<conn, batch, todo, mark>>
vars == <<now, settings, starred, log, pc, found, probeAt, conn, batch, todo,
          mark, mails, faults>>

-----------------------------------------------------------------------------
(* The calendar.  Day 0 is a Monday.                                       *)

\* EXTRACT(DOW ...): Sunday is 0.
Weekday(day) == (day + 1) % DaysPerWeek

\* Mutant: Sunday keeps its number 0.
MondayOfWeek_sundayFirst(t) == Today(t) - (Weekday(Today(t)) - 1)

\* mondayOfWeek: the UTC Monday, with Sunday counted as day 7.
MondayOfWeek(t) ==
    LET wd == Weekday(Today(t)) IN
    Today(t) - ((IF wd = 0 THEN 7 ELSE wd) - 1)

Weeks == {MondayOfWeek(t) : t \in Instants}

\* UNIQUE (user_id, week_starting)
Key == Users \X Weeks

Status == {"none", "pending", "sent", "failed", "skipped"}
Row == [status : Status, at : Instants \cup {Unset}, attempts : Nat]
NoRow == [status |-> "none", at |-> Unset, attempts |-> 0]
Mark == {"none", "sent", "failed", "retry", "skipped"}
NoMarks == [k \in Key |-> "none"]
SettingsRow == [on : BOOLEAN, day : Days, hour : Hours, tz : Offsets]

DigestTypeOK ==
    /\ now \in Instants
    /\ settings \in [Users -> SettingsRow]
    /\ starred \in [Users -> SUBSET Deadlines]
    /\ log \in [Key -> Row]
    /\ pc \in [Replicas -> {"idle", "insert", "select", "dispatch"}]
    /\ found \in [Replicas -> SUBSET Users]
    /\ probeAt \in [Replicas -> Instants]
    /\ conn \in [Replicas -> {"ok", "aborted", "lost"}]
    /\ batch \in [Replicas -> SUBSET Key]
    /\ todo \in [Replicas -> SUBSET Key]
    /\ mark \in [Replicas -> [Key -> Mark]]
    /\ mails \in [Key -> Nat]
    /\ faults \in 0..MaxFaults

\* The digest is off until the user turns it on.
Init ==
    /\ now \in Instants /\ \A t \in Instants : now <= t
    /\ settings \in [Users -> {s \in SettingsRow : ~s.on}]
    /\ starred = [u \in Users |-> {}]
    /\ log = [k \in Key |-> NoRow]
    /\ pc = [r \in Replicas |-> "idle"]
    /\ found = [r \in Replicas |-> {}]
    /\ probeAt = [r \in Replicas |-> now]
    /\ conn = [r \in Replicas |-> "ok"]
    /\ batch = [r \in Replicas |-> {}]
    /\ todo = [r \in Replicas |-> {}]
    /\ mark = [r \in Replicas |-> NoMarks]
    /\ mails = [k \in Key |-> 0]
    /\ faults = 0

-----------------------------------------------------------------------------
(* Requests, as far as they matter to the digest.  They touch no row that  *)
(* the scheduler locks.                                                    *)

UpdateSettings(u, s) ==
    /\ settings' = [settings EXCEPT ![u] = s]
    /\ UNCHANGED <<now, starred, log, pc, probeVars, txVars, mails, faults>>

\* Starring, unstarring, editing and archiving change what the user would be
\* told about.
ChangeStars(u, D) ==
    /\ starred' = [starred EXCEPT ![u] = D]
    /\ UNCHANGED <<now, settings, log, pc, probeVars, txVars, mails, faults>>

-----------------------------------------------------------------------------
(* scheduleDigests.                                                        *)

DigestDueUsers(t) ==
    {u \in Users : /\ settings[u].on
                   /\ Weekday(LocalDay(t, settings[u].tz)) = settings[u].day
                   /\ (t + settings[u].tz) % HoursPerDay = settings[u].hour
                   /\ log[<<u, MondayOfWeek(t)>>].status = "none"}

SelectDigestDueUsers(r) ==
    /\ pc[r] = "idle"
    /\ found' = [found EXCEPT ![r] = DigestDueUsers(now)]
    /\ probeAt' = [probeAt EXCEPT ![r] = now]
    /\ pc' = [pc EXCEPT ![r] = "insert"]
    /\ UNCHANGED <<now, settings, starred, log, txVars, mails, faults>>

\* Mutant: ON CONFLICT DO UPDATE instead of DO NOTHING.
InsertDigestRow_upsert(r, u) ==
    LET k == <<u, MondayOfWeek(probeAt[r])>> IN
    /\ pc[r] = "insert" /\ u \in found[r]
    /\ log' = [log EXCEPT ![k] = [status |-> "pending", at |-> probeAt[r], attempts |-> 0]]
    /\ found' = [found EXCEPT ![r] = @ \ {u}]
    /\ UNCHANGED <<now, settings, starred, pc, probeAt, txVars, mails, faults>>

\* Mutant: the row is scheduled for the Monday's midnight instead of now.
InsertDigestRow_midnight(r, u) ==
    LET monday == MondayOfWeek(probeAt[r]) IN
    /\ pc[r] = "insert" /\ u \in found[r]
    /\ log' = [log EXCEPT ![<<u, monday>>] = [status |-> "pending",
                    at |-> monday * HoursPerDay, attempts |-> 0]]
    /\ found' = [found EXCEPT ![r] = @ \ {u}]
    /\ UNCHANGED <<now, settings, starred, pc, probeAt, txVars, mails, faults>>

\* INSERT ... ON CONFLICT (user_id, week_starting) DO NOTHING, autocommitted.
InsertDigestRow(r, u) ==
    LET k == <<u, MondayOfWeek(probeAt[r])>> IN
    /\ pc[r] = "insert" /\ u \in found[r]
    /\ log' = IF log[k].status = "none"
              THEN [log EXCEPT ![k] = [status |-> "pending", at |-> probeAt[r],
                                       attempts |-> 0]]
              ELSE log
    /\ found' = [found EXCEPT ![r] = @ \ {u}]
    /\ UNCHANGED <<now, settings, starred, pc, probeAt, txVars, mails, faults>>

\* The error is logged and the loop goes on to the next user.
InsertFails(r, u) ==
    /\ faults < MaxFaults
    /\ pc[r] = "insert" /\ u \in found[r]
    /\ found' = [found EXCEPT ![r] = @ \ {u}]
    /\ faults' = faults + 1
    /\ UNCHANGED <<now, settings, starred, log, pc, probeAt, txVars, mails>>

ProbeDone(r) ==
    /\ pc[r] = "insert" /\ found[r] = {}
    /\ pc' = [pc EXCEPT ![r] = "select"]
    /\ UNCHANGED <<now, settings, starred, log, probeVars, txVars, mails, faults>>

-----------------------------------------------------------------------------
(* dispatchDigests.                                                        *)

Due == {k \in Key : log[k].status = "pending" /\ log[k].at <= now}
Locked(k) == \E r \in Replicas : conn[r] # "lost" /\ k \in batch[r]

\* Mutant: without FOR UPDATE SKIP LOCKED.
SelectDueDigests_noSkip(B) ==
    /\ B \subseteq Due
    /\ Cardinality(B) <= BatchLimit
    /\ B # Due => Cardinality(B) = BatchLimit

\* ORDER BY scheduled_for LIMIT n FOR UPDATE OF d SKIP LOCKED.
SelectDueDigests(B) ==
    LET free == {k \in Due : ~Locked(k)} IN
    /\ B \subseteq free
    /\ Cardinality(B) <= BatchLimit
    /\ B # free => Cardinality(B) = BatchLimit
    /\ \A k \in B, j \in free \ B : log[k].at <= log[j].at

BeginDispatch(r) ==
    /\ pc[r] = "select"
    /\ \E B \in SUBSET Due :
        /\ SelectDueDigests(B)
        /\ batch' = [batch EXCEPT ![r] = B]
        /\ todo' = [todo EXCEPT ![r] = B]
    /\ pc' = [pc EXCEPT ![r] = "dispatch"]
    /\ UNCHANGED <<now, settings, starred, log, probeVars, conn, mark, mails, faults>>

\* buildDigestItems: deadlines after now and no later than the horizon.
DigestItems(u) ==
    {d \in starred[u] : d > now /\ d <= now + Horizon * DaysPerWeek * HoursPerDay}

\* The loop takes the rows in any order once the locks are gone.
NextRow(r, k) ==
    /\ pc[r] = "dispatch"
    /\ k \in todo[r]
    /\ conn[r] # "lost" => \A j \in todo[r] : log[k].at <= log[j].at
    /\ todo' = [todo EXCEPT ![r] = @ \ {k}]

\* A mark is written only while the transaction is usable.
SetMark(r, k, m) ==
    mark' = IF conn[r] = "ok" THEN [mark EXCEPT ![r][k] = m] ELSE mark

\* Mutant: the digest is sent although there is nothing to tell.
SkipEmpty_sends(r, k) ==
    /\ NextRow(r, k)
    /\ DigestItems(k[1]) = {}
    /\ SetMark(r, k, "skipped")
    /\ mails' = [mails EXCEPT ![k] = @ + 1]
    /\ UNCHANGED <<now, settings, starred, log, pc, probeVars, conn, batch, faults>>

SkipEmpty(r, k) ==
    /\ NextRow(r, k)
    /\ DigestItems(k[1]) = {}
    /\ SetMark(r, k, "skipped")
    /\ UNCHANGED <<now, settings, starred, log, pc, probeVars, conn, batch, mails, faults>>

SendOk(r, k) ==
    /\ NextRow(r, k)
    /\ DigestItems(k[1]) # {}
    /\ SetMark(r, k, "sent")
    /\ mails' = [mails EXCEPT ![k] = @ + 1]
    /\ UNCHANGED <<now, settings, starred, log, pc, probeVars, conn, batch, faults>>

\* Mutant: Config.MaxAttempts is left at zero.
FailureMark_unset(k) == IF log[k].attempts + 1 >= 0 THEN "failed" ELSE "retry"

\* The outcome of a Send that returned an error.
FailureMark(k) == IF log[k].attempts + 1 >= MaxAttempts THEN "failed" ELSE "retry"

\* Mutant: the row of a failed digest is left as it is.
SendError_unmarked(r, k) ==
    /\ NextRow(r, k)
    /\ DigestItems(k[1]) # {}
    /\ UNCHANGED <<now, settings, starred, log, pc, probeVars, conn, batch, mark,
                   mails, faults>>

SendError(r, k) ==
    /\ NextRow(r, k)
    /\ DigestItems(k[1]) # {}
    /\ SetMark(r, k, FailureMark(k))
    /\ UNCHANGED <<now, settings, starred, log, pc, probeVars, conn, batch, mails, faults>>

\* The relay has accepted the message, but Send reports an error.
SendUnacknowledged(r, k) ==
    /\ faults < MaxFaults
    /\ NextRow(r, k)
    /\ DigestItems(k[1]) # {}
    /\ SetMark(r, k, FailureMark(k))
    /\ mails' = [mails EXCEPT ![k] = @ + 1]
    /\ faults' = faults + 1
    /\ UNCHANGED <<now, settings, starred, log, pc, probeVars, conn, batch>>

\* buildDigestItems or the template fails: the row stays pending.
BuildFails(r, k) ==
    /\ faults < MaxFaults
    /\ NextRow(r, k)
    /\ faults' = faults + 1
    /\ UNCHANGED <<now, settings, starred, log, pc, probeVars, conn, batch, mark, mails>>

\* A failed statement aborts the transaction, or its connection is lost, while
\* the loop goes on.
TxBreaks(r, how) ==
    /\ faults < MaxFaults
    /\ pc[r] = "dispatch" /\ conn[r] = "ok"
    /\ conn' = [conn EXCEPT ![r] = how]
    /\ mark' = [mark EXCEPT ![r] = NoMarks]
    /\ faults' = faults + 1
    /\ UNCHANGED <<now, settings, starred, log, pc, probeVars, batch, todo, mails>>

\* The effect of the marks of one transaction on the table.
ApplyMarks(rows, m) ==
    [k \in Key |->
        CASE m[k] \in {"sent", "failed", "skipped"} -> [rows[k] EXCEPT !.status = m[k]]
          [] m[k] = "retry" -> [rows[k] EXCEPT !.attempts = @ + 1]
          [] OTHER          -> rows[k]]

CommitDispatch(r) ==
    /\ pc[r] = "dispatch" /\ todo[r] = {}
    /\ log' = ApplyMarks(log, mark[r])
    /\ pc' = [pc EXCEPT ![r] = "idle"]
    /\ conn' = [conn EXCEPT ![r] = "ok"]
    /\ batch' = [batch EXCEPT ![r] = {}]
    /\ mark' = [mark EXCEPT ![r] = NoMarks]
    /\ UNCHANGED <<now, settings, starred, probeVars, todo, mails, faults>>

-----------------------------------------------------------------------------
\* The process dies and is started again.
Crash(r) ==
    /\ faults < MaxFaults
    /\ pc' = [pc EXCEPT ![r] = "idle"]
    /\ found' = [found EXCEPT ![r] = {}]
    /\ conn' = [conn EXCEPT ![r] = "ok"]
    /\ batch' = [batch EXCEPT ![r] = {}]
    /\ todo' = [todo EXCEPT ![r] = {}]
    /\ mark' = [mark EXCEPT ![r] = NoMarks]
    /\ faults' = faults + 1
    /\ UNCHANGED <<now, settings, starred, log, probeAt, mails>>

Advance ==
    /\ \E t \in Instants : t > now /\ now' = t
    /\ UNCHANGED <<settings, starred, log, pc, probeVars, txVars, mails, faults>>

Request ==
    \/ \E u \in Users, s \in SettingsRow : UpdateSettings(u, s)
    \/ \E u \in Users, D \in SUBSET Deadlines : ChangeStars(u, D)

Work(r) ==
    \/ SelectDigestDueUsers(r)
    \/ \E u \in Users : InsertDigestRow(r, u)
    \/ ProbeDone(r)
    \/ BeginDispatch(r)
    \/ \E k \in Key : SkipEmpty(r, k) \/ SendOk(r, k) \/ SendError(r, k)
    \/ CommitDispatch(r)

Fault(r) ==
    \/ \E u \in Users : InsertFails(r, u)
    \/ \E k \in Key : SendUnacknowledged(r, k) \/ BuildFails(r, k)
    \/ \E how \in {"aborted", "lost"} : TxBreaks(r, how)
    \/ Crash(r)

Next == Request \/ Advance \/ \E r \in Replicas : Work(r) \/ Fault(r)

Spec == Init /\ [][Next]_vars

\* The ticker keeps firing and the relay answers or refuses every message.
FairSpec == Spec /\ \A r \in Replicas : WF_vars(Work(r))

-----------------------------------------------------------------------------
(* Properties.                                                             *)

\* The week a row is filed under is the UTC week, Monday to Sunday, that holds
\* the instant it was scheduled at: mondayOfWeek is right on Sundays too, and
\* the probe files the row under the week it looked at.
FiledUnderItsWeek ==
    \A k \in Key : log[k].status # "none" =>
        /\ k[2] % DaysPerWeek = 0
        /\ k[2] <= Today(log[k].at) /\ Today(log[k].at) < k[2] + DaysPerWeek

\* Every digest that is due is mailed, skipped or fails for good.
DigestsSettle == \A k \in Key : (k \in Due) ~> (k \notin Due)

-----------------------------------------------------------------------------
(* What the worker promises: the ledger of Outbox.                         *)

LedgerRow(k) ==
    [status |-> IF log[k].status = "skipped" THEN "dropped" ELSE log[k].status,
     tries |-> log[k].attempts]

Ledger == INSTANCE Outbox WITH
    Revocable <- {}, row <- [k \in Key |-> LedgerRow(k)], lapses <- faults

\* Refinement: probes that insert what they read earlier, locked batches and
\* broken transactions together do what Outbox promises, and no row is ever
\* taken back.
ImplementsOutbox == Ledger!Spec
=============================================================================
