------------------------ MODULE RemindersRefinement -------------------------
(***************************************************************************)
(* The reminder system implements the ledger of Outbox, for every number   *)
(* of users, conferences, replicas and faults.                             *)
(***************************************************************************)
EXTENDS RemindersProofs

-----------------------------------------------------------------------------
(* What the ledger needs beyond the invariants of RemindersProofs.         *)

\* A key without a row has no tries on record.
BlankRows == \A k \in Key : log[k].status = "none" => log[k].attempts = 0

\* The rows of a conference go with it.
DeletedAreBlank ==
    \A k \in Key : conf[k.conf].state = "deleted" => log[k].status = "none"

\* A row is given up only at its last try.
FailedIsLast ==
    \A r \in Replicas, k \in Key :
        mark[r][k] = "failed" => log[k].attempts + 1 >= MaxAttempts

LedgerInv == BlankRows /\ DeletedAreBlank /\ FailedIsLast

ReminderInv == TypeOK /\ ScheduleInv /\ DispatchInv /\ MailInv

\* What a request, or the archive sweep, may make of a row: nothing, a first
\* plan, a new one, or a cancellation while nobody has the row locked.
Replanned(k) ==
    \/ log'[k].status = log[k].status /\ log'[k].attempts = log[k].attempts
    \/ log[k].status = "none" /\ log'[k].status = "pending" /\ log'[k].attempts = 0
    \/ Pending(log, k) /\ log'[k].status \in {"pending", "none"} /\ log'[k].attempts = 0
    \/ /\ Pending(log, k) /\ ~Locked(k)
       /\ log'[k].status = "cancelled" /\ log'[k].attempts = log[k].attempts

\* DELETE of pending rows and re-materialization, seen at one row.
LEMMA RebuiltRow ==
    ASSUME log \in [Key -> Row], NEW K, NEW L, NEW cs, NEW ss, NEW k \in Key,
           log' = Materialize(DeletePending(log, K), L, cs, ss)
    PROVE  Replanned(k)
<1>. DEFINE rows == DeletePending(log, K)
<1>1. rows \in [Key -> Row]
  BY DeleteType
<1>2. \/ rows[k] = log[k]
      \/ Pending(log, k) /\ rows[k].status = "none" /\ rows[k].attempts = 0
  BY DEF DeletePending, NoRow
<1>3. \/ log'[k] = rows[k]
      \/ rows[k].status = "none" /\ log'[k].status = "pending" /\ log'[k].attempts = 0
  BY <1>1, MaterializeRow
<1>. QED  BY <1>2, <1>3 DEF Replanned, Pending

\* A cancelling UPDATE, seen at one row.
LEMMA CancelledRow ==
    ASSUME log \in [Key -> Row], NEW K, Unlocked(K), NEW k \in Key,
           log' = CancelPending(log, K)
    PROVE  Replanned(k)
BY DEF CancelPending, Unlocked, Replanned, Row, Pending

\* Every request but Delete replans rows.
LEMMA RequestReplans ==
    ASSUME TypeOK, Request, NEW k \in Key
    PROVE  Replanned(k) \/ \E c \in Confs : Delete(c)
<1>0. log \in [Key -> Row]
  BY DEF TypeOK
<1>1. ASSUME NEW c \in Confs, NEW d \in DeadlineMap, NEW e \in EndDays \cup {Unset},
             Create(c, d, e) \/ Update(c, d, e)
      PROVE  Replanned(k)
  <2>1. CASE Create(c, d, e)
    BY <2>1 DEF Create, Replanned
  <2>2. CASE Update(c, d, e)
    BY <1>0, <2>2, RebuiltRow DEF Update
  <2>. QED  BY <1>1, <2>1, <2>2
<1>2. ASSUME NEW c \in Confs, Archive(c) \/ Unarchive(c) PROVE Replanned(k)
  <2>1. CASE Archive(c)
    BY <1>0, <2>1, CancelledRow DEF Archive
  <2>2. CASE Unarchive(c)
    BY <2>2 DEF Unarchive, Replanned
  <2>. QED  BY <1>2, <2>1, <2>2
<1>3. ASSUME NEW u \in Users, NEW c \in Confs, Star(u, c) \/ Unstar(u, c) PROVE Replanned(k)
  <2>1. CASE Star(u, c)
    BY <1>0, <2>1, MaterializeRow DEF Star, Replanned
  <2>2. CASE Unstar(u, c)
    BY <1>0, <2>2, CancelledRow DEF Unstar
  <2>. QED  BY <1>3, <2>1, <2>2
<1>4. ASSUME NEW u \in Users, NEW s \in SettingsRow, UpdateSettings(u, s) PROVE Replanned(k)
  BY <1>0, <1>4, RebuiltRow DEF UpdateSettings
<1>. QED  BY <1>1, <1>2, <1>3, <1>4 DEF Request

\* Only Delete takes a conference away.
LEMMA OnlyDeleteDeletes ==
    ASSUME TypeOK, Request, \A c \in Confs : ~Delete(c), NEW c \in Confs
    PROVE  conf'[c].state = "deleted" => conf[c].state = "deleted"
<1>0. conf \in [Confs -> ConfRow]
  BY DEF TypeOK
<1>1. ASSUME NEW b \in Confs, NEW d \in DeadlineMap, NEW e \in EndDays \cup {Unset},
             Create(b, d, e) \/ Update(b, d, e)
      PROVE  conf'[c].state = "deleted" => conf[c].state = "deleted"
  <2>1. CASE Create(b, d, e)
    BY <1>0, <2>1 DEF Create
  <2>2. CASE Update(b, d, e)
    BY <1>0, <2>2 DEF Update, ConfRow
  <2>. QED  BY <1>1, <2>1, <2>2
<1>2. ASSUME NEW b \in Confs, Archive(b) \/ Unarchive(b)
      PROVE  conf'[c].state = "deleted" => conf[c].state = "deleted"
  BY <1>0, <1>2 DEF Archive, Unarchive, ConfRow
<1>. QED  BY <1>1, <1>2 DEF Request, Star, Unstar, UpdateSettings

-----------------------------------------------------------------------------
(* The invariant.                                                          *)

\* Marks are written on pending rows only, and a marked row is locked.
LEMMA MarkedRow ==
    ASSUME TypeOK, DispatchInv, NEW r \in Replicas, NEW k \in Key, mark[r][k] # "none"
    PROVE  /\ Pending(log, k) /\ Locked(k)
           /\ \A q \in Replicas \ {r} : mark[q][k] = "none"
BY DEF DispatchInv, MarksAreHeld, HeldRowsArePending, Locked

\* At the start no row is there.
LEMMA LedgerInit == Init => LedgerInv
BY DEF Init, LedgerInv, BlankRows, DeletedAreBlank, FailedIsLast, NoRow, NewConf, NoMarks, Key

\* A request keeps the ledger invariant.
LEMMA LedgerRequest ==
    ASSUME ReminderInv, ScheduleInv', LedgerInv, Request
    PROVE  LedgerInv'
<1>0. /\ TypeOK /\ DispatchInv /\ UNCHANGED mark
      /\ \A k \in Key : k.conf \in Confs
      /\ \A k \in Key : Pending(log', k) => Live(k.conf)'
  BY RequestFrame DEF ReminderInv, txVars, Key, ScheduleInv, NoStrayReminder, Pending
<1>1. FailedIsLast'
  <2>. SUFFICES ASSUME NEW r \in Replicas, NEW k \in Key, mark[r][k] = "failed"
                PROVE  log'[k].attempts + 1 >= MaxAttempts
    BY <1>0 DEF FailedIsLast
  <2>1. log'[k] = log[k]
    BY <1>0, MarkedRow, RequestRows
  <2>. QED  BY <2>1 DEF LedgerInv, FailedIsLast
<1>2. CASE \A c \in Confs : ~Delete(c)
  <2>1. \A k \in Key : Replanned(k)
    BY <1>0, <1>2, RequestReplans
  <2>2. BlankRows'
    BY <2>1 DEF LedgerInv, BlankRows, Replanned
  <2>3. \A k \in Key : conf'[k.conf].state = "deleted" => log[k].status = "none"
    BY <1>0, <1>2, OnlyDeleteDeletes DEF LedgerInv, DeletedAreBlank
  <2>4. DeletedAreBlank'
    BY <1>0, <2>1, <2>3 DEF DeletedAreBlank, Replanned, Pending, Live
  <2>. QED  BY <1>1, <2>2, <2>4 DEF LedgerInv
<1>3. ASSUME NEW c \in Confs, Delete(c) PROVE LedgerInv'
  <2>1. /\ \A k \in Key : log'[k] = IF k.conf = c THEN NoRow ELSE log[k]
        /\ \A b \in Confs \ {c} : conf'[b] = conf[b]
    BY <1>0, <1>3 DEF Delete, TypeOK
  <2>. QED  BY <1>0, <1>1, <2>1 DEF LedgerInv, BlankRows, DeletedAreBlank, NoRow
<1>. QED  BY <1>2, <1>3

\* A step of a scheduler that changes no row keeps it, if it gives up on a row
\* only at its last try.
LEMMA LedgerFrame ==
    ASSUME TypeOK, LedgerInv, UNCHANGED <<log, conf>>,
           \A r \in Replicas, k \in Key : mark'[r][k] = "failed" =>
                mark[r][k] = "failed" \/ log[k].attempts + 1 >= MaxAttempts
    PROVE  LedgerInv'
BY DEF LedgerInv, BlankRows, DeletedAreBlank, FailedIsLast

\* So does every step of a scheduler, and every fault.
LEMMA LedgerScheduler ==
    ASSUME ReminderInv, LedgerInv, NEW r \in Replicas, Work(r) \/ Fault(r)
    PROVE  LedgerInv'
<1>0. /\ TypeOK /\ DispatchInv
      /\ mark \in [Replicas -> [Key -> Mark]] /\ log \in [Key -> Row]
      /\ \A k \in Key : log[k].attempts \in Nat
  BY DEF ReminderInv, TypeOK, Row
<1>1. ASSUME NEW k \in Key, NEW m \in Mark, SetMark(r, k, m), UNCHANGED dbVars,
             m = "failed" => log[k].attempts + 1 >= MaxAttempts
      PROVE  LedgerInv'
  <2>1. \A q \in Replicas, j \in Key : mark'[q][j] \in {mark[q][j]} \/ (j = k /\ mark'[q][j] = m)
    BY <1>0, <1>1 DEF SetMark
  <2>. QED  BY <1>0, <1>1, <2>1, LedgerFrame DEF dbVars
<1>2. ASSUME NEW k \in Key, SendOk(r, k) PROVE LedgerInv'
  BY <1>1, <1>2 DEF SendOk, Mark
<1>3. ASSUME NEW k \in Key, SendError(r, k) \/ SendUnacknowledged(r, k) PROVE LedgerInv'
  <2>1. /\ FailureMark(k) \in Mark
        /\ FailureMark(k) = "failed" => log[k].attempts + 1 >= MaxAttempts
    BY DEF FailureMark, Mark
  <2>. QED  BY <1>1, <1>3, <2>1 DEF SendError, SendUnacknowledged
<1>4. CASE BeginDispatch(r) \/ SkipSweep(r) \/ SweepFails(r) \/ \E k \in Key : RenderError(r, k)
  <2>1. UNCHANGED <<log, conf, mark>>
    BY <1>4 DEF BeginDispatch, SkipSweep, SweepFails, RenderError, dbVars
  <2>. QED  BY <1>0, <2>1, LedgerFrame
<1>5. CASE Crash(r) \/ \E how \in {"aborted", "lost"} : TxBreaks(r, how)
  <2>1. UNCHANGED <<log, conf>> /\ mark' = [mark EXCEPT ![r] = NoMarks]
    BY <1>5 DEF Crash, TxBreaks, dbVars
  <2>2. \A q \in Replicas, k \in Key : mark'[q][k] = "failed" => mark[q][k] = "failed"
    BY <1>0, <2>1 DEF NoMarks
  <2>. QED  BY <1>0, <2>1, <2>2, LedgerFrame
<1>6. CASE SweepArchive(r)
  <2>1. \A k \in Key : Replanned(k)
    BY <1>0, <1>6, CancelledRow DEF SweepArchive
  <2>2. UNCHANGED mark /\ \A k \in Key : Locked(k) => log'[k] = log[k]
    BY <1>0, <1>6, CancelRow DEF SweepArchive, Unlocked
  <2>3. \A k \in Key : /\ conf'[k.conf].state = "deleted" => conf[k.conf].state = "deleted"
                       /\ log[k].status = "none" => log'[k].status = "none"
    <3>1. \A c \in Confs : conf'[c].state = "deleted" => conf[c].state = "deleted"
      BY <1>6 DEF SweepArchive, ReminderInv, TypeOK, ConfRow
    <3>2. \A k \in Key : k.conf \in Confs
      BY DEF Key
    <3>3. \A k \in Key : log[k].status = "none" => log'[k].status = "none"
      BY <1>0, <1>6, CancelRow DEF SweepArchive
    <3>. QED  BY <3>1, <3>2, <3>3
  <2>4. FailedIsLast'
    BY <1>0, <2>2, MarkedRow DEF LedgerInv, FailedIsLast
  <2>. QED  BY <2>1, <2>3, <2>4 DEF LedgerInv, BlankRows, DeletedAreBlank, Replanned
<1>7. CASE CommitDispatch(r)
  <2>0. /\ log' = ApplyMarks(log, mark[r]) /\ UNCHANGED conf
        /\ \A q \in Replicas, k \in Key : mark'[q][k] = "failed" => q # r /\ mark[q][k] = "failed"
    BY <1>0, <1>7 DEF CommitDispatch, NoMarks
  <2>1. \A k \in Key : mark[r][k] = "none" => log'[k] = log[k]
    BY <1>0, <2>0, ApplyMarksRow
  <2>2. \A k \in Key : log[k].status = "none" => mark[r][k] = "none"
    BY <1>0, MarkedRow DEF Pending
  <2>3. \A k \in Key : log'[k].status = "none" => log[k].status = "none"
    BY <1>0, <2>0, ApplyMarksRow DEF Mark
  <2>4. FailedIsLast'
    BY <1>0, <2>0, <2>1, MarkedRow DEF LedgerInv, FailedIsLast
  <2>. QED  BY <2>0, <2>1, <2>2, <2>3, <2>4 DEF LedgerInv, BlankRows, DeletedAreBlank
<1>. QED  BY <1>2, <1>3, <1>4, <1>5, <1>6, <1>7 DEF Work, Fault

\* The ledger invariant holds in every state, with that of Reminders.
LEMMA LedgerAlways == Spec => [](ReminderInv /\ LedgerInv)
<1>1. ReminderInv /\ ReminderInv' /\ LedgerInv /\ [Next]_vars => LedgerInv'
  <2>. SUFFICES ASSUME ReminderInv, ReminderInv', LedgerInv, [Next]_vars PROVE LedgerInv'
    OBVIOUS
  <2>1. CASE Request
    BY <2>1, LedgerRequest DEF ReminderInv
  <2>2. CASE Advance \/ UNCHANGED vars
    <3>1. UNCHANGED <<log, conf, mark>>
      BY <2>2 DEF Advance, vars, dbVars, txVars
    <3>. QED  BY <3>1, LedgerFrame DEF ReminderInv
  <2>. QED  BY <2>1, <2>2, LedgerScheduler DEF Next
<1>. QED  BY MailAlways, LedgerInit, <1>1, PTL DEF Spec, ReminderInv

-----------------------------------------------------------------------------
(* The refinement.                                                         *)

\* A copy that nobody has recorded is owed to a fault.
LEMMA UnrecordedIsExcused ==
    ASSUME ReminderInv, NEW k \in Key, ~Recorded(k)
    PROVE  /\ mails[k] <= faults
           /\ \A r \in Owing(k) : mails[k] < faults
<1>1. Owing(k) \in SUBSET Replicas
  BY DEF Owing
<1>2. /\ IsFiniteSet(Owing(k)) /\ Cardinality(Owing(k)) \in Nat
      /\ mails[k] \in Nat /\ faults \in Nat
  BY <1>1, ReplicaSets, BoundAssumption DEF ReminderInv, TypeOK
<1>3. mails[k] + Cardinality(Owing(k)) <= faults
  BY <1>2 DEF ReminderInv, MailInv, MailIsPaidFor
<1>4. \A r \in Owing(k) : Cardinality(Owing(k)) # 0
  BY <1>2, FS_EmptySet
<1>. QED  BY <1>2, <1>3, <1>4

\* A pending row that nobody marked sent is not on record.
LEMMA PendingUnrecorded ==
    ASSUME ReminderInv, NEW k \in Key, Pending(log, k), \A r \in Replicas : mark[r][k] # "sent"
    PROVE  ~Recorded(k)
BY DEF ReminderInv, ScheduleInv, NoStrayReminder, Live, Recorded, Pending

\* Replanning rows is a step of the ledger.
LEMMA ReplanRefines ==
    ASSUME ReminderInv, LedgerInv, UNCHANGED <<mails, faults>>, \A k \in Key : Replanned(k)
    PROVE  Ledger!Plan
<1>. SUFFICES ASSUME NEW k \in Key PROVE Ledger!Replan(k)
  BY DEF Ledger!Plan
<1>0. log[k].status = "none" => log[k].attempts = 0
  BY DEF LedgerInv, BlankRows
<1>1. Pending(log, k) /\ ~Locked(k) => Ledger!Excused(k)
  <2>. SUFFICES ASSUME Pending(log, k), ~Locked(k) PROVE mails[k] <= faults
    BY DEF Ledger!Excused
  <2>1. \A r \in Replicas : mark[r][k] # "sent"
    BY MarkedRow DEF ReminderInv
  <2>. QED  BY <2>1, PendingUnrecorded, UnrecordedIsExcused
<1>. QED  BY <1>0, <1>1 DEF Replanned, Ledger!Replan, Ledger!NoRow, Ledger!Planned, LedgerRow, Pending

\* So is every request.
LEMMA RequestRefines ==
    ASSUME ReminderInv, LedgerInv, Request
    PROVE  Ledger!Next
<1>0. UNCHANGED <<mails, faults>>
  BY RequestFrame
<1>1. CASE \A k \in Key : Replanned(k)
  BY <1>0, <1>1, ReplanRefines DEF Ledger!Next
<1>2. ASSUME NEW c \in Confs, Delete(c) PROVE Ledger!Next
  <2>1. \A k \in Key : log'[k] = log[k] \/ log'[k] = NoRow
    BY <1>2 DEF Delete
  <2>2. \A k \in Key : LedgerRow(k)' = LedgerRow(k) \/ LedgerRow(k)' = Ledger!NoRow
    BY <2>1 DEF LedgerRow, Ledger!NoRow, NoRow
  <2>. QED  BY <1>0, <2>2 DEF Ledger!Next, Ledger!Erase
<1>. QED  BY <1>1, <1>2, RequestReplans DEF ReminderInv

\* A message that leaves is one the ledger lets go: it is the first, or every
\* earlier one and, once the row is given up, this one are owed to lapses.
LEMMA MailRefines ==
    ASSUME ReminderInv, LedgerInv, NEW r \in Replicas, NEW k \in Key, NextRow(r, k),
           mails' = [mails EXCEPT ![k] = @ + 1], faults' \in {faults, faults + 1}, UNCHANGED log
    PROVE  Ledger!Next
<1>0. k \in todo[r] /\ TypeOK /\ mails[k] \in Nat /\ faults \in Nat
  BY BoundAssumption DEF NextRow, ReminderInv, TypeOK
<1>1. conn[r] # "lost" => ~Recorded(k) /\ Pending(log, k)
  <2>. SUFFICES ASSUME conn[r] # "lost" PROVE ~Recorded(k) /\ Pending(log, k)
    OBVIOUS
  <2>1. Pending(log, k)
    BY <1>0 DEF ReminderInv, DispatchInv, TxShape, HeldRowsArePending
  <2>. QED  BY <1>0, <2>1, TodoIsUnrecorded DEF ReminderInv, Recorded
<1>2. conn[r] = "lost" => r \in Owing(k)
  BY <1>0 DEF Owing
<1>3. mails[k] <= faults
  <2>1. CASE conn[r] # "lost"
    BY <1>1, <2>1, UnrecordedIsExcused
  <2>2. CASE conn[r] = "lost"
    <3>1. Owing(k) \in SUBSET Replicas
      BY DEF Owing
    <3>2. Cardinality(Owing(k)) \in Nat /\ Cardinality(Owing(k)) # 0
      BY <1>2, <2>2, <3>1, ReplicaSets, FS_EmptySet
    <3>3. mails[k] + Cardinality(Owing(k)) <= faults + (IF Recorded(k) THEN 1 ELSE 0)
      BY DEF ReminderInv, MailInv, MailIsPaidFor
    <3>. QED  BY <1>0, <3>2, <3>3
  <2>. QED  BY <2>1, <2>2
<1>4. log[k].status \in {"failed", "cancelled"} => mails[k] < faults
  <2>. SUFFICES ASSUME log[k].status \in {"failed", "cancelled"} PROVE mails[k] < faults
    OBVIOUS
  <2>1. ~Recorded(k)
    BY <1>0, MarkedRow DEF LedgerInv, DeletedAreBlank, Recorded, ReminderInv, Pending
  <2>. QED  BY <1>1, <1>2, <2>1, UnrecordedIsExcused DEF Pending
<1>5. Ledger!Mail(k)
  <2>1. log[k].status \in Status
    BY <1>0 DEF TypeOK, Row
  <2>2. LedgerRow(k).status \in {"failed", "dropped"} => mails[k] < faults
    BY <1>4, <2>1 DEF LedgerRow, Status
  <2>3. UNCHANGED [j \in Key |-> LedgerRow(j)]
    BY DEF LedgerRow
  <2>. QED  BY <1>3, <2>2, <2>3 DEF Ledger!Mail, Ledger!Excused
<1>. QED  BY <1>5 DEF Ledger!Next

\* Committing a batch records what became of its messages.
LEMMA CommitRefines ==
    ASSUME ReminderInv, LedgerInv, NEW r \in Replicas, CommitDispatch(r)
    PROVE  Ledger!Next
<1>0. /\ log' = ApplyMarks(log, mark[r]) /\ UNCHANGED <<mails, faults>>
      /\ log \in [Key -> Row] /\ mark[r] \in [Key -> Mark] /\ TypeOK /\ DispatchInv
  BY DEF CommitDispatch, ReminderInv, TypeOK
<1>1. ASSUME NEW k \in Key PROVE Ledger!Record(k)
  <2>0. log[k].attempts \in Nat /\ mails[k] \in Nat
    BY <1>0 DEF Row, TypeOK
  <2>1. CASE mark[r][k] = "none"
    <3>1. log'[k] = log[k]
      BY <1>0, <2>1, ApplyMarksRow
    <3>. QED  BY <3>1 DEF Ledger!Record, LedgerRow
  <2>2. CASE mark[r][k] = "sent"
    <3>1. log'[k].status = "sent" /\ log'[k].attempts = log[k].attempts
      BY <1>0, <2>2 DEF ApplyMarks, Row
    <3>2. Pending(log, k) /\ mails[k] > 0
      BY <1>0, <2>0, <2>2, MarkedRow DEF ReminderInv, MailInv, MarkedMeansMailed
    <3>. QED  BY <3>1, <3>2 DEF Ledger!Record, LedgerRow, Pending
  <2>3. CASE mark[r][k] \in {"failed", "retry"}
    <3>1. Pending(log, k) /\ \A q \in Replicas : mark[q][k] # "sent"
      BY <1>0, <2>3, MarkedRow
    <3>2. Ledger!Excused(k)
      BY <3>1, PendingUnrecorded, UnrecordedIsExcused DEF Ledger!Excused
    <3>3. CASE mark[r][k] = "failed"
      <4>1. log'[k].status = "failed" /\ log'[k].attempts = log[k].attempts
        BY <1>0, <3>3 DEF ApplyMarks, Row
      <4>2. log[k].attempts + 1 >= MaxAttempts
        BY <3>3 DEF LedgerInv, FailedIsLast
      <4>. QED  BY <3>1, <3>2, <4>1, <4>2 DEF Ledger!Record, LedgerRow, Pending
    <3>4. CASE mark[r][k] = "retry"
      <4>1. log'[k].status = log[k].status /\ log'[k].attempts = log[k].attempts + 1
        BY <1>0, <3>4, ApplyMarksRow
      <4>2. ~(log[k].attempts + 1 >= MaxAttempts)
        BY <1>0, <2>0, <3>4, BoundAssumption DEF DispatchInv, RetryHasBudget
      <4>. QED  BY <3>1, <3>2, <4>1, <4>2 DEF Ledger!Record, LedgerRow, Pending
    <3>. QED  BY <2>3, <3>3, <3>4
  <2>. QED  BY <1>0, <2>1, <2>2, <2>3 DEF Mark
<1>. QED  BY <1>0, <1>1 DEF Ledger!Next, Ledger!Settle

\* Every step of the system is a step of the ledger or leaves it alone.
LEMMA StepRefines ==
    ASSUME ReminderInv, LedgerInv, [Next]_vars
    PROVE  [Ledger!Next]_Ledger!vars
<1>1. CASE Request
  BY <1>1, RequestRefines
<1>2. ASSUME UNCHANGED <<log, mails>>, faults' \in {faults, faults + 1}
      PROVE  [Ledger!Next]_Ledger!vars
  <2>1. UNCHANGED [k \in Key |-> LedgerRow(k)]
    BY <1>2 DEF LedgerRow
  <2>. QED  BY <1>2, <2>1 DEF Ledger!Next, Ledger!Lapse, Ledger!vars
<1>3. CASE Advance \/ UNCHANGED vars
  BY <1>2, <1>3 DEF Advance, vars, dbVars
<1>4. ASSUME NEW r \in Replicas, Work(r) \/ Fault(r) PROVE [Ledger!Next]_Ledger!vars
  <2>1. ASSUME NEW k \in Key, SendOk(r, k) \/ SendUnacknowledged(r, k)
        PROVE  [Ledger!Next]_Ledger!vars
    BY <2>1, MailRefines DEF SendOk, SendUnacknowledged, dbVars
  <2>2. CASE CommitDispatch(r)
    BY <2>2, CommitRefines
  <2>3. CASE SweepArchive(r)
    <3>1. /\ log \in [Key -> Row] /\ Unlocked({k \in Key : k.conf \in Expired})
          /\ log' = CancelPending(log, {k \in Key : k.conf \in Expired})
          /\ UNCHANGED <<mails, faults>>
      BY <2>3 DEF SweepArchive, ReminderInv, TypeOK
    <3>. QED  BY <3>1, CancelledRow, ReplanRefines DEF Ledger!Next
  <2>4. CASE \/ BeginDispatch(r) \/ SkipSweep(r) \/ SweepFails(r) \/ Crash(r)
             \/ \E k \in Key : SendError(r, k) \/ RenderError(r, k)
             \/ \E how \in {"aborted", "lost"} : TxBreaks(r, how)
    BY <1>2, <2>4 DEF BeginDispatch, SkipSweep, SweepFails, Crash, SendError, RenderError, TxBreaks,
                      dbVars
  <2>. QED  BY <1>4, <2>1, <2>2, <2>3, <2>4 DEF Work, Fault
<1>. QED  BY <1>1, <1>3, <1>4 DEF Next

\* Every behaviour of the replicas, the requests and their faults is, seen as a
\* ledger of messages, a behaviour of Outbox.
THEOREM Refinement == Spec => ImplementsOutbox
<1>1. Init => Ledger!Init
  BY DEF Init, Ledger!Init, Ledger!NoRow, LedgerRow, NoRow
<1>2. ReminderInv /\ LedgerInv /\ [Next]_vars => [Ledger!Next]_Ledger!vars
  BY StepRefines
<1>. QED  BY LedgerAlways, <1>1, <1>2, PTL DEF Spec, ImplementsOutbox, Ledger!Spec
=============================================================================
