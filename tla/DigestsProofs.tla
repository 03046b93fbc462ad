--------------------------- MODULE DigestsProofs ----------------------------
(***************************************************************************)
(* Proofs about Digests, for every number of users, replicas and faults    *)
(* and every set of instants: type correctness, the week a digest is filed *)
(* under, and that the workers implement the ledger of Outbox.             *)
(***************************************************************************)
EXTENDS Digests, FiniteSetTheorems, TLAPS

-----------------------------------------------------------------------------
(* The calendar.                                                           *)

\* mondayOfWeek returns a Monday, at most six days before the day it is given,
\* on Sundays as on every other day.
LEMMA MondayStartsWeek ==
    ASSUME NEW t \in Nat
    PROVE  /\ MondayOfWeek(t) % DaysPerWeek = 0
           /\ MondayOfWeek(t) <= Today(t) /\ Today(t) < MondayOfWeek(t) + DaysPerWeek
<1>. DEFINE d == Today(t)
            wd == Weekday(d)
<1>1. d \in Int
  BY DEF Today, LocalDay, HoursPerDay
<1>2. wd = (d + 1) % 7 /\ MondayOfWeek(t) = d - ((IF wd = 0 THEN 7 ELSE wd) - 1)
  BY DEF MondayOfWeek, Weekday, DaysPerWeek
<1>. HIDE DEF d, wd
<1>3. /\ MondayOfWeek(t) % 7 = 0
      /\ MondayOfWeek(t) <= d /\ d < MondayOfWeek(t) + 7
  BY <1>1, <1>2
<1>. QED  BY <1>3 DEF d, DaysPerWeek

\* The instant of a probe names a key of the table.
LEMMA ProbeKey ==
    ASSUME NEW u \in Users, NEW t \in Instants
    PROVE  <<u, MondayOfWeek(t)>> \in Key
BY DEF Key, Weeks

-----------------------------------------------------------------------------
(* Type correctness.                                                       *)

\* Committing the marks of a dispatch keeps the table well typed.
LEMMA ApplyMarksType ==
    ASSUME NEW rows \in [Key -> Row], NEW m \in [Key -> Mark]
    PROVE  ApplyMarks(rows, m) \in [Key -> Row]
BY DEF ApplyMarks, Row, Status, Mark

\* What one row is after the marks of a dispatch are committed.
LEMMA ApplyMarksRow ==
    ASSUME NEW rows \in [Key -> Row], NEW m \in [Key -> Mark], NEW k \in Key
    PROVE  /\ ApplyMarks(rows, m)[k].at = rows[k].at
           /\ m[k] = "none" => ApplyMarks(rows, m)[k] = rows[k]
           /\ m[k] \in {"sent", "failed", "skipped"} =>
                /\ ApplyMarks(rows, m)[k].status = m[k]
                /\ ApplyMarks(rows, m)[k].attempts = rows[k].attempts
           /\ m[k] = "retry" =>
                /\ ApplyMarks(rows, m)[k].status = rows[k].status
                /\ ApplyMarks(rows, m)[k].attempts = rows[k].attempts + 1
BY DEF ApplyMarks, Row, Status, Mark

\* What one row is after the INSERT of a probe.
LEMMA InsertedRow ==
    ASSUME DigestTypeOK, NEW r \in Replicas, NEW u \in Users, InsertDigestRow(r, u),
           NEW k \in Key
    PROVE  /\ log' \in [Key -> Row]
           /\ \/ log'[k] = log[k]
              \/ /\ log[k].status = "none"
                 /\ k[2] = MondayOfWeek(probeAt[r])
                 /\ log'[k] = [status |-> "pending", at |-> probeAt[r], attempts |-> 0]
<1>0. log \in [Key -> Row] /\ probeAt[r] \in Instants
  BY DEF DigestTypeOK
<1>. DEFINE i == <<u, MondayOfWeek(probeAt[r])>>
            new == [status |-> "pending", at |-> probeAt[r], attempts |-> 0]
<1>1. i \in Key /\ new \in Row
  BY <1>0, ProbeKey DEF Row, Status
<1>2. log' = IF log[i].status = "none" THEN [log EXCEPT ![i] = new] ELSE log
  BY DEF InsertDigestRow
<1>3. i[2] = MondayOfWeek(probeAt[r])
  OBVIOUS
<1>. HIDE DEF i, new
<1>4. /\ log' \in [Key -> Row]
      /\ log'[k] = log[k] \/ (k = i /\ log[k].status = "none" /\ log'[k] = new)
  BY <1>0, <1>1, <1>2
<1>. QED  BY <1>3, <1>4 DEF new

\* The tables and the workers start well typed.
LEMMA TypeInit == Init => DigestTypeOK
BY DigestBounds DEF Init, DigestTypeOK, Row, Status, NoRow, NoMarks, Mark

\* A failed send has a mark of its own, and it is not "sent".
LEMMA FailureMarks ==
    ASSUME DigestTypeOK, NEW k \in Key
    PROVE  /\ FailureMark(k) \in Mark /\ FailureMark(k) # "sent"
           /\ FailureMark(k) = "retry" => ~(log[k].attempts + 1 >= MaxAttempts)
           /\ FailureMark(k) = "failed" => log[k].attempts + 1 >= MaxAttempts
BY DEF FailureMark, Mark

\* Every step of a worker keeps the types, faults included.
LEMMA TypeWorker ==
    ASSUME DigestTypeOK, NEW r \in Replicas, Work(r) \/ Fault(r)
    PROVE  DigestTypeOK'
<1>. USE DEF DigestTypeOK, probeVars, txVars
<1>1. CASE SelectDigestDueUsers(r)
  BY <1>1 DEF SelectDigestDueUsers, DigestDueUsers
<1>2. ASSUME NEW u \in Users, InsertDigestRow(r, u) PROVE DigestTypeOK'
  <2>1. log' \in [Key -> Row]
    BY <1>2, InsertedRow DEF InsertDigestRow
  <2>. QED  BY <1>2, <2>1 DEF InsertDigestRow
<1>3. CASE ProbeDone(r)
  BY <1>3 DEF ProbeDone
<1>4. CASE BeginDispatch(r)
  BY <1>4 DEF BeginDispatch, Due
<1>5. ASSUME NEW k \in Key, SkipEmpty(r, k) \/ SendOk(r, k) PROVE DigestTypeOK'
  <2>1. CASE SkipEmpty(r, k)
    BY <2>1 DEF SkipEmpty, NextRow, SetMark, Mark
  <2>2. CASE SendOk(r, k)
    BY <2>2 DEF SendOk, NextRow, SetMark, Mark
  <2>. QED  BY <1>5, <2>1, <2>2
<1>6. ASSUME NEW k \in Key, SendError(r, k) PROVE DigestTypeOK'
  BY <1>6, FailureMarks DEF SendError, NextRow, SetMark
<1>7. CASE CommitDispatch(r)
  BY <1>7, ApplyMarksType DEF CommitDispatch, NoMarks, Mark
<1>8. ASSUME NEW u \in Users, InsertFails(r, u) PROVE DigestTypeOK'
  BY <1>8, DigestBounds DEF InsertFails
<1>9. ASSUME NEW k \in Key, SendUnacknowledged(r, k) PROVE DigestTypeOK'
  BY <1>9, FailureMarks, DigestBounds DEF SendUnacknowledged, NextRow, SetMark
<1>10. ASSUME NEW k \in Key, BuildFails(r, k) PROVE DigestTypeOK'
  BY <1>10, DigestBounds DEF BuildFails, NextRow
<1>11. ASSUME NEW how \in {"aborted", "lost"}, TxBreaks(r, how) PROVE DigestTypeOK'
  BY <1>11, DigestBounds DEF TxBreaks, NoMarks, Mark
<1>12. CASE Crash(r)
  BY <1>12, DigestBounds DEF Crash, NoMarks, Mark
<1>. QED  BY <1>1, <1>2, <1>3, <1>4, <1>5, <1>6, <1>7, <1>8, <1>9, <1>10, <1>11, <1>12
          DEF Work, Fault

\* Type correctness of the digest: the table, the probes, the dispatch
\* transactions and the counters keep their types in every behaviour.
THEOREM TypeCorrect == Spec => []DigestTypeOK
<1>1. DigestTypeOK /\ [Next]_vars => DigestTypeOK'
  <2>. SUFFICES ASSUME DigestTypeOK, [Next]_vars PROVE DigestTypeOK'
    OBVIOUS
  <2>1. CASE Request
    BY <2>1 DEF Request, UpdateSettings, ChangeStars, DigestTypeOK, probeVars, txVars
  <2>2. CASE Advance \/ UNCHANGED vars
    BY <2>2 DEF Advance, vars, DigestTypeOK, probeVars, txVars
  <2>. QED  BY <2>1, <2>2, TypeWorker DEF Next
<1>. QED  BY TypeInit, <1>1, PTL DEF Spec

-----------------------------------------------------------------------------
(* The dispatch transactions: locks, marks and tries.                      *)

Pending(k) == log[k].status = "pending"

\* Outside dispatchDigests no transaction is open; the loop's remaining rows
\* are among those it locked.
TxShape ==
    \A r \in Replicas :
        /\ todo[r] \subseteq batch[r]
        /\ pc[r] # "dispatch" => conn[r] = "ok" /\ batch[r] = {}

\* A locked row is pending and has one holder.
HeldRowsArePending ==
    \A r \in Replicas : conn[r] # "lost" => \A k \in batch[r] :
        /\ Pending(k)
        /\ \A q \in Replicas \ {r} : conn[q] # "lost" => k \notin batch[q]

\* A mark exists only in a usable transaction, for a row the loop has passed,
\* and a failure is final exactly at the last try.
MarksAreHeld ==
    \A r \in Replicas, k \in Key : mark[r][k] # "none" =>
        /\ conn[r] = "ok" /\ k \in batch[r] /\ k \notin todo[r]
        /\ mark[r][k] = "retry" => ~(log[k].attempts + 1 >= MaxAttempts)
        /\ mark[r][k] = "failed" => log[k].attempts + 1 >= MaxAttempts

DispatchInv == TxShape /\ HeldRowsArePending /\ MarksAreHeld

\* A marked row is pending, and nobody else has marked it.
LEMMA MarkedRow ==
    ASSUME DigestTypeOK, DispatchInv, NEW r \in Replicas, NEW k \in Key, mark[r][k] # "none"
    PROVE  Pending(k) /\ \A q \in Replicas \ {r} : mark[q][k] = "none"
BY DEF DispatchInv, MarksAreHeld, HeldRowsArePending

\* No dispatcher holds anything at first.
LEMMA DispatchInit == Init => DispatchInv
BY DEF Init, DispatchInv, TxShape, HeldRowsArePending, MarksAreHeld, NoMarks

\* A step that changes no pending row and no transaction keeps it.
LEMMA DispatchFrame ==
    ASSUME DigestTypeOK, DispatchInv, UNCHANGED txVars,
           \A k \in Key : Pending(k) => log'[k] = log[k],
           \A r \in Replicas : pc'[r] = "dispatch" <=> pc[r] = "dispatch"
    PROVE  DispatchInv'
<1>. USE DEF DispatchInv, txVars
<1>1. TxShape'
  BY DEF TxShape
<1>2. HeldRowsArePending'
  BY DEF HeldRowsArePending, Pending, DigestTypeOK
<1>3. MarksAreHeld'
  <2>. SUFFICES ASSUME NEW r \in Replicas, NEW k \in Key, mark[r][k] # "none"
                PROVE  log'[k] = log[k]
    BY DEF MarksAreHeld
  <2>. QED  BY MarkedRow
<1>. QED  BY <1>1, <1>2, <1>3

\* Selecting a batch locks rows that are pending and that nobody holds.
LEMMA DispatchBegin ==
    ASSUME DigestTypeOK, DispatchInv, NEW r \in Replicas, BeginDispatch(r)
    PROVE  DispatchInv'
<1>. USE DEF DispatchInv
<1>1. PICK B \in SUBSET Due : /\ SelectDueDigests(B)
                              /\ batch' = [batch EXCEPT ![r] = B]
                              /\ todo' = [todo EXCEPT ![r] = B]
  BY DEF BeginDispatch
<1>2. /\ pc[r] = "select" /\ pc' = [pc EXCEPT ![r] = "dispatch"]
      /\ UNCHANGED <<log, conn, mark>>
  BY DEF BeginDispatch
<1>3. B \subseteq Key /\ \A k \in B : Pending(k) /\ ~Locked(k)
  BY <1>1 DEF Due, SelectDueDigests, Pending
<1>4. conn[r] = "ok" /\ \A k \in Key : mark[r][k] = "none"
  BY <1>2 DEF TxShape, MarksAreHeld
<1>5. \A q \in Replicas : /\ batch'[q] = IF q = r THEN B ELSE batch[q]
                          /\ todo'[q] = IF q = r THEN B ELSE todo[q]
                          /\ pc'[q] = IF q = r THEN "dispatch" ELSE pc[q]
  BY <1>1, <1>2 DEF DigestTypeOK
<1>6. TxShape'
  BY <1>2, <1>4, <1>5 DEF TxShape
<1>7. MarksAreHeld'
  BY <1>2, <1>4, <1>5 DEF MarksAreHeld
<1>8. HeldRowsArePending'
  <2>. SUFFICES ASSUME NEW p \in Replicas, conn[p] # "lost", NEW k \in batch'[p]
                PROVE  /\ Pending(k)
                       /\ \A q \in Replicas \ {p} : conn[q] # "lost" => k \notin batch'[q]
    BY <1>2 DEF HeldRowsArePending, Pending
  <2>1. CASE p = r
    BY <1>3, <1>5, <2>1 DEF Locked
  <2>2. CASE p # r
    BY <1>3, <1>5, <2>2 DEF Locked, HeldRowsArePending
  <2>. QED  BY <2>1, <2>2
<1>. QED  BY <1>6, <1>7, <1>8

\* The loop takes row k, writes m if it can, and goes on.
LEMMA DispatchRow ==
    ASSUME DigestTypeOK, DispatchInv, NEW r \in Replicas, NEW k \in Key, NEW m \in Mark,
           NextRow(r, k), SetMark(r, k, m),
           m = "retry" => ~(log[k].attempts + 1 >= MaxAttempts),
           m = "failed" => log[k].attempts + 1 >= MaxAttempts,
           UNCHANGED <<log, pc, conn, batch>>
    PROVE  DispatchInv'
<1>. USE DEF DispatchInv
<1>0. /\ k \in todo[r] /\ k \in batch[r] /\ todo' = [todo EXCEPT ![r] = @ \ {k}]
      /\ mark \in [Replicas -> [Key -> Mark]] /\ todo \in [Replicas -> SUBSET Key]
  BY DEF NextRow, TxShape, DigestTypeOK
<1>1. \A q \in Replicas, j \in Key :
          mark'[q][j] = IF conn[r] = "ok" /\ q = r /\ j = k THEN m ELSE mark[q][j]
  BY <1>0 DEF SetMark
<1>2. TxShape'
  BY <1>0 DEF TxShape
<1>3. MarksAreHeld'
  BY <1>0, <1>1 DEF MarksAreHeld
<1>4. HeldRowsArePending'
  BY DEF HeldRowsArePending, Pending
<1>. QED  BY <1>2, <1>3, <1>4

\* The transaction of r is gone, with its marks: no lock is gained, and no
\* row changes.
LEMMA DispatchDrop ==
    ASSUME DigestTypeOK, DispatchInv, NEW r \in Replicas, UNCHANGED log,
           mark' = [mark EXCEPT ![r] = NoMarks],
           \A q \in Replicas : q # r =>
              /\ pc'[q] = pc[q] /\ conn'[q] = conn[q]
              /\ batch'[q] = batch[q] /\ todo'[q] = todo[q],
           todo'[r] \subseteq batch'[r], batch'[r] \subseteq batch[r],
           pc'[r] # "dispatch" => conn'[r] = "ok" /\ batch'[r] = {},
           batch'[r] # {} => conn[r] = "ok"
    PROVE  DispatchInv'
<1>. USE DEF DispatchInv
<1>0. \A q \in Replicas, k \in Key :
          mark'[q][k] = IF q = r THEN "none" ELSE mark[q][k]
  BY DEF NoMarks, DigestTypeOK
<1>1. TxShape'
  BY DEF TxShape
<1>2. MarksAreHeld'
  BY <1>0 DEF MarksAreHeld
<1>3. \A q \in Replicas, k \in Key :
          (conn'[q] # "lost" /\ k \in batch'[q]) => (conn[q] # "lost" /\ k \in batch[q])
  OBVIOUS
<1>4. HeldRowsArePending'
  <2>. SUFFICES ASSUME NEW p \in Replicas, conn'[p] # "lost", NEW k \in batch'[p]
                PROVE  /\ Pending(k)
                       /\ \A q \in Replicas \ {p} : conn'[q] # "lost" => k \notin batch'[q]
    BY DEF HeldRowsArePending, Pending
  <2>1. k \in Key
    BY DEF DigestTypeOK
  <2>. QED  BY <1>3, <2>1 DEF HeldRowsArePending
<1>. QED  BY <1>1, <1>2, <1>4

\* Committing changes only rows of the committer's own batch.
LEMMA DispatchCommit ==
    ASSUME DigestTypeOK, DispatchInv, NEW r \in Replicas, CommitDispatch(r)
    PROVE  DispatchInv'
<1>. USE DEF DispatchInv
<1>0. /\ log \in [Key -> Row] /\ mark[r] \in [Key -> Mark]
      /\ log' = ApplyMarks(log, mark[r]) /\ UNCHANGED todo /\ todo[r] = {}
  BY DEF DigestTypeOK, CommitDispatch
<1>1. \A q \in Replicas :
        /\ batch'[q] = IF q = r THEN {} ELSE batch[q]
        /\ conn'[q] = IF q = r THEN "ok" ELSE conn[q]
        /\ mark'[q] = IF q = r THEN NoMarks ELSE mark[q]
        /\ q # r => pc'[q] = pc[q]
        /\ pc'[r] # "dispatch"
  BY DEF CommitDispatch, DigestTypeOK
<1>2. ASSUME NEW q \in Replicas \ {r}, conn[q] # "lost", NEW k \in batch[q]
      PROVE  log'[k] = log[k]
  <2>1. k \in Key
    BY DEF DigestTypeOK
  <2>2. mark[r][k] = "none"
    BY <1>2, <2>1 DEF MarksAreHeld, HeldRowsArePending
  <2>. QED  BY <1>0, <2>1, <2>2, ApplyMarksRow
<1>3. TxShape'
  BY <1>0, <1>1 DEF TxShape
<1>4. HeldRowsArePending'
  BY <1>1, <1>2 DEF HeldRowsArePending, Pending
<1>5. MarksAreHeld'
  <2>. SUFFICES ASSUME NEW q \in Replicas, NEW k \in Key, mark'[q][k] # "none"
                PROVE  /\ q # r /\ mark'[q][k] = mark[q][k]
                       /\ log'[k] = log[k]
    BY <1>0, <1>1 DEF MarksAreHeld
  <2>1. q # r /\ mark'[q] = mark[q]
    BY <1>1 DEF NoMarks
  <2>. QED  BY <1>2, <2>1 DEF MarksAreHeld
<1>. QED  BY <1>3, <1>4, <1>5

\* Every step of a worker keeps the invariant of the dispatchers.
LEMMA DispatchWorker ==
    ASSUME DigestTypeOK, DispatchInv, NEW r \in Replicas, Work(r) \/ Fault(r)
    PROVE  DispatchInv'
<1>1. CASE SelectDigestDueUsers(r) \/ ProbeDone(r) \/ \E u \in Users : InsertFails(r, u)
  <2>1. /\ UNCHANGED <<txVars, log>>
        /\ \A q \in Replicas : pc'[q] = "dispatch" <=> pc[q] = "dispatch"
    BY <1>1 DEF SelectDigestDueUsers, ProbeDone, InsertFails, DigestTypeOK
  <2>. QED  BY <2>1, DispatchFrame
<1>2. ASSUME NEW u \in Users, InsertDigestRow(r, u) PROVE DispatchInv'
  <2>1. UNCHANGED <<txVars, pc>>
    BY <1>2 DEF InsertDigestRow
  <2>2. \A k \in Key : Pending(k) => log'[k] = log[k]
    BY <1>2, InsertedRow DEF Pending
  <2>. QED  BY <2>1, <2>2, DispatchFrame
<1>3. CASE BeginDispatch(r)
  BY <1>3, DispatchBegin
<1>4. ASSUME NEW k \in Key, SkipEmpty(r, k) \/ SendOk(r, k) PROVE DispatchInv'
  <2>1. /\ NextRow(r, k) /\ UNCHANGED <<log, pc, conn, batch>>
        /\ SetMark(r, k, "sent") \/ SetMark(r, k, "skipped")
        /\ "sent" \in Mark /\ "skipped" \in Mark
    BY <1>4 DEF SkipEmpty, SendOk, Mark
  <2>. QED  BY <2>1, DispatchRow
<1>5. ASSUME NEW k \in Key, SendError(r, k) \/ SendUnacknowledged(r, k)
      PROVE  DispatchInv'
  <2>1. /\ NextRow(r, k) /\ SetMark(r, k, FailureMark(k))
        /\ UNCHANGED <<log, pc, conn, batch>>
    BY <1>5 DEF SendError, SendUnacknowledged
  <2>. QED  BY <2>1, DispatchRow, FailureMarks
<1>6. ASSUME NEW k \in Key, BuildFails(r, k) PROVE DispatchInv'
  <2>1. /\ todo' = [todo EXCEPT ![r] = @ \ {k}]
        /\ UNCHANGED <<log, pc, conn, batch, mark>>
        /\ todo \in [Replicas -> SUBSET Key]
    BY <1>6 DEF BuildFails, NextRow, DigestTypeOK
  <2>. QED  BY <2>1 DEF DispatchInv, TxShape, HeldRowsArePending, MarksAreHeld, Pending
<1>7. CASE CommitDispatch(r)
  BY <1>7, DispatchCommit
<1>8. ASSUME NEW how \in {"aborted", "lost"}, TxBreaks(r, how) PROVE DispatchInv'
  <2>1. /\ mark' = [mark EXCEPT ![r] = NoMarks] /\ conn[r] = "ok" /\ pc[r] = "dispatch"
        /\ UNCHANGED <<log, pc, batch, todo>>
        /\ \A q \in Replicas : q # r => conn'[q] = conn[q]
    BY <1>8 DEF TxBreaks, DigestTypeOK
  <2>. QED  BY <2>1, DispatchDrop DEF DispatchInv, TxShape
<1>9. CASE Crash(r)
  <2>1. /\ mark' = [mark EXCEPT ![r] = NoMarks] /\ UNCHANGED log
        /\ pc'[r] = "idle" /\ conn'[r] = "ok" /\ batch'[r] = {} /\ todo'[r] = {}
        /\ \A q \in Replicas : q # r =>
              /\ pc'[q] = pc[q] /\ conn'[q] = conn[q]
              /\ batch'[q] = batch[q] /\ todo'[q] = todo[q]
    BY <1>9 DEF Crash, DigestTypeOK
  <2>. QED  BY <2>1, DispatchDrop
<1>. QED  BY <1>1, <1>2, <1>3, <1>4, <1>5, <1>6, <1>7, <1>8, <1>9 DEF Work, Fault

\* A request or a tick of the clock touches neither the table nor the workers.
LEMMA OutsideFrame ==
    ASSUME Request \/ Advance \/ UNCHANGED vars
    PROVE  UNCHANGED <<log, pc, txVars, mails, faults>>
BY DEF Request, UpdateSettings, ChangeStars, Advance, vars, txVars

\* The transactions keep their shape in every behaviour.
LEMMA DispatchAlways == Spec => [](DigestTypeOK /\ DispatchInv)
<1>1. DigestTypeOK /\ DispatchInv /\ [Next]_vars => DispatchInv'
  <2>. SUFFICES ASSUME DigestTypeOK, DispatchInv, [Next]_vars PROVE DispatchInv'
    OBVIOUS
  <2>1. CASE Request \/ Advance \/ UNCHANGED vars
    BY <2>1, OutsideFrame, DispatchFrame
  <2>. QED  BY <2>1, DispatchWorker DEF Next
<1>. QED  BY TypeCorrect, DispatchInit, <1>1, PTL DEF Spec

-----------------------------------------------------------------------------
(* The week a digest is filed under.                                       *)

\* The row's week is the week of the instant it was scheduled at; a key
\* without a row has no tries on record.
RowInv ==
    \A k \in Key :
        /\ log[k].status # "none" => log[k].at \in Instants /\ k[2] = MondayOfWeek(log[k].at)
        /\ log[k].status = "none" => log[k].attempts = 0

\* Probes, commits and all other steps keep it: a commit only touches rows
\* that are there.
LEMMA RowStep ==
    ASSUME DigestTypeOK, DispatchInv, RowInv, [Next]_vars
    PROVE  RowInv'
<1>0. log \in [Key -> Row]
  BY DEF DigestTypeOK
<1>1. CASE UNCHANGED log
  BY <1>1 DEF RowInv
<1>2. ASSUME NEW r \in Replicas, NEW u \in Users, InsertDigestRow(r, u) PROVE RowInv'
  <2>. SUFFICES ASSUME NEW k \in Key
                PROVE  /\ log'[k].status # "none" =>
                            log'[k].at \in Instants /\ k[2] = MondayOfWeek(log'[k].at)
                       /\ log'[k].status = "none" => log'[k].attempts = 0
    BY DEF RowInv
  <2>1. CASE log'[k] = log[k]
    BY <2>1 DEF RowInv
  <2>2. CASE /\ k[2] = MondayOfWeek(probeAt[r])
             /\ log'[k] = [status |-> "pending", at |-> probeAt[r], attempts |-> 0]
    BY <2>2 DEF DigestTypeOK
  <2>. QED  BY <1>2, <2>1, <2>2, InsertedRow
<1>3. ASSUME NEW r \in Replicas, CommitDispatch(r) PROVE RowInv'
  <2>0. log' = ApplyMarks(log, mark[r]) /\ mark[r] \in [Key -> Mark]
    BY <1>3 DEF CommitDispatch, DigestTypeOK
  <2>. SUFFICES ASSUME NEW k \in Key
                PROVE  /\ log'[k].status # "none" =>
                            log'[k].at \in Instants /\ k[2] = MondayOfWeek(log'[k].at)
                       /\ log'[k].status = "none" => log'[k].attempts = 0
    BY DEF RowInv
  <2>1. CASE mark[r][k] = "none"
    BY <1>0, <2>0, <2>1, ApplyMarksRow DEF RowInv
  <2>2. CASE mark[r][k] # "none"
    <3>1. log[k].status = "pending" /\ log'[k].at = log[k].at
      BY <1>0, <2>0, <2>2, MarkedRow, ApplyMarksRow DEF Pending
    <3>2. log'[k].status # "none"
      BY <1>0, <2>0, <2>2, <3>1, ApplyMarksRow DEF Mark
    <3>. QED  BY <3>1, <3>2 DEF RowInv
  <2>. QED  BY <2>1, <2>2
<1>. QED
  BY <1>1, <1>2, <1>3
     DEF Next, Request, UpdateSettings, ChangeStars, Advance, vars, Work, Fault,
         SelectDigestDueUsers, ProbeDone, BeginDispatch, SkipEmpty, SendOk, SendError,
         InsertFails, SendUnacknowledged, BuildFails, TxBreaks, Crash

\* So do the rows.
LEMMA RowAlways == Spec => [](DigestTypeOK /\ DispatchInv /\ RowInv)
<1>1. Init => RowInv
  BY DEF Init, RowInv, NoRow
<1>2. DigestTypeOK /\ DispatchInv /\ RowInv /\ [Next]_vars => RowInv'
  BY RowStep
<1>. QED  BY DispatchAlways, <1>1, <1>2, PTL DEF Spec

\* In every behaviour, at every instant and in every timezone, a digest is
\* filed under the UTC week, Monday to Sunday, that holds the instant its probe
\* looked at.
THEOREM FiledUnderItsWeekAlways == Spec => []FiledUnderItsWeek
<1>1. RowInv => FiledUnderItsWeek
  BY MondayStartsWeek, DigestDomains DEF RowInv, FiledUnderItsWeek
<1>. QED  BY RowAlways, <1>1, PTL

-----------------------------------------------------------------------------
(* The mail: what is recorded, what is owed to a fault.                    *)

\* Dispatchers whose transaction broke and that may still mail k unrecorded.
Owing(k) == {r \in Replicas : conn[r] # "ok" /\ k \in todo[r]}

\* k's mail is on record: committed, or written in an open transaction.
Recorded(k) == log[k].status = "sent" \/ \E r \in Replicas : mark[r][k] = "sent"

\* Copies mailed, and copies that may still leave unrecorded, are paid for by
\* a fault each, except for the one on record.
MailIsPaidFor ==
    \A k \in Key : mails[k] + Cardinality(Owing(k))
                     <= faults + (IF Recorded(k) THEN 1 ELSE 0)

\* A mark that says sent stands for a copy.
MarkedMeansMailed ==
    \A r \in Replicas, k \in Key : mark[r][k] = "sent" => mails[k] >= 1

MailInv == MailIsPaidFor /\ MarkedMeansMailed

\* Sets of replicas are finite and can be counted.
LEMMA ReplicaSets ==
    ASSUME NEW S \in SUBSET Replicas
    PROVE  IsFiniteSet(S) /\ Cardinality(S) \in Nat
BY DigestDomains, FS_Subset, FS_CardinalityType

\* The number of replicas in a part is no larger than in the whole.
LEMMA FewerReplicas ==
    ASSUME NEW T \in SUBSET Replicas, NEW S \in SUBSET T
    PROVE  Cardinality(S) <= Cardinality(T)
BY ReplicaSets, FS_Subset

\* The balance of one row, with its set of owing replicas as a number.
LEMMA Balance ==
    ASSUME DigestTypeOK, MailInv, NEW k \in Key
    PROVE  /\ Cardinality(Owing(k)) \in Nat /\ mails[k] \in Nat /\ faults \in Nat
           /\ Owing(k) # {} => Cardinality(Owing(k)) >= 1
           /\ mails[k] + Cardinality(Owing(k)) <= faults + (IF Recorded(k) THEN 1 ELSE 0)
<1>1. Owing(k) \in SUBSET Replicas
  BY DEF Owing
<1>2. IsFiniteSet(Owing(k)) /\ Cardinality(Owing(k)) \in Nat
  BY <1>1, ReplicaSets
<1>3. Owing(k) # {} => Cardinality(Owing(k)) # 0
  BY <1>2, FS_EmptySet
<1>. QED  BY <1>2, <1>3, DigestBounds DEF DigestTypeOK, MailInv, MailIsPaidFor

\* No mail has left at first.
LEMMA MailInit == Init => MailInv
<1>. SUFFICES ASSUME Init PROVE MailInv
  OBVIOUS
<1>1. \A k \in Key : Owing(k) = {}
  BY DEF Init, Owing
<1>2. \A k \in Key : Cardinality(Owing(k)) = 0
  BY <1>1, FS_EmptySet
<1>. QED  BY <1>2 DEF Init, MailInv, MailIsPaidFor, MarkedMeansMailed, NoMarks, NoRow

\* A step that hands over no mail keeps the account, if no dispatcher becomes
\* able to mail unrecorded and a record disappears only together with a fault.
LEMMA MailQuiet ==
    ASSUME DigestTypeOK, MailInv, mails' = mails,
           faults' = faults \/ faults' = faults + 1,
           \A k \in Key : Owing(k)' \subseteq Owing(k),
           \A k \in Key : Recorded(k) => Recorded(k)' \/ faults' = faults + 1,
           \A r \in Replicas, k \in Key :
               mark'[r][k] = "sent" => mark[r][k] = "sent"
    PROVE  MailInv'
<1>1. ASSUME NEW k \in Key
      PROVE  mails'[k] + Cardinality(Owing(k)')
               <= faults' + (IF Recorded(k)' THEN 1 ELSE 0)
  <2>1. Owing(k) \in SUBSET Replicas /\ Owing(k)' \in SUBSET Replicas
    BY DEF Owing
  <2>2. Cardinality(Owing(k)') <= Cardinality(Owing(k)) /\ Cardinality(Owing(k)') \in Nat
    BY <2>1, FewerReplicas, ReplicaSets
  <2>3. Recorded(k) => Recorded(k)' \/ faults' = faults + 1
    OBVIOUS
  <2>. QED  BY <2>2, <2>3, Balance
<1>2. MailIsPaidFor'
  BY <1>1 DEF MailIsPaidFor
<1>3. MarkedMeansMailed'
  BY DEF MailInv, MarkedMeansMailed
<1>. QED  BY <1>2, <1>3 DEF MailInv

\* A copy of k leaves.  It is recorded now and was not before, or it costs a
\* fault, or the dispatcher that sends it was already owing for it.
LEMMA MailLeaves ==
    ASSUME DigestTypeOK, MailInv, NEW k \in Key,
           mails' = [mails EXCEPT ![k] = @ + 1],
           faults' = faults \/ faults' = faults + 1,
           \A j \in Key : Owing(j)' \subseteq Owing(j),
           \A j \in Key : Recorded(j) => Recorded(j)',
           \/ ~Recorded(k) /\ Recorded(k)'
           \/ faults' = faults + 1
           \/ \E r \in Owing(k) : r \notin Owing(k)',
           \A r \in Replicas, j \in Key :
               mark'[r][j] = "sent" => mark[r][j] = "sent" \/ j = k
    PROVE  MailInv'
<1>0. /\ \A j \in Key : mails[j] \in Nat
      /\ \A j \in Key : mails'[j] = IF j = k THEN mails[k] + 1 ELSE mails[j]
  BY DEF DigestTypeOK
<1>1. ASSUME NEW j \in Key
      PROVE  mails'[j] + Cardinality(Owing(j)')
               <= faults' + (IF Recorded(j)' THEN 1 ELSE 0)
  <2>1. Owing(j) \in SUBSET Replicas /\ Owing(j)' \in SUBSET Replicas
    BY DEF Owing
  <2>2. Cardinality(Owing(j)') <= Cardinality(Owing(j)) /\ Cardinality(Owing(j)') \in Nat
    BY <2>1, FewerReplicas, ReplicaSets
  <2>3. ASSUME NEW r \in Owing(j), r \notin Owing(j)'
        PROVE  Cardinality(Owing(j)') + 1 <= Cardinality(Owing(j))
    <3>1. Owing(j)' \in SUBSET (Owing(j) \ {r}) /\ (Owing(j) \ {r}) \in SUBSET Replicas
      BY <2>1, <2>3
    <3>2. Cardinality(Owing(j) \ {r}) = Cardinality(Owing(j)) - 1
      BY <2>1, <2>3, ReplicaSets, FS_RemoveElement
    <3>3. Cardinality(Owing(j)') <= Cardinality(Owing(j) \ {r})
      BY <3>1, FewerReplicas
    <3>. QED  BY <2>2, <3>2, <3>3, Balance
  <2>4. /\ Recorded(j) => Recorded(j)'
        /\ j = k => \/ ~Recorded(j) /\ Recorded(j)'
                    \/ faults' = faults + 1
                    \/ Cardinality(Owing(j)') + 1 <= Cardinality(Owing(j))
    BY <2>3
  <2>5. CASE j = k
    BY <1>0, <2>2, <2>4, <2>5, Balance
  <2>6. CASE j # k
    BY <1>0, <2>2, <2>4, <2>6, Balance
  <2>. QED  BY <2>5, <2>6
<1>2. MailIsPaidFor'
  BY <1>1 DEF MailIsPaidFor
<1>3. MarkedMeansMailed'
  BY <1>0 DEF MailInv, MarkedMeansMailed
<1>. QED  BY <1>2, <1>3 DEF MailInv

\* Taking row k out of the loop and writing mark m, with what it does to the
\* accounts of all rows.
LEMMA RowTaken ==
    ASSUME DigestTypeOK, DispatchInv, NEW r \in Replicas, NEW k \in Key, NEW m \in Mark,
           NextRow(r, k), SetMark(r, k, m), UNCHANGED <<log, conn>>
    PROVE  /\ \A j \in Key : Owing(j)' \subseteq Owing(j)
           /\ \A j \in Key : Recorded(j) => Recorded(j)'
           /\ \A q \in Replicas, j \in Key :
                mark'[q][j] = "sent" => mark[q][j] = "sent" \/ (j = k /\ m = "sent")
           /\ (conn[r] = "ok" /\ m = "sent") => (~Recorded(k) /\ Recorded(k)')
           /\ conn[r] # "ok" => r \in Owing(k) /\ r \notin Owing(k)'
<1>0. /\ k \in todo[r] /\ k \in batch[r] /\ todo' = [todo EXCEPT ![r] = @ \ {k}]
      /\ mark \in [Replicas -> [Key -> Mark]] /\ todo \in [Replicas -> SUBSET Key]
  BY DEF NextRow, DigestTypeOK, DispatchInv, TxShape
<1>1. \A q \in Replicas, j \in Key :
          mark'[q][j] = IF conn[r] = "ok" /\ q = r /\ j = k THEN m ELSE mark[q][j]
  BY <1>0 DEF SetMark
<1>2. conn[r] = "ok" => ~Recorded(k)
  BY <1>0 DEF Recorded, DispatchInv, HeldRowsArePending, MarksAreHeld, Pending
<1>3. \A j \in Key : Owing(j)' \subseteq Owing(j)
  BY <1>0 DEF Owing
<1>4. \A j \in Key : Recorded(j) => Recorded(j)'
  BY <1>1, <1>2 DEF Recorded
<1>5. (conn[r] = "ok" /\ m = "sent") => (~Recorded(k) /\ Recorded(k)')
  BY <1>1, <1>2 DEF Recorded
<1>6. conn[r] # "ok" => r \in Owing(k) /\ r \notin Owing(k)'
  BY <1>0 DEF Owing
<1>. QED  BY <1>1, <1>3, <1>4, <1>5, <1>6

\* A transaction breaks: its recorded rows cost the fault, and so do the rows
\* it may still mail, but no row is both.
LEMMA MailBreaks ==
    ASSUME DigestTypeOK, DispatchInv, MailInv, NEW r \in Replicas,
           NEW how \in {"aborted", "lost"}, TxBreaks(r, how)
    PROVE  MailInv'
<1>0. /\ faults' = faults + 1 /\ UNCHANGED <<log, todo, mails>>
      /\ \A q \in Replicas : conn'[q] = IF q = r THEN how ELSE conn[q]
      /\ \A q \in Replicas : mark'[q] = IF q = r THEN NoMarks ELSE mark[q]
  BY DEF DigestTypeOK, TxBreaks
<1>1. ASSUME NEW k \in Key
      PROVE  mails'[k] + Cardinality(Owing(k)')
               <= faults' + (IF Recorded(k)' THEN 1 ELSE 0)
  <2>1. Owing(k) \in SUBSET Replicas /\ Owing(k)' \in SUBSET Replicas
    BY DEF Owing
  <2>2. CASE k \in todo[r]
    <3>1. mark[r][k] = "none"
      BY <2>2 DEF DispatchInv, MarksAreHeld
    <3>2. Recorded(k) => Recorded(k)'
      BY <1>0, <3>1 DEF Recorded
    <3>3. Owing(k)' \in SUBSET (Owing(k) \cup {r}) /\ (Owing(k) \cup {r}) \in SUBSET Replicas
      BY <1>0, <2>1 DEF Owing
    <3>4. Cardinality(Owing(k) \cup {r}) <= Cardinality(Owing(k)) + 1
      <4>1. Cardinality(Owing(k) \cup {r}) =
              IF r \in Owing(k) THEN Cardinality(Owing(k)) ELSE Cardinality(Owing(k)) + 1
        BY <2>1, ReplicaSets, FS_AddElement
      <4>. QED  BY <4>1, Balance
    <3>5. /\ Cardinality(Owing(k)') <= Cardinality(Owing(k) \cup {r})
          /\ Cardinality(Owing(k)') \in Nat /\ Cardinality(Owing(k) \cup {r}) \in Nat
      BY <2>1, <3>3, FewerReplicas, ReplicaSets
    <3>. QED  BY <1>0, <3>2, <3>4, <3>5, Balance
  <2>3. CASE k \notin todo[r]
    <3>1. Owing(k)' = Owing(k)
      BY <1>0, <2>3 DEF Owing
    <3>. QED  BY <1>0, <3>1, Balance
  <2>. QED  BY <2>2, <2>3
<1>2. MailIsPaidFor'
  BY <1>1 DEF MailIsPaidFor
<1>3. MarkedMeansMailed'
  BY <1>0 DEF MailInv, MarkedMeansMailed, NoMarks
<1>. QED  BY <1>2, <1>3 DEF MailInv

\* Committing moves what the marks say into the table.
LEMMA CommitRecords ==
    ASSUME DigestTypeOK, DispatchInv, NEW r \in Replicas, CommitDispatch(r)
    PROVE  /\ \A k \in Key : Recorded(k) => Recorded(k)'
           /\ \A k \in Key : Owing(k)' \subseteq Owing(k)
           /\ \A q \in Replicas, k \in Key :
                mark'[q][k] = "sent" => mark[q][k] = "sent"
<1>0. /\ log \in [Key -> Row] /\ mark[r] \in [Key -> Mark]
      /\ log' = ApplyMarks(log, mark[r]) /\ UNCHANGED todo /\ todo[r] = {}
      /\ \A q \in Replicas : conn'[q] = IF q = r THEN "ok" ELSE conn[q]
      /\ \A q \in Replicas : mark'[q] = IF q = r THEN NoMarks ELSE mark[q]
  BY DEF DigestTypeOK, CommitDispatch
<1>1. \A k \in Key : log[k].status = "sent" => mark[r][k] = "none"
  BY MarkedRow DEF Pending
<1>2. \A k \in Key : log[k].status = "sent" \/ mark[r][k] = "sent" => log'[k].status = "sent"
  BY <1>0, <1>1, ApplyMarksRow
<1>3. \A k \in Key : Recorded(k) => Recorded(k)'
  BY <1>0, <1>2 DEF Recorded
<1>4. \A k \in Key : Owing(k)' \subseteq Owing(k)
  BY <1>0 DEF Owing
<1>. QED  BY <1>0, <1>3, <1>4 DEF NoMarks

\* Every step of a worker keeps the account of the mail.
LEMMA MailWorker ==
    ASSUME DigestTypeOK, DispatchInv, MailInv, NEW r \in Replicas, Work(r) \/ Fault(r)
    PROVE  MailInv'
<1>1. CASE SelectDigestDueUsers(r) \/ ProbeDone(r) \/ \E u \in Users : InsertFails(r, u)
  <2>1. UNCHANGED <<txVars, log, mails>> /\ faults' \in {faults, faults + 1}
    BY <1>1 DEF SelectDigestDueUsers, ProbeDone, InsertFails
  <2>. QED  BY <2>1, MailQuiet DEF Owing, Recorded, txVars
<1>2. ASSUME NEW u \in Users, InsertDigestRow(r, u) PROVE MailInv'
  <2>1. UNCHANGED <<txVars, mails, faults>>
    BY <1>2 DEF InsertDigestRow
  <2>2. \A k \in Key : log[k].status = "sent" => log'[k] = log[k]
    BY <1>2, InsertedRow
  <2>. QED  BY <2>1, <2>2, MailQuiet DEF Owing, Recorded, txVars
<1>3. CASE BeginDispatch(r)
  <2>1. /\ UNCHANGED <<log, conn, mark, mails, faults>>
        /\ \A q \in Replicas \ {r} : todo'[q] = todo[q]
        /\ conn[r] = "ok"
    BY <1>3 DEF BeginDispatch, DigestTypeOK, DispatchInv, TxShape
  <2>. QED  BY <2>1, MailQuiet DEF Owing, Recorded
<1>4. ASSUME NEW k \in Key, NEW m \in Mark \ {"sent"}, NextRow(r, k), SetMark(r, k, m),
             UNCHANGED <<log, conn, mails, faults>>
      PROVE  MailInv'
  BY <1>4, RowTaken, MailQuiet
<1>5. ASSUME NEW k \in Key, SkipEmpty(r, k) PROVE MailInv'
  BY <1>4, <1>5 DEF SkipEmpty, Mark
<1>6. ASSUME NEW k \in Key, SendOk(r, k) PROVE MailInv'
  <2>1. /\ NextRow(r, k) /\ SetMark(r, k, "sent") /\ "sent" \in Mark
        /\ UNCHANGED <<log, conn, faults>> /\ mails' = [mails EXCEPT ![k] = @ + 1]
    BY <1>6 DEF SendOk, Mark
  <2>2. /\ \A j \in Key : Owing(j)' \subseteq Owing(j)
        /\ \A j \in Key : Recorded(j) => Recorded(j)'
        /\ \A q \in Replicas, j \in Key :
              mark'[q][j] = "sent" => mark[q][j] = "sent" \/ j = k
    BY <2>1, RowTaken
  <2>3. \/ ~Recorded(k) /\ Recorded(k)'
        \/ \E q \in Owing(k) : q \notin Owing(k)'
    BY <2>1, RowTaken
  <2>. QED  BY <2>1, <2>2, <2>3, MailLeaves
<1>7. ASSUME NEW k \in Key, SendError(r, k) PROVE MailInv'
  BY <1>4, <1>7, FailureMarks DEF SendError
<1>8. ASSUME NEW k \in Key, SendUnacknowledged(r, k) PROVE MailInv'
  <2>1. /\ NextRow(r, k) /\ SetMark(r, k, FailureMark(k))
        /\ FailureMark(k) \in Mark /\ FailureMark(k) # "sent"
        /\ UNCHANGED <<log, conn>> /\ mails' = [mails EXCEPT ![k] = @ + 1]
        /\ faults' = faults + 1
    BY <1>8, FailureMarks DEF SendUnacknowledged
  <2>2. /\ \A j \in Key : Owing(j)' \subseteq Owing(j)
        /\ \A j \in Key : Recorded(j) => Recorded(j)'
        /\ \A q \in Replicas, j \in Key :
              mark'[q][j] = "sent" => mark[q][j] = "sent" \/ j = k
    BY <2>1, RowTaken
  <2>. QED  BY <2>1, <2>2, MailLeaves
<1>9. ASSUME NEW k \in Key, BuildFails(r, k) PROVE MailInv'
  <2>1. /\ UNCHANGED <<log, conn, mark, mails>> /\ faults' = faults + 1
        /\ \A q \in Replicas : todo'[q] \subseteq todo[q]
    BY <1>9 DEF BuildFails, NextRow, DigestTypeOK
  <2>. QED  BY <2>1, MailQuiet DEF Owing, Recorded
<1>10. CASE CommitDispatch(r)
  <2>1. mails' = mails /\ faults' = faults
    BY <1>10 DEF CommitDispatch
  <2>. QED  BY <1>10, <2>1, CommitRecords, MailQuiet
<1>11. ASSUME NEW how \in {"aborted", "lost"}, TxBreaks(r, how) PROVE MailInv'
  BY <1>11, MailBreaks
<1>12. CASE Crash(r)
  <2>1. /\ UNCHANGED <<log, mails>> /\ faults' = faults + 1
        /\ \A q \in Replicas : todo'[q] = IF q = r THEN {} ELSE todo[q]
        /\ \A q \in Replicas : conn'[q] = IF q = r THEN "ok" ELSE conn[q]
        /\ \A q \in Replicas : mark'[q] = IF q = r THEN NoMarks ELSE mark[q]
    BY <1>12 DEF Crash, DigestTypeOK
  <2>2. \A q \in Replicas, k \in Key : mark'[q][k] = "sent" => mark[q][k] = "sent"
    BY <2>1 DEF NoMarks
  <2>3. \A k \in Key : Owing(k)' \subseteq Owing(k)
    BY <2>1 DEF Owing
  <2>. QED  BY <2>1, <2>2, <2>3, MailQuiet
<1>. QED  BY <1>1, <1>2, <1>3, <1>5, <1>6, <1>7, <1>8, <1>9, <1>10, <1>11, <1>12
          DEF Work, Fault

DigestInv == DigestTypeOK /\ DispatchInv /\ RowInv /\ MailInv

\* The whole inductive invariant of the digest.
LEMMA DigestAlways == Spec => []DigestInv
<1>1. DigestTypeOK /\ DispatchInv /\ MailInv /\ [Next]_vars => MailInv'
  <2>. SUFFICES ASSUME DigestTypeOK, DispatchInv, MailInv, [Next]_vars PROVE MailInv'
    OBVIOUS
  <2>1. CASE Request \/ Advance \/ UNCHANGED vars
    BY <2>1, OutsideFrame, MailQuiet DEF Owing, Recorded, txVars
  <2>. QED  BY <2>1, MailWorker DEF Next
<1>. QED  BY RowAlways, MailInit, <1>1, PTL DEF Spec, DigestInv

-----------------------------------------------------------------------------
(* The refinement.                                                         *)

\* The INSERT of a probe plans a row of the ledger, or leaves it as it is.
LEMMA InsertRefines ==
    ASSUME DigestInv, NEW r \in Replicas, NEW u \in Users, InsertDigestRow(r, u)
    PROVE  Ledger!Next
<1>1. ASSUME NEW k \in Key PROVE Ledger!Replan(k)
  <2>1. CASE log'[k] = log[k]
    BY <2>1 DEF Ledger!Replan, LedgerRow
  <2>2. CASE /\ log[k].status = "none"
             /\ log'[k] = [status |-> "pending", at |-> probeAt[r], attempts |-> 0]
    <3>1. log[k].attempts = 0
      BY <2>2 DEF DigestInv, RowInv
    <3>. QED  BY <2>2, <3>1 DEF Ledger!Replan, Ledger!NoRow, Ledger!Planned, LedgerRow
  <2>. QED  BY <2>1, <2>2, InsertedRow DEF DigestInv
<1>2. UNCHANGED <<mails, faults>>
  BY DEF InsertDigestRow
<1>. QED  BY <1>1, <1>2 DEF Ledger!Next, Ledger!Plan

\* A message that leaves is one the ledger lets go: it is the first, or every
\* earlier one and, once the row is given up, this one are owed to lapses.
LEMMA MailRefines ==
    ASSUME DigestInv, NEW r \in Replicas, NEW k \in Key, NextRow(r, k),
           mails' = [mails EXCEPT ![k] = @ + 1], faults' \in {faults, faults + 1}, UNCHANGED log
    PROVE  Ledger!Next
<1>0. /\ k \in todo[r] /\ DigestTypeOK /\ MailInv /\ DispatchInv /\ log[k].status \in Status
  BY DEF NextRow, DigestInv, DigestTypeOK, Row
<1>1. conn[r] # "lost" => Pending(k) /\ ~Recorded(k)
  BY <1>0 DEF DispatchInv, TxShape, HeldRowsArePending, MarksAreHeld, Recorded, Pending
<1>2. conn[r] = "lost" => Owing(k) # {}
  BY <1>0 DEF Owing
<1>3. mails[k] <= faults
  BY <1>0, <1>1, <1>2, Balance
<1>4. LedgerRow(k).status \in {"failed", "dropped"} => mails[k] < faults
  <2>. SUFFICES ASSUME log[k].status \in {"failed", "skipped"} PROVE mails[k] < faults
    BY <1>0 DEF LedgerRow, Status
  <2>1. ~Recorded(k) /\ ~Pending(k)
    BY <1>0, MarkedRow DEF Recorded, Pending
  <2>. QED  BY <1>0, <1>1, <1>2, <2>1, Balance
<1>5. UNCHANGED [j \in Key |-> LedgerRow(j)]
  BY DEF LedgerRow
<1>6. Ledger!Mail(k)
  BY <1>3, <1>4, <1>5 DEF Ledger!Mail, Ledger!Excused
<1>. QED  BY <1>6 DEF Ledger!Next

\* Committing a batch records what became of its messages.
LEMMA CommitRefines ==
    ASSUME DigestInv, NEW r \in Replicas, CommitDispatch(r)
    PROVE  Ledger!Next
<1>0. /\ log' = ApplyMarks(log, mark[r]) /\ UNCHANGED <<mails, faults>>
      /\ log \in [Key -> Row] /\ mark[r] \in [Key -> Mark]
      /\ DigestTypeOK /\ DispatchInv /\ MailInv
  BY DEF CommitDispatch, DigestInv, DigestTypeOK
<1>1. ASSUME NEW k \in Key PROVE Ledger!Record(k)
  <2>1. CASE mark[r][k] = "none"
    BY <1>0, <2>1, ApplyMarksRow DEF Ledger!Record, LedgerRow
  <2>2. CASE mark[r][k] # "none"
    <3>1. Pending(k) /\ \A q \in Replicas \ {r} : mark[q][k] = "none"
      BY <1>0, <2>2, MarkedRow
    <3>2. mark[r][k] # "sent" => Ledger!Excused(k)
      <4>1. mark[r][k] # "sent" => ~Recorded(k)
        BY <3>1 DEF Recorded, Pending
      <4>. QED  BY <1>0, <4>1, Balance DEF Ledger!Excused
    <3>3. /\ mark[r][k] = "retry" => ~(log[k].attempts + 1 >= MaxAttempts)
          /\ mark[r][k] = "failed" => log[k].attempts + 1 >= MaxAttempts
      BY <1>0 DEF DispatchInv, MarksAreHeld
    <3>4. CASE mark[r][k] = "sent"
      <4>1. mails[k] > 0
        BY <1>0, <3>4, Balance DEF MailInv, MarkedMeansMailed
      <4>2. log'[k].status = "sent" /\ log'[k].attempts = log[k].attempts
        BY <1>0, <3>4, ApplyMarksRow
      <4>. QED  BY <3>1, <4>1, <4>2 DEF Ledger!Record, LedgerRow, Pending
    <3>5. CASE mark[r][k] = "failed"
      <4>1. log'[k].status = "failed" /\ log'[k].attempts = log[k].attempts
        BY <1>0, <3>5, ApplyMarksRow
      <4>. QED  BY <3>1, <3>2, <3>3, <3>5, <4>1 DEF Ledger!Record, LedgerRow, Pending
    <3>6. CASE mark[r][k] = "skipped"
      <4>1. log'[k].status = "skipped" /\ log'[k].attempts = log[k].attempts
        BY <1>0, <3>6, ApplyMarksRow
      <4>. QED  BY <3>1, <3>2, <3>6, <4>1 DEF Ledger!Record, LedgerRow, Pending
    <3>7. CASE mark[r][k] = "retry"
      <4>1. log'[k].status = "pending" /\ log'[k].attempts = log[k].attempts + 1
        BY <1>0, <3>1, <3>7, ApplyMarksRow DEF Pending
      <4>. QED  BY <3>1, <3>2, <3>3, <3>7, <4>1 DEF Ledger!Record, LedgerRow, Pending
    <3>. QED  BY <1>0, <2>2, <3>4, <3>5, <3>6, <3>7 DEF Mark
  <2>. QED  BY <2>1, <2>2
<1>. QED  BY <1>0, <1>1 DEF Ledger!Next, Ledger!Settle

\* Every step of the system is a step of the ledger or leaves it alone.
LEMMA StepRefines ==
    ASSUME DigestInv, [Next]_vars
    PROVE  [Ledger!Next]_Ledger!vars
<1>1. ASSUME UNCHANGED <<log, mails>>, faults' \in {faults, faults + 1}
      PROVE  [Ledger!Next]_Ledger!vars
  <2>1. UNCHANGED [k \in Key |-> LedgerRow(k)]
    BY <1>1 DEF LedgerRow
  <2>. QED  BY <1>1, <2>1 DEF Ledger!Next, Ledger!Lapse, Ledger!vars
<1>2. CASE Request \/ Advance \/ UNCHANGED vars
  BY <1>1, <1>2, OutsideFrame
<1>3. ASSUME NEW r \in Replicas, Work(r) \/ Fault(r) PROVE [Ledger!Next]_Ledger!vars
  <2>1. ASSUME NEW u \in Users, InsertDigestRow(r, u) PROVE Ledger!Next
    BY <2>1, InsertRefines
  <2>2. ASSUME NEW k \in Key, SendOk(r, k) \/ SendUnacknowledged(r, k) PROVE Ledger!Next
    BY <2>2, MailRefines DEF SendOk, SendUnacknowledged
  <2>3. CASE CommitDispatch(r)
    BY <2>3, CommitRefines
  <2>4. CASE \/ SelectDigestDueUsers(r) \/ ProbeDone(r) \/ BeginDispatch(r) \/ Crash(r)
             \/ \E u \in Users : InsertFails(r, u)
             \/ \E k \in Key : SkipEmpty(r, k) \/ SendError(r, k) \/ BuildFails(r, k)
             \/ \E how \in {"aborted", "lost"} : TxBreaks(r, how)
    BY <1>1, <2>4 DEF SelectDigestDueUsers, ProbeDone, BeginDispatch, Crash, InsertFails,
                      SkipEmpty, SendError, BuildFails, TxBreaks
  <2>. QED  BY <1>3, <2>1, <2>2, <2>3, <2>4 DEF Work, Fault
<1>. QED  BY <1>2, <1>3 DEF Next

\* Every behaviour of the probes, the dispatchers and their faults is, seen as
\* a ledger of messages, a behaviour of Outbox in which no row is taken back.
THEOREM Refinement == Spec => ImplementsOutbox
<1>1. Init => Ledger!Init
  BY DEF Init, Ledger!Init, Ledger!NoRow, LedgerRow, NoRow
<1>2. DigestInv /\ [Next]_vars => [Ledger!Next]_Ledger!vars
  BY StepRefines
<1>. QED  BY DigestAlways, <1>1, <1>2, PTL DEF Spec, ImplementsOutbox, Ledger!Spec
=============================================================================
