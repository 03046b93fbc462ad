-------------------------- MODULE RemindersProofs ---------------------------
(***************************************************************************)
(* Proofs about Reminders, for every number of users, conferences,         *)
(* replicas and faults.                                                    *)
(***************************************************************************)
EXTENDS Reminders, FiniteSetTheorems, TLAPS

-----------------------------------------------------------------------------
(* What the statements on the log return.                                  *)

\* The send time computed from integers is an integer.
LEMMA ScheduledForInt ==
    ASSUME NEW d \in Int, NEW l \in Int, NEW z \in Int
    PROVE  ScheduledFor(d, l, z) \in Int
BY SMT DEF ScheduledFor, InstantOf, LocalDay, HoursPerDay, SendHour

\* UPDATE ... SET status = 'cancelled' keeps the table well typed.
LEMMA CancelType ==
    ASSUME NEW rows \in [Key -> Row], NEW K
    PROVE  CancelPending(rows, K) \in [Key -> Row]
BY DEF CancelPending, Row, Status

\* DELETE of pending rows keeps the table well typed.
LEMMA DeleteType ==
    ASSUME NEW rows \in [Key -> Row], NEW K
    PROVE  DeletePending(rows, K) \in [Key -> Row]
BY DEF DeletePending, Row, Status, NoRow

\* Archiving, unarchiving and deleting keep a conference row well typed.
LEMMA ConfStateType ==
    ASSUME NEW x \in ConfRow, NEW st \in ConfState
    PROVE  [x EXCEPT !.state = st] \in ConfRow
BY DEF ConfRow

\* So does editing its dates.
LEMMA ConfDatesType ==
    ASSUME NEW x \in ConfRow, NEW d \in DeadlineMap, NEW e \in EndDays \cup {Unset}
    PROVE  [x EXCEPT !.deadline = d, !.ends = e] \in ConfRow
BY DEF ConfRow

\* scheduledFor names 09:00 of the local day that is `lead` days before the
\* deadline's, in every timezone.
LEMMA ScheduledForIsNineLocal ==
    ASSUME NEW d \in Int, NEW l \in Int, NEW z \in Int
    PROVE  /\ (ScheduledFor(d, l, z) + z) % HoursPerDay = SendHour
           /\ LocalDay(d, z) - LocalDay(ScheduledFor(d, l, z), z) = l
BY SMT DEF ScheduledFor, InstantOf, LocalDay, HoursPerDay, SendHour

\* A wanted reminder has an integer send time.
LEMMA SendAtInt ==
    ASSUME NEW cs \in [Confs -> ConfRow], NEW ss \in [Users -> SettingsRow],
           NEW k \in Key
    PROVE  /\ cs[k.conf].deadline[k.kind] \in Int
           /\ k.lead \in Int /\ ss[k.user].tz \in Int
           /\ SendAt(k, cs, ss) \in Int
<1>0. /\ k.conf \in Confs /\ k.kind \in Kinds
      /\ k.lead \in Leads /\ k.user \in Users
  BY DEF Key
<1>1. cs[k.conf].deadline[k.kind] \in Int
  <2>1. cs[k.conf].deadline \in [Kinds -> Deadlines \cup {Unset}]
    BY <1>0 DEF ConfRow, DeadlineMap
  <2>2. Deadlines \cup {Unset} \subseteq Int
    BY DomainAssumption DEF Unset
  <2>. QED  BY <1>0, <2>1, <2>2
<1>2. k.lead \in Int /\ ss[k.user].tz \in Int
  <2>1. Leads \subseteq Int /\ Offsets \subseteq Int
    BY DomainAssumption
  <2>. QED  BY <1>0, <2>1 DEF SettingsRow
<1>. QED  BY <1>1, <1>2, ScheduledForInt DEF SendAt

\* materializeReminders keeps the table well typed.
LEMMA MaterializeType ==
    ASSUME NEW rows \in [Key -> Row], NEW K,
           NEW cs \in [Confs -> ConfRow], NEW ss \in [Users -> SettingsRow]
    PROVE  Materialize(rows, K, cs, ss) \in [Key -> Row]
BY SendAtInt DEF Materialize, Row, Status

\* Committing the marks of a dispatch keeps the table well typed.
LEMMA ApplyMarksType ==
    ASSUME NEW rows \in [Key -> Row], NEW m \in [Key -> Mark]
    PROVE  ApplyMarks(rows, m) \in [Key -> Row]
BY DEF ApplyMarks, Row, Status, Mark

-----------------------------------------------------------------------------
(* Type correctness.                                                       *)

\* The tables and the workers start well typed.
LEMMA TypeInit == Init => TypeOK
BY DomainAssumption, BoundAssumption
   DEF Init, TypeOK, NewConf, ConfRow, ConfState, DeadlineMap, SettingsRow, Row, Status,
       NoRow, NoMarks, Mark, Unset

\* A request leaves every table well typed.
LEMMA TypeRequest == TypeOK /\ Request => TypeOK'
<1>. SUFFICES ASSUME TypeOK, Request PROVE TypeOK'
  OBVIOUS
<1>. USE DEF TypeOK
<1>1. ASSUME NEW c \in Confs, NEW d \in DeadlineMap, NEW e \in EndDays \cup {Unset},
             Create(c, d, e)
      PROVE  TypeOK'
  BY <1>1 DEF Create, txVars, ConfRow, ConfState
<1>2. ASSUME NEW c \in Confs, NEW d \in DeadlineMap, NEW e \in EndDays \cup {Unset},
             Update(c, d, e)
      PROVE  TypeOK'
  <2>0. [conf[c] EXCEPT !.deadline = d, !.ends = e] \in ConfRow
    BY ConfDatesType
  <2>1. conf' \in [Confs -> ConfRow]
    BY <1>2, <2>0 DEF Update
  <2>2. log' \in [Key -> Row]
    BY <1>2, <2>1, DeleteType, MaterializeType DEF Update
  <2>. QED  BY <1>2, <2>1, <2>2 DEF Update, txVars
<1>3. ASSUME NEW c \in Confs, Delete(c) PROVE TypeOK'
  <2>0. [conf[c] EXCEPT !.state = "deleted"] \in ConfRow
    BY ConfStateType DEF ConfState
  <2>1. conf' \in [Confs -> ConfRow]
    BY <1>3, <2>0 DEF Delete
  <2>. QED  BY <1>3, <2>1 DEF Delete, txVars, Row, NoRow, Status
<1>4. ASSUME NEW c \in Confs, Archive(c) PROVE TypeOK'
  <2>0. [conf[c] EXCEPT !.state = "archived"] \in ConfRow
    BY ConfStateType DEF ConfState
  <2>1. conf' \in [Confs -> ConfRow]
    BY <1>4, <2>0 DEF Archive
  <2>. QED  BY <1>4, <2>1, CancelType DEF Archive, txVars
<1>5. ASSUME NEW c \in Confs, Unarchive(c) PROVE TypeOK'
  <2>0. [conf[c] EXCEPT !.state = "active"] \in ConfRow
    BY ConfStateType DEF ConfState
  <2>1. conf' \in [Confs -> ConfRow]
    BY <1>5, <2>0 DEF Unarchive
  <2>. QED  BY <1>5, <2>1 DEF Unarchive, txVars
<1>6. ASSUME NEW u \in Users, NEW c \in Confs, Star(u, c) PROVE TypeOK'
  <2>1. log' \in [Key -> Row]
    BY <1>6, MaterializeType DEF Star
  <2>2. stars' \subseteq Users \X Confs
    BY <1>6 DEF Star
  <2>. QED  BY <1>6, <2>1, <2>2 DEF Star, txVars
<1>7. ASSUME NEW u \in Users, NEW c \in Confs, Unstar(u, c) PROVE TypeOK'
  BY <1>7, CancelType DEF Unstar, txVars
<1>8. ASSUME NEW u \in Users, NEW s \in SettingsRow, UpdateSettings(u, s)
      PROVE  TypeOK'
  <2>1. settings' \in [Users -> SettingsRow]
    BY <1>8 DEF UpdateSettings
  <2>2. log' \in [Key -> Row]
    BY <1>8, <2>1, DeleteType, MaterializeType DEF UpdateSettings
  <2>. QED  BY <1>8, <2>1, <2>2 DEF UpdateSettings, txVars
<1>. QED  BY <1>1, <1>2, <1>3, <1>4, <1>5, <1>6, <1>7, <1>8 DEF Request

\* So does every step of a scheduler, faults included.
LEMMA TypeScheduler ==
    ASSUME TypeOK, NEW r \in Replicas, Work(r) \/ Fault(r) PROVE TypeOK'
<1>. USE DEF TypeOK
<1>0. \A k \in Key : FailureMark(k) \in Mark
  BY DEF FailureMark, Mark
<1>1. CASE BeginDispatch(r)
  BY <1>1 DEF BeginDispatch, SelectDueReminders, Due, dbVars
<1>2. ASSUME NEW k \in Key, SendOk(r, k) PROVE TypeOK'
  BY <1>2 DEF SendOk, NextRow, SetMark, dbVars, Mark
<1>3. ASSUME NEW k \in Key, SendError(r, k) PROVE TypeOK'
  BY <1>0, <1>3 DEF SendError, NextRow, SetMark, dbVars
<1>4. CASE CommitDispatch(r)
  BY <1>4, ApplyMarksType DEF CommitDispatch, NoMarks, Mark
<1>5. CASE SweepArchive(r)
  BY <1>5, CancelType DEF SweepArchive, ConfRow, ConfState
<1>6. CASE SkipSweep(r)
  BY <1>6 DEF SkipSweep, dbVars
<1>7. ASSUME NEW k \in Key, SendUnacknowledged(r, k) PROVE TypeOK'
  BY <1>0, <1>7, BoundAssumption DEF SendUnacknowledged, NextRow, SetMark, dbVars
<1>8. ASSUME NEW k \in Key, RenderError(r, k) PROVE TypeOK'
  BY <1>8, BoundAssumption DEF RenderError, NextRow, dbVars
<1>9. ASSUME NEW how \in {"aborted", "lost"}, TxBreaks(r, how) PROVE TypeOK'
  BY <1>9, BoundAssumption DEF TxBreaks, dbVars, NoMarks, Mark
<1>10. CASE SweepFails(r)
  BY <1>10, BoundAssumption DEF SweepFails, dbVars
<1>11. CASE Crash(r)
  BY <1>11, BoundAssumption DEF Crash, dbVars, NoMarks, Mark
<1>. QED  BY <1>1, <1>2, <1>3, <1>4, <1>5, <1>6, <1>7, <1>8, <1>9, <1>10, <1>11
          DEF Work, Fault

\* Type correctness of the reminder system: the tables, the dispatch
\* transactions and the counters keep their types in every behaviour.
THEOREM TypeCorrect == Spec => []TypeOK
<1>1. TypeOK /\ [Next]_vars => TypeOK'
  <2>. SUFFICES ASSUME TypeOK, [Next]_vars PROVE TypeOK'
    OBVIOUS
  <2>1. CASE Request
    BY <2>1, TypeRequest
  <2>2. CASE Advance
    BY <2>2 DEF Advance, TypeOK, dbVars, txVars
  <2>3. ASSUME NEW r \in Replicas, Work(r) \/ Fault(r) PROVE TypeOK'
    BY <2>3, TypeScheduler
  <2>4. CASE UNCHANGED vars
    BY <2>4 DEF vars, TypeOK
  <2>. QED  BY <2>1, <2>2, <2>3, <2>4 DEF Next
<1>. QED  BY TypeInit, <1>1, PTL DEF Spec

-----------------------------------------------------------------------------
(* The schedule agrees with stars, deadlines and settings.                 *)

\* Only conferences that exist are starred.
StarsAreLive == \A s \in stars : Live(s[2])

ScheduleInv == StarsAreLive /\ NoStrayReminder /\ NoGap

\* What one row of the table is after a cancelling UPDATE.
LEMMA CancelRow ==
    ASSUME NEW rows \in [Key -> Row], NEW K, NEW k \in Key
    PROVE  /\ CancelPending(rows, K)[k].status = "none" <=> rows[k].status = "none"
           /\ k \notin K => CancelPending(rows, K)[k] = rows[k]
           /\ ~Pending(rows, k) => CancelPending(rows, K)[k] = rows[k]
           /\ Pending(CancelPending(rows, K), k) => k \notin K
BY DEF CancelPending, Pending, Row, Status

\* What one row is after a DELETE of pending rows.
LEMMA DeleteRow ==
    ASSUME NEW rows \in [Key -> Row], NEW K, NEW k \in Key
    PROVE  /\ k \notin K => DeletePending(rows, K)[k] = rows[k]
           /\ ~Pending(rows, k) => DeletePending(rows, K)[k] = rows[k]
           /\ Pending(DeletePending(rows, K), k) => k \notin K
BY DEF DeletePending, Pending, Row, Status, NoRow

\* What one row is after materializeReminders.
LEMMA MaterializeRow ==
    ASSUME NEW rows \in [Key -> Row], NEW K, NEW cs, NEW ss, NEW k \in Key
    PROVE  /\ (k \in K /\ Wanted(k, cs, ss)) =>
                Materialize(rows, K, cs, ss)[k].status # "none"
           /\ (k \in K /\ Wanted(k, cs, ss) /\ rows[k].status = "none") =>
                /\ Materialize(rows, K, cs, ss)[k].status = "pending"
                /\ Materialize(rows, K, cs, ss)[k].at = SendAt(k, cs, ss)
                /\ Materialize(rows, K, cs, ss)[k].attempts = 0
           /\ ~(k \in K /\ Wanted(k, cs, ss) /\ rows[k].status = "none") =>
                Materialize(rows, K, cs, ss)[k] = rows[k]
BY DEF Materialize

\* What one row is after the marks of a dispatch are committed.
LEMMA ApplyMarksRow ==
    ASSUME NEW rows \in [Key -> Row], NEW m \in [Key -> Mark], NEW k \in Key
    PROVE  /\ ApplyMarks(rows, m)[k].at = rows[k].at
           /\ m[k] = "none" => ApplyMarks(rows, m)[k] = rows[k]
           /\ m[k] = "sent" => ApplyMarks(rows, m)[k].status = "sent"
           /\ m[k] = "failed" => ApplyMarks(rows, m)[k].status = "failed"
           /\ m[k] = "retry" =>
                /\ ApplyMarks(rows, m)[k].status = rows[k].status
                /\ ApplyMarks(rows, m)[k].attempts = rows[k].attempts + 1
BY DEF ApplyMarks, Row, Status, Mark

\* Without stars and rows the schedule is consistent.
LEMMA ScheduleInit == Init => ScheduleInv
BY DEF Init, ScheduleInv, StarsAreLive, NoStrayReminder, NoGap, Pending, NoRow

\* Every request re-derives the rows whose inputs it changes.
LEMMA ScheduleRequest == TypeOK /\ ScheduleInv /\ Request => ScheduleInv'
<1>. SUFFICES ASSUME TypeOK, ScheduleInv, Request PROVE ScheduleInv'
  OBVIOUS
<1>0. /\ log \in [Key -> Row] /\ stars \subseteq Users \X Confs
      /\ conf \in [Confs -> ConfRow] /\ settings \in [Users -> SettingsRow]
  BY DEF TypeOK
<1>. USE DEF ScheduleInv
<1>1. ASSUME NEW c \in Confs, NEW d \in DeadlineMap, NEW e \in EndDays \cup {Unset},
             Create(c, d, e)
      PROVE  ScheduleInv'
  <2>1. \A x \in Confs : x # c => conf'[x] = conf[x]
    BY <1>0, <1>1 DEF Create
  <2>2. ~Live(c)
    BY <1>1 DEF Create, Live
  <2>3. StarsAreLive'
    BY <1>0, <1>1, <2>1, <2>2 DEF Create, StarsAreLive, Live
  <2>4. ASSUME NEW k \in Key, Pending(log, k) \/ <<k.user, k.conf>> \in stars
        PROVE  k.conf # c /\ conf'[k.conf] = conf[k.conf]
    BY <2>1, <2>2, <2>4 DEF StarsAreLive, NoStrayReminder, Key
  <2>5. NoStrayReminder'
    BY <1>1, <2>4 DEF Create, NoStrayReminder, Pending, Live, Wanted, SendAt
  <2>6. NoGap'
    BY <1>1, <2>4 DEF Create, NoGap, Wanted
  <2>. QED  BY <2>3, <2>5, <2>6
<1>2. ASSUME NEW c \in Confs, NEW d \in DeadlineMap, NEW e \in EndDays \cup {Unset},
             Update(c, d, e)
      PROVE  ScheduleInv'
  <2>. DEFINE rows == DeletePending(log, OfConf(c))
  <2>1. \A x \in Confs : /\ conf'[x].state = conf[x].state
                         /\ x # c => conf'[x] = conf[x]
    BY <1>0, <1>2 DEF Update, ConfRow
  <2>2. rows \in [Key -> Row]
    BY <1>0, DeleteType
  <2>3. StarsAreLive'
    BY <1>0, <1>2, <2>1 DEF Update, StarsAreLive, Live
  <2>4. ASSUME NEW k \in Key, k.conf # c
        PROVE  log'[k] = log[k] /\ conf'[k.conf] = conf[k.conf]
    <3>1. rows[k] = log[k]
      BY <1>0, <2>4, DeleteRow DEF OfConf
    <3>2. log' = Materialize(rows, Starring(c), conf', settings) /\ k \notin Starring(c)
      BY <1>2, <2>4 DEF Update, Starring
    <3>3. log'[k] = rows[k]
      BY <2>2, <3>2, MaterializeRow
    <3>. QED  BY <2>1, <2>4, <3>1, <3>3 DEF Key
  <2>5. ASSUME NEW k \in Key, k.conf = c
        PROVE  /\ Pending(log', k) =>
                    /\ <<k.user, c>> \in stars /\ Wanted(k, conf', settings)
                    /\ log'[k].at = SendAt(k, conf', settings)
               /\ (<<k.user, c>> \in stars /\ Wanted(k, conf', settings)) =>
                    log'[k].status # "none"
    <3>1. ~Pending(rows, k)
      BY <1>0, <2>5, DeleteRow DEF OfConf
    <3>2. log' = Materialize(rows, Starring(c), conf', settings)
      BY <1>2 DEF Update
    <3>3. k \in Starring(c) <=> <<k.user, c>> \in stars
      BY <2>5 DEF Starring
    <3>. QED  BY <2>2, <3>1, <3>2, <3>3, MaterializeRow DEF Pending
  <2>6. Live(c) /\ Live(c)'
    BY <1>2, <2>1 DEF Update, Live
  <2>7. NoStrayReminder'
    BY <1>2, <2>4, <2>5, <2>6 DEF Update, NoStrayReminder, Pending, Live, Wanted, SendAt
  <2>8. NoGap'
    BY <1>2, <2>4, <2>5 DEF Update, NoGap, Wanted
  <2>. QED  BY <2>3, <2>7, <2>8
<1>3. ASSUME NEW c \in Confs, Delete(c) PROVE ScheduleInv'
  <2>1. \A x \in Confs : x # c => conf'[x] = conf[x]
    BY <1>0, <1>3 DEF Delete
  <2>2. StarsAreLive'
    BY <1>0, <1>3, <2>1 DEF Delete, StarsAreLive, Live
  <2>3. \A k \in Key : k.conf = c => log'[k].status = "none" /\ <<k.user, c>> \notin stars'
    BY <1>3 DEF Delete, NoRow
  <2>4. \A k \in Key : k.conf # c =>
            /\ log'[k] = log[k] /\ conf'[k.conf] = conf[k.conf]
            /\ <<k.user, k.conf>> \in stars' <=> <<k.user, k.conf>> \in stars
    BY <1>3, <2>1 DEF Delete, Key
  <2>5. NoStrayReminder'
    BY <1>3, <2>3, <2>4 DEF Delete, NoStrayReminder, Pending, Live, Wanted, SendAt
  <2>6. NoGap'
    BY <1>3, <2>3, <2>4 DEF Delete, NoGap, Wanted
  <2>. QED  BY <2>2, <2>5, <2>6
<1>4. ASSUME NEW c \in Confs, Archive(c) \/ Unarchive(c) PROVE ScheduleInv'
  <2>1. \A x \in Confs : /\ conf'[x].deadline = conf[x].deadline
                         /\ Live(x) => Live(x)'
    BY <1>0, <1>4 DEF Archive, Unarchive, ConfRow, Live
  <2>2. UNCHANGED <<stars, settings>>
    BY <1>4 DEF Archive, Unarchive
  <2>3. \A k \in Key : /\ log'[k].status = "none" <=> log[k].status = "none"
                       /\ Pending(log', k) => log'[k] = log[k]
    BY <1>0, <1>4, CancelRow DEF Archive, Unarchive, Pending
  <2>4. StarsAreLive'
    BY <1>0, <2>1, <2>2 DEF StarsAreLive
  <2>5. NoStrayReminder'
    BY <2>1, <2>2, <2>3 DEF NoStrayReminder, Pending, Wanted, SendAt, Key
  <2>6. NoGap'
    BY <2>1, <2>2, <2>3 DEF NoGap, Wanted, Key
  <2>. QED  BY <2>4, <2>5, <2>6
<1>5. ASSUME NEW u \in Users, NEW c \in Confs, Star(u, c) PROVE ScheduleInv'
  <2>1. UNCHANGED <<conf, settings>> /\ stars' = stars \cup {<<u, c>>} /\ Live(c)
    BY <1>5 DEF Star
  <2>2. StarsAreLive'
    BY <2>1 DEF StarsAreLive, Live
  <2>3. \A k \in Key : k \in OfPair(u, c) <=> <<k.user, k.conf>> = <<u, c>>
    BY DEF OfPair
  <2>4. log' = Materialize(log, OfPair(u, c), conf, settings)
    BY <1>5 DEF Star
  <2>5. NoStrayReminder'
    BY <1>0, <2>1, <2>3, <2>4, MaterializeRow
       DEF NoStrayReminder, Pending, Live, Wanted, SendAt
  <2>6. NoGap'
    BY <1>0, <2>1, <2>3, <2>4, MaterializeRow DEF NoGap, Wanted
  <2>. QED  BY <2>2, <2>5, <2>6
<1>6. ASSUME NEW u \in Users, NEW c \in Confs, Unstar(u, c) PROVE ScheduleInv'
  <2>1. UNCHANGED <<conf, settings>> /\ stars' = stars \ {<<u, c>>}
    BY <1>6 DEF Unstar
  <2>2. StarsAreLive'
    BY <2>1 DEF StarsAreLive, Live
  <2>3. \A k \in Key : k \in OfPair(u, c) <=> <<k.user, k.conf>> = <<u, c>>
    BY DEF OfPair
  <2>4. log' = CancelPending(log, OfPair(u, c))
    BY <1>6 DEF Unstar
  <2>5. NoStrayReminder'
    BY <1>0, <2>1, <2>3, <2>4, CancelRow
       DEF NoStrayReminder, Pending, Live, Wanted, SendAt
  <2>6. NoGap'
    BY <1>0, <2>1, <2>3, <2>4, CancelRow DEF NoGap, Wanted
  <2>. QED  BY <2>2, <2>5, <2>6
<1>7. ASSUME NEW u \in Users, NEW s \in SettingsRow, UpdateSettings(u, s)
      PROVE  ScheduleInv'
  <2>. DEFINE rows == DeletePending(log, StarredOf(u))
  <2>1. UNCHANGED <<conf, stars>> /\ \A v \in Users : v # u => settings'[v] = settings[v]
    BY <1>0, <1>7 DEF UpdateSettings
  <2>2. rows \in [Key -> Row]
    BY <1>0, DeleteType
  <2>3. log' = Materialize(rows, StarredOf(u), conf, settings')
    BY <1>7 DEF UpdateSettings
  <2>4. StarsAreLive'
    BY <2>1 DEF StarsAreLive, Live
  <2>5. ASSUME NEW k \in Key, k \notin StarredOf(u)
        PROVE  log'[k] = log[k]
    BY <1>0, <2>2, <2>3, <2>5, DeleteRow, MaterializeRow
  <2>6. ASSUME NEW k \in Key, k \in StarredOf(u)
        PROVE  /\ Pending(log', k) =>
                    /\ Wanted(k, conf, settings')
                    /\ log'[k].at = SendAt(k, conf, settings')
               /\ Wanted(k, conf, settings') => log'[k].status # "none"
    <3>1. ~Pending(rows, k)
      BY <1>0, <2>6, DeleteRow
    <3>. QED  BY <2>2, <2>3, <2>6, <3>1, MaterializeRow DEF Pending
  <2>7. \A k \in Key : k \in StarredOf(u) <=> k.user = u /\ <<k.user, k.conf>> \in stars
    BY DEF StarredOf
  <2>8. NoStrayReminder'
    <3>. SUFFICES ASSUME NEW k \in Key, Pending(log', k)
                  PROVE  /\ Live(k.conf) /\ <<k.user, k.conf>> \in stars
                         /\ Wanted(k, conf, settings')
                         /\ log'[k].at = SendAt(k, conf, settings')
      BY <2>1 DEF NoStrayReminder, Pending, Live, Wanted, SendAt
    <3>1. CASE k \in StarredOf(u)
      BY <2>6, <2>7, <3>1 DEF StarsAreLive
    <3>2. CASE k \notin StarredOf(u)
      <4>1. Pending(log, k) /\ log'[k] = log[k]
        BY <2>5, <3>2 DEF Pending
      <4>2. k.user # u /\ k.user \in Users
        BY <2>7, <3>2, <4>1 DEF NoStrayReminder, Key
      <4>. QED  BY <2>1, <4>1, <4>2 DEF NoStrayReminder, Wanted, SendAt
    <3>. QED  BY <3>1, <3>2
  <2>9. NoGap'
    BY <2>1, <2>5, <2>6, <2>7 DEF NoGap, Wanted, Key
  <2>. QED  BY <2>4, <2>8, <2>9
<1>. QED  BY <1>1, <1>2, <1>3, <1>4, <1>5, <1>6, <1>7 DEF Request

\* A step that leaves the four tables alone keeps the schedule.
LEMMA ScheduleFrame == ScheduleInv /\ UNCHANGED dbVars => ScheduleInv'
BY DEF ScheduleInv, dbVars, StarsAreLive, NoStrayReminder, NoGap, Live, Pending,
       Wanted, SendAt

\* Committing a dispatch and sweeping the archive keep the schedule; no other
\* step of a scheduler writes the tables.
LEMMA ScheduleScheduler ==
    ASSUME TypeOK, ScheduleInv, NEW r \in Replicas, Work(r) \/ Fault(r)
    PROVE  ScheduleInv'
<1>0. /\ log \in [Key -> Row] /\ mark[r] \in [Key -> Mark]
      /\ conf \in [Confs -> ConfRow] /\ stars \subseteq Users \X Confs
  BY DEF TypeOK
<1>. USE DEF ScheduleInv
<1>1. CASE UNCHANGED dbVars
  BY <1>1, ScheduleFrame
<1>2. CASE CommitDispatch(r)
  <2>1. UNCHANGED <<conf, settings, stars>> /\ log' = ApplyMarks(log, mark[r])
    BY <1>2 DEF CommitDispatch
  <2>2. \A k \in Key : /\ log'[k].status = "none" => log[k].status = "none"
                       /\ Pending(log', k) => Pending(log, k)
                       /\ log'[k].at = log[k].at
    BY <1>0, <2>1, ApplyMarksRow DEF Pending, Mark
  <2>. QED  BY <2>1, <2>2 DEF StarsAreLive, NoStrayReminder, NoGap, Live, Wanted, SendAt
<1>3. CASE SweepArchive(r)
  <2>1. \A x \in Confs : /\ conf'[x].deadline = conf[x].deadline
                         /\ Live(x) => Live(x)'
    BY <1>0, <1>3 DEF SweepArchive, ConfRow, Live
  <2>2. UNCHANGED <<stars, settings>>
    BY <1>3 DEF SweepArchive
  <2>3. \A k \in Key : /\ log'[k].status = "none" <=> log[k].status = "none"
                       /\ Pending(log', k) => log'[k] = log[k]
    BY <1>0, <1>3, CancelRow DEF SweepArchive, Pending
  <2>4. StarsAreLive'
    BY <1>0, <2>1, <2>2 DEF StarsAreLive
  <2>5. NoStrayReminder'
    BY <2>1, <2>2, <2>3 DEF NoStrayReminder, Pending, Wanted, SendAt, Key
  <2>6. NoGap'
    BY <2>1, <2>2, <2>3 DEF NoGap, Wanted, Key
  <2>. QED  BY <2>4, <2>5, <2>6
<1>. QED
  BY <1>1, <1>2, <1>3
     DEF Work, Fault, BeginDispatch, SendOk, SendError, SkipSweep,
         SendUnacknowledged, RenderError, TxBreaks, SweepFails, Crash

\* The invariant of the schedule, with the type invariant it needs.
LEMMA ScheduleAlways == Spec => [](TypeOK /\ ScheduleInv)
<1>1. TypeOK /\ ScheduleInv /\ [Next]_vars => ScheduleInv'
  <2>. SUFFICES ASSUME TypeOK, ScheduleInv, [Next]_vars PROVE ScheduleInv'
    OBVIOUS
  <2>1. CASE Request
    BY <2>1, ScheduleRequest
  <2>2. CASE Advance \/ UNCHANGED vars
    BY <2>2, ScheduleFrame DEF Advance, vars, dbVars
  <2>3. ASSUME NEW r \in Replicas, Work(r) \/ Fault(r) PROVE ScheduleInv'
    BY <2>3, ScheduleScheduler
  <2>. QED  BY <2>1, <2>2, <2>3 DEF Next
<1>. QED  BY TypeCorrect, ScheduleInit, <1>1, PTL DEF Spec

\* In every behaviour a pending row is one that its user's star, the
\* conference's deadline and the user's settings call for, at the time they
\* give.
THEOREM NoStrayReminderAlways == Spec => []NoStrayReminder
BY ScheduleAlways, PTL DEF ScheduleInv

\* In every behaviour a pending reminder leaves at 09:00 local, its lead time
\* before the deadline's local day.
THEOREM LeavesAtNineLocalAlways == Spec => []LeavesAtNineLocal
<1>1. TypeOK /\ NoStrayReminder => LeavesAtNineLocal
  <2>. SUFFICES ASSUME TypeOK, NoStrayReminder, NEW k \in Key, Pending(log, k)
                PROVE  LET tz == settings[k.user].tz
                           deadline == conf[k.conf].deadline[k.kind] IN
                       /\ (log[k].at + tz) % HoursPerDay = SendHour
                       /\ LocalDay(deadline, tz) - LocalDay(log[k].at, tz) = k.lead
    BY DEF LeavesAtNineLocal
  <2>1. log[k].at = SendAt(k, conf, settings)
    BY DEF NoStrayReminder
  <2>2. /\ conf[k.conf].deadline[k.kind] \in Int
        /\ k.lead \in Int /\ settings[k.user].tz \in Int
    BY SendAtInt DEF TypeOK
  <2>. QED  BY <2>1, <2>2, ScheduledForIsNineLocal DEF SendAt
<1>. QED  BY <1>1, ScheduleAlways, PTL DEF ScheduleInv

\* In every behaviour each reminder a starring user wants has a row.
THEOREM NoGapAlways == Spec => []NoGap
BY ScheduleAlways, PTL DEF ScheduleInv

-----------------------------------------------------------------------------
(* The dispatch transactions: locks, marks and the retry budget.           *)

\* Outside dispatchReminders no transaction is open; the loop's remaining
\* rows are among those it locked.
TxShape ==
    \A r \in Replicas :
        /\ todo[r] \subseteq batch[r]
        /\ pc[r] # "dispatch" => conn[r] = "ok" /\ batch[r] = {}

\* A mark exists only in a usable transaction, for a row the loop has passed.
MarksAreHeld ==
    \A r \in Replicas, k \in Key : mark[r][k] # "none" =>
        conn[r] = "ok" /\ k \in batch[r] /\ k \notin todo[r]

\* A locked row was due when it was selected, and so it is now.
HeldRowsAreDue == \A k \in Key : Locked(k) => log[k].at <= now

\* A row marked for another try has one left after this failure.
RetryHasBudget ==
    \A r \in Replicas, k \in Key :
        mark[r][k] = "retry" => log[k].attempts + 1 < MaxAttempts

DispatchInv == /\ TxShape /\ MarksAreHeld /\ HeldRowsArePending
               /\ HeldRowsAreDue /\ RetryHasBudget /\ AttemptsBelowMax

\* No dispatcher holds anything at first.
LEMMA DispatchInit == Init => DispatchInv
BY BoundAssumption
   DEF Init, DispatchInv, TxShape, MarksAreHeld, HeldRowsArePending,
       HeldRowsAreDue, RetryHasBudget, AttemptsBelowMax, Locked, NoMarks,
       Pending, NoRow

\* A request leaves a locked row alone, and the rows it makes pending start
\* with no attempts.
LEMMA RequestRows ==
    ASSUME TypeOK, DispatchInv, Request, NEW k \in Key
    PROVE  /\ Locked(k) => log'[k] = log[k]
           /\ Pending(log', k) => log'[k] = log[k] \/ log'[k].attempts = 0
<1>0. /\ log \in [Key -> Row] /\ settings \in [Users -> SettingsRow]
      /\ conf \in [Confs -> ConfRow]
  BY DEF TypeOK
<1>00. Locked(k) => Pending(log, k) /\ log[k].status # "none"
  BY DEF DispatchInv, HeldRowsArePending, Locked, Pending
<1>1. ASSUME NEW c \in Confs, NEW d \in DeadlineMap, NEW e \in EndDays \cup {Unset},
             Update(c, d, e)
      PROVE  /\ Locked(k) => log'[k] = log[k]
             /\ Pending(log', k) => log'[k] = log[k] \/ log'[k].attempts = 0
  <2>. DEFINE rows == DeletePending(log, OfConf(c))
  <2>1. rows \in [Key -> Row] /\ log' = Materialize(rows, Starring(c), conf', settings)
    BY <1>0, <1>1, DeleteType DEF Update
  <2>2. k \in OfConf(c) => ~Locked(k)
    BY <1>1 DEF Update, Unlocked
  <2>3. Pending(rows, k) => rows[k] = log[k]
    BY <1>0, DeleteRow
  <2>4. Locked(k) => rows[k] = log[k]
    BY <1>0, <2>2, DeleteRow
  <2>. QED  BY <1>00, <2>1, <2>3, <2>4, MaterializeRow DEF Pending
<1>2. ASSUME NEW u \in Users, NEW s \in SettingsRow, UpdateSettings(u, s)
      PROVE  /\ Locked(k) => log'[k] = log[k]
             /\ Pending(log', k) => log'[k] = log[k] \/ log'[k].attempts = 0
  <2>. DEFINE rows == DeletePending(log, StarredOf(u))
  <2>1. rows \in [Key -> Row] /\ log' = Materialize(rows, StarredOf(u), conf, settings')
    BY <1>0, <1>2, DeleteType DEF UpdateSettings
  <2>2. k \in StarredOf(u) => ~Locked(k)
    BY <1>2 DEF UpdateSettings, Unlocked
  <2>3. Pending(rows, k) => rows[k] = log[k]
    BY <1>0, DeleteRow
  <2>4. Locked(k) => rows[k] = log[k]
    BY <1>0, <2>2, DeleteRow
  <2>. QED  BY <1>00, <2>1, <2>3, <2>4, MaterializeRow DEF Pending
<1>3. ASSUME NEW u \in Users, NEW c \in Confs, Star(u, c)
      PROVE  /\ Locked(k) => log'[k] = log[k]
             /\ Pending(log', k) => log'[k] = log[k] \/ log'[k].attempts = 0
  BY <1>0, <1>00, <1>3, MaterializeRow DEF Star
<1>4. ASSUME NEW u \in Users, NEW c \in Confs, Unstar(u, c)
      PROVE  /\ Locked(k) => log'[k] = log[k]
             /\ Pending(log', k) => log'[k] = log[k] \/ log'[k].attempts = 0
  BY <1>0, <1>4, CancelRow DEF Unstar, Unlocked
<1>5. ASSUME NEW c \in Confs, Archive(c)
      PROVE  /\ Locked(k) => log'[k] = log[k]
             /\ Pending(log', k) => log'[k] = log[k] \/ log'[k].attempts = 0
  BY <1>0, <1>5, CancelRow DEF Archive, Unlocked
<1>6. ASSUME NEW c \in Confs, Delete(c)
      PROVE  /\ Locked(k) => log'[k] = log[k]
             /\ Pending(log', k) => log'[k] = log[k] \/ log'[k].attempts = 0
  BY <1>0, <1>6 DEF Delete, Unlocked, OfConf, NoRow
<1>7. ASSUME NEW c \in Confs, Unarchive(c) PROVE log' = log
  BY <1>7 DEF Unarchive
<1>8. ASSUME NEW c \in Confs, NEW d \in DeadlineMap, NEW e \in EndDays \cup {Unset},
             Create(c, d, e)
      PROVE  log' = log
  BY <1>8 DEF Create
<1>. QED  BY <1>1, <1>2, <1>3, <1>4, <1>5, <1>6, <1>7, <1>8 DEF Request

\* A request touches neither the dispatchers nor what they have mailed.
LEMMA RequestFrame == Request => UNCHANGED <<now, txVars, mails, faults>>
BY DEF Request, Create, Update, Delete, Archive, Unarchive, Star, Unstar, UpdateSettings

\* A step that leaves the dispatchers alone and the locked rows as they are
\* keeps the invariant of the dispatchers.
LEMMA DispatchTables ==
    ASSUME TypeOK, DispatchInv, now' \in Instants, now <= now',
           UNCHANGED <<pc, conn, batch, todo, mark>>,
           \A k \in Key : Locked(k) => log'[k] = log[k],
           \A k \in Key : Pending(log', k) => log'[k] = log[k] \/ log'[k].attempts = 0
    PROVE  DispatchInv'
<1>. USE DEF DispatchInv
<1>0. now \in Int /\ now' \in Int /\ \A k \in Key : log[k].at \in Int
  BY DomainAssumption DEF TypeOK, Row
<1>1. TxShape'
  BY DEF TxShape
<1>2. MarksAreHeld'
  BY DEF MarksAreHeld
<1>3. \A r \in Replicas : conn[r] # "lost" => \A k \in batch[r] : log'[k] = log[k]
  BY DEF TypeOK, Locked
<1>4. HeldRowsArePending'
  BY <1>3 DEF HeldRowsArePending, Pending
<1>5. HeldRowsAreDue'
  BY <1>0 DEF HeldRowsAreDue, Locked
<1>6. RetryHasBudget'
  <2>. SUFFICES ASSUME NEW r \in Replicas, NEW k \in Key, mark[r][k] = "retry"
                PROVE  log'[k].attempts + 1 < MaxAttempts
    BY DEF RetryHasBudget
  <2>1. conn[r] = "ok" /\ k \in batch[r]
    BY DEF MarksAreHeld
  <2>. QED  BY <1>3, <2>1 DEF RetryHasBudget
<1>7. AttemptsBelowMax'
  BY BoundAssumption DEF AttemptsBelowMax, Pending
<1>. QED  BY <1>1, <1>2, <1>4, <1>5, <1>6, <1>7

\* The loop takes row k, writes m if it can, and goes on.
LEMMA DispatchRow ==
    ASSUME TypeOK, DispatchInv, NEW r \in Replicas, NEW k \in Key, NEW m \in Mark,
           NextRow(r, k), SetMark(r, k, m),
           m = "retry" => log[k].attempts + 1 < MaxAttempts,
           UNCHANGED <<now, dbVars, pc, conn, batch>>
    PROVE  DispatchInv'
<1>. USE DEF DispatchInv
<1>0. /\ k \in todo[r] /\ k \in batch[r] /\ todo' = [todo EXCEPT ![r] = @ \ {k}]
      /\ UNCHANGED <<now, conf, settings, stars, log, pc, conn, batch>>
      /\ mark \in [Replicas -> [Key -> Mark]] /\ todo \in [Replicas -> SUBSET Key]
  BY DEF NextRow, TxShape, dbVars, TypeOK
<1>1. \A q \in Replicas, j \in Key :
          mark'[q][j] = IF conn[r] = "ok" /\ q = r /\ j = k THEN m ELSE mark[q][j]
  BY <1>0 DEF SetMark
<1>2. TxShape'
  BY <1>0 DEF TxShape
<1>3. MarksAreHeld'
  BY <1>0, <1>1 DEF MarksAreHeld
<1>4. HeldRowsArePending' /\ HeldRowsAreDue' /\ AttemptsBelowMax'
  BY <1>0 DEF HeldRowsArePending, HeldRowsAreDue, AttemptsBelowMax, Pending, Locked
<1>5. RetryHasBudget'
  BY <1>0, <1>1 DEF RetryHasBudget
<1>. QED  BY <1>2, <1>3, <1>4, <1>5

\* The transaction of r is gone, with its marks: no lock is gained, and no
\* row changes.
LEMMA DispatchDrop ==
    ASSUME TypeOK, DispatchInv, NEW r \in Replicas,
           mark' = [mark EXCEPT ![r] = NoMarks],
           \A q \in Replicas : q # r =>
              /\ pc'[q] = pc[q] /\ conn'[q] = conn[q]
              /\ batch'[q] = batch[q] /\ todo'[q] = todo[q],
           todo'[r] \subseteq batch'[r], batch'[r] \subseteq batch[r],
           pc'[r] # "dispatch" => conn'[r] = "ok" /\ batch'[r] = {},
           batch'[r] # {} => conn[r] = "ok",
           UNCHANGED <<now, log>>
    PROVE  DispatchInv'
<1>. USE DEF DispatchInv
<1>0. \A q \in Replicas, k \in Key :
          mark'[q][k] = IF q = r THEN "none" ELSE mark[q][k]
  BY DEF NoMarks, TypeOK
<1>1. TxShape'
  BY DEF TxShape
<1>2. MarksAreHeld'
  BY <1>0 DEF MarksAreHeld
<1>3. \A q \in Replicas, k \in Key :
          (conn'[q] # "lost" /\ k \in batch'[q]) => (conn[q] # "lost" /\ k \in batch[q])
  OBVIOUS
<1>4. HeldRowsArePending'
  <2>. SUFFICES ASSUME NEW p \in Replicas, conn'[p] # "lost", NEW k \in batch'[p]
                PROVE  /\ Pending(log, k)
                       /\ \A q \in Replicas \ {p} : conn'[q] # "lost" => k \notin batch'[q]
    BY DEF HeldRowsArePending, Pending
  <2>1. k \in Key
    BY DEF TypeOK
  <2>. QED  BY <1>3, <2>1 DEF HeldRowsArePending
<1>5. HeldRowsAreDue'
  BY <1>3 DEF HeldRowsAreDue, Locked
<1>6. RetryHasBudget' /\ AttemptsBelowMax'
  BY <1>0 DEF RetryHasBudget, AttemptsBelowMax, Pending
<1>. QED  BY <1>1, <1>2, <1>4, <1>5, <1>6

\* A failed send is marked for retry only while a try is left.
LEMMA FailureMarkBudget ==
    ASSUME TypeOK, NEW k \in Key
    PROVE  /\ FailureMark(k) \in Mark /\ FailureMark(k) # "sent"
           /\ FailureMark(k) = "retry" => log[k].attempts + 1 < MaxAttempts
<1>1. log[k].attempts \in Nat
  BY DEF TypeOK, Row
<1>. QED  BY <1>1, BoundAssumption DEF FailureMark, Mark

\* Selecting a batch locks rows that are due and that nobody holds.
LEMMA DispatchBegin ==
    ASSUME TypeOK, DispatchInv, NEW r \in Replicas, BeginDispatch(r)
    PROVE  DispatchInv'
<1>. USE DEF DispatchInv
<1>1. PICK B \in SUBSET Due : /\ SelectDueReminders(B)
                              /\ batch' = [batch EXCEPT ![r] = B]
                              /\ todo' = [todo EXCEPT ![r] = B]
  BY DEF BeginDispatch
<1>2. /\ pc[r] = "idle" /\ pc' = [pc EXCEPT ![r] = "dispatch"]
      /\ UNCHANGED <<now, conf, settings, stars, log, conn, mark>>
  BY DEF BeginDispatch, dbVars
<1>3. B \subseteq Key /\ \A k \in B : Pending(log, k) /\ log[k].at <= now /\ ~Locked(k)
  BY <1>1 DEF Due, SelectDueReminders
<1>4. conn[r] = "ok" /\ \A k \in Key : mark[r][k] = "none"
  BY <1>2 DEF TxShape, MarksAreHeld
<1>5. \A q \in Replicas : /\ batch'[q] = IF q = r THEN B ELSE batch[q]
                          /\ todo'[q] = IF q = r THEN B ELSE todo[q]
                          /\ pc'[q] = IF q = r THEN "dispatch" ELSE pc[q]
  BY <1>1, <1>2 DEF TypeOK
<1>6. TxShape'
  BY <1>2, <1>4, <1>5 DEF TxShape
<1>7. MarksAreHeld'
  BY <1>2, <1>4, <1>5 DEF MarksAreHeld
<1>8. HeldRowsArePending'
  <2>. SUFFICES ASSUME NEW p \in Replicas, conn[p] # "lost", NEW k \in batch'[p]
                PROVE  /\ Pending(log, k)
                       /\ \A q \in Replicas \ {p} : conn[q] # "lost" => k \notin batch'[q]
    BY <1>2 DEF HeldRowsArePending, Pending
  <2>1. CASE p = r
    BY <1>3, <1>5, <2>1 DEF Locked
  <2>2. CASE p # r
    BY <1>3, <1>5, <2>2 DEF Locked, HeldRowsArePending
  <2>. QED  BY <2>1, <2>2
<1>9. HeldRowsAreDue'
  BY <1>2, <1>3, <1>5 DEF HeldRowsAreDue, Locked
<1>10. RetryHasBudget' /\ AttemptsBelowMax'
  BY <1>2 DEF RetryHasBudget, AttemptsBelowMax, Pending
<1>. QED  BY <1>6, <1>7, <1>8, <1>9, <1>10

\* Committing changes only rows of the committer's own batch.
LEMMA DispatchCommit ==
    ASSUME TypeOK, DispatchInv, NEW r \in Replicas, CommitDispatch(r)
    PROVE  DispatchInv'
<1>. USE DEF DispatchInv
<1>0. /\ log \in [Key -> Row] /\ mark[r] \in [Key -> Mark]
      /\ log' = ApplyMarks(log, mark[r]) /\ UNCHANGED <<now, todo>> /\ todo[r] = {}
  BY DEF TypeOK, CommitDispatch
<1>1. \A q \in Replicas :
        /\ batch'[q] = IF q = r THEN {} ELSE batch[q]
        /\ conn'[q] = IF q = r THEN "ok" ELSE conn[q]
        /\ mark'[q] = IF q = r THEN NoMarks ELSE mark[q]
        /\ q # r => pc'[q] = pc[q]
        /\ pc'[r] # "dispatch"
  BY DEF CommitDispatch, TypeOK
<1>2. ASSUME NEW q \in Replicas \ {r}, conn[q] # "lost", NEW k \in batch[q]
      PROVE  log'[k] = log[k]
  <2>1. k \in Key
    BY DEF TypeOK
  <2>2. mark[r][k] = "none"
    BY <1>2, <2>1 DEF MarksAreHeld, HeldRowsArePending
  <2>. QED  BY <1>0, <2>1, <2>2, ApplyMarksRow
<1>3. TxShape'
  BY <1>0, <1>1 DEF TxShape
<1>4. MarksAreHeld'
  BY <1>0, <1>1 DEF MarksAreHeld, NoMarks
<1>5. HeldRowsArePending'
  BY <1>1, <1>2 DEF HeldRowsArePending, Pending
<1>6. HeldRowsAreDue'
  BY <1>0, <1>1, <1>2 DEF HeldRowsAreDue, Locked
<1>7. RetryHasBudget'
  <2>. SUFFICES ASSUME NEW q \in Replicas, NEW k \in Key, mark'[q][k] = "retry"
                PROVE  log'[k].attempts + 1 < MaxAttempts
    BY DEF RetryHasBudget
  <2>1. q # r /\ mark[q][k] = "retry"
    BY <1>1 DEF NoMarks
  <2>2. log'[k] = log[k]
    BY <1>2, <2>1 DEF MarksAreHeld
  <2>. QED  BY <2>1, <2>2 DEF RetryHasBudget
<1>8. AttemptsBelowMax'
  <2>. SUFFICES ASSUME NEW k \in Key, Pending(log', k)
                PROVE  log'[k].attempts < MaxAttempts
    BY DEF AttemptsBelowMax, Pending
  <2>1. mark[r][k] \in {"none", "retry"}
    BY <1>0, ApplyMarksRow DEF Pending, Mark
  <2>2. CASE mark[r][k] = "none"
    BY <1>0, <2>2, ApplyMarksRow DEF AttemptsBelowMax, Pending
  <2>3. CASE mark[r][k] = "retry"
    BY <1>0, <2>3, ApplyMarksRow DEF RetryHasBudget
  <2>. QED  BY <2>1, <2>2, <2>3
<1>. QED  BY <1>3, <1>4, <1>5, <1>6, <1>7, <1>8

\* Every step of a scheduler keeps the invariant of the dispatchers.
LEMMA DispatchScheduler ==
    ASSUME TypeOK, DispatchInv, NEW r \in Replicas, Work(r) \/ Fault(r)
    PROVE  DispatchInv'
<1>1. CASE BeginDispatch(r)
  BY <1>1, DispatchBegin
<1>2. ASSUME NEW k \in Key, SendOk(r, k) PROVE DispatchInv'
  BY <1>2, DispatchRow DEF SendOk, Mark
<1>3. ASSUME NEW k \in Key, SendError(r, k) \/ SendUnacknowledged(r, k)
      PROVE  DispatchInv'
  <2>1. /\ NextRow(r, k) /\ SetMark(r, k, FailureMark(k))
        /\ UNCHANGED <<now, dbVars, pc, conn, batch>>
    BY <1>3 DEF SendError, SendUnacknowledged
  <2>. QED  BY <2>1, DispatchRow, FailureMarkBudget
<1>4. ASSUME NEW k \in Key, RenderError(r, k) PROVE DispatchInv'
  <2>1. /\ NextRow(r, k) /\ UNCHANGED <<now, dbVars, pc, conn, batch, mark>>
    BY <1>4 DEF RenderError
  <2>2. /\ todo' = [todo EXCEPT ![r] = @ \ {k}]
        /\ UNCHANGED <<now, log, pc, conn, batch, mark>>
        /\ todo \in [Replicas -> SUBSET Key]
    BY <2>1 DEF NextRow, dbVars, TypeOK
  <2>. QED  BY <2>2 DEF DispatchInv, TxShape, MarksAreHeld, HeldRowsArePending,
            HeldRowsAreDue, RetryHasBudget, AttemptsBelowMax, Pending, Locked
<1>5. CASE CommitDispatch(r)
  BY <1>5, DispatchCommit
<1>6. CASE SweepArchive(r)
  <2>1. \A k \in Key : /\ Locked(k) => log'[k] = log[k]
                       /\ Pending(log', k) => log'[k] = log[k]
    BY <1>6, CancelRow DEF SweepArchive, Unlocked, TypeOK
  <2>2. \A q \in Replicas : /\ pc'[q] = (IF q = r THEN "idle" ELSE pc[q])
                            /\ pc[r] = "sweep"
    BY <1>6 DEF SweepArchive, TypeOK
  <2>3. UNCHANGED <<now, conn, batch, todo, mark>>
    BY <1>6 DEF SweepArchive
  <2>4. TxShape'
    BY <2>2, <2>3 DEF DispatchInv, TxShape
  <2>5. \A q \in Replicas : conn[q] # "lost" => \A k \in batch[q] : log'[k] = log[k]
    BY <2>1 DEF TypeOK, Locked
  <2>6. MarksAreHeld' /\ HeldRowsArePending' /\ HeldRowsAreDue'
    BY <2>3, <2>5
       DEF DispatchInv, MarksAreHeld, HeldRowsArePending, HeldRowsAreDue, Pending, Locked
  <2>7. RetryHasBudget' /\ AttemptsBelowMax'
    BY <2>1, <2>3, <2>5
       DEF DispatchInv, MarksAreHeld, RetryHasBudget, AttemptsBelowMax, Pending
  <2>. QED  BY <2>4, <2>6, <2>7 DEF DispatchInv
<1>7. CASE SkipSweep(r) \/ SweepFails(r)
  <2>1. /\ \A q \in Replicas : pc'[q] = (IF q = r THEN "idle" ELSE pc[q])
        /\ pc[r] = "sweep" /\ UNCHANGED <<now, log, conn, batch, todo, mark>>
    BY <1>7 DEF SkipSweep, SweepFails, TypeOK, dbVars
  <2>. QED  BY <2>1 DEF DispatchInv, TxShape, MarksAreHeld, HeldRowsArePending,
            HeldRowsAreDue, RetryHasBudget, AttemptsBelowMax, Pending, Locked
<1>8. ASSUME NEW how \in {"aborted", "lost"}, TxBreaks(r, how) PROVE DispatchInv'
  <2>1. /\ mark' = [mark EXCEPT ![r] = NoMarks] /\ conn[r] = "ok" /\ pc[r] = "dispatch"
        /\ UNCHANGED <<now, log, pc, batch, todo>>
        /\ \A q \in Replicas : q # r => conn'[q] = conn[q]
    BY <1>8 DEF TxBreaks, TypeOK, dbVars
  <2>. QED  BY <2>1, DispatchDrop DEF DispatchInv, TxShape
<1>9. CASE Crash(r)
  <2>1. /\ mark' = [mark EXCEPT ![r] = NoMarks] /\ UNCHANGED <<now, log>>
        /\ pc'[r] = "idle" /\ conn'[r] = "ok" /\ batch'[r] = {} /\ todo'[r] = {}
        /\ \A q \in Replicas : q # r =>
              /\ pc'[q] = pc[q] /\ conn'[q] = conn[q]
              /\ batch'[q] = batch[q] /\ todo'[q] = todo[q]
    BY <1>9 DEF Crash, TypeOK, dbVars
  <2>. QED  BY <2>1, DispatchDrop
<1>. QED  BY <1>1, <1>2, <1>3, <1>4, <1>5, <1>6, <1>7, <1>8, <1>9 DEF Work, Fault

\* The invariants that every step needs, together.
LEMMA DispatchAlways == Spec => [](TypeOK /\ ScheduleInv /\ DispatchInv)
<1>1. TypeOK /\ DispatchInv /\ [Next]_vars => DispatchInv'
  <2>. SUFFICES ASSUME TypeOK, DispatchInv, [Next]_vars PROVE DispatchInv'
    OBVIOUS
  <2>0. now \in Instants /\ now <= now
    BY DomainAssumption DEF TypeOK
  <2>1. CASE Request
    <3>1. UNCHANGED <<now, pc, conn, batch, todo, mark>>
      BY <2>1, RequestFrame DEF txVars
    <3>2. \A k \in Key : Locked(k) => log'[k] = log[k]
      BY <2>1, RequestRows
    <3>3. \A k \in Key : Pending(log', k) => log'[k] = log[k] \/ log'[k].attempts = 0
      BY <2>1, RequestRows
    <3>. QED  BY <2>0, <3>1, <3>2, <3>3, DispatchTables
  <2>2. CASE Advance
    <3>1. PICK t \in Instants : t > now /\ now' = t
      BY <2>2 DEF Advance
    <3>2. now' \in Instants /\ now <= now'
      BY <2>0, <3>1, DomainAssumption
    <3>3. UNCHANGED <<pc, conn, batch, todo, mark, log>>
      BY <2>2 DEF Advance, dbVars, txVars
    <3>. QED  BY <3>2, <3>3, DispatchTables DEF Pending
  <2>3. CASE UNCHANGED vars
    BY <2>0, <2>3, DispatchTables DEF vars, Pending
  <2>4. ASSUME NEW r \in Replicas, Work(r) \/ Fault(r) PROVE DispatchInv'
    BY <2>4, DispatchScheduler
  <2>. QED  BY <2>1, <2>2, <2>3, <2>4 DEF Next
<1>. QED  BY ScheduleAlways, DispatchInit, <1>1, PTL DEF Spec

\* In every behaviour, whatever the number of replicas, a locked row is
\* pending and has one holder.
THEOREM HeldRowsArePendingAlways == Spec => []HeldRowsArePending
BY DispatchAlways, PTL DEF DispatchInv

\* In every behaviour a pending row has a try left.
THEOREM AttemptsBelowMaxAlways == Spec => []AttemptsBelowMax
BY DispatchAlways, PTL DEF DispatchInv

-----------------------------------------------------------------------------
(* The mail: what is recorded, what is owed to a fault.                    *)

\* Dispatchers whose transaction broke and that may still mail k unrecorded.
Owing(k) == {r \in Replicas : conn[r] # "ok" /\ k \in todo[r]}

\* k's mail is on record: committed, written in an open transaction, or gone
\* with its conference.
Recorded(k) == \/ log[k].status = "sent"
               \/ \E r \in Replicas : mark[r][k] = "sent"
               \/ conf[k.conf].state = "deleted"

\* Copies mailed, and copies that may still leave unrecorded, are paid for by
\* a fault each, except for the one on record.
MailIsPaidFor ==
    \A k \in Key : mails[k] + Cardinality(Owing(k))
                     <= faults + (IF Recorded(k) THEN 1 ELSE 0)

\* A mark that says sent, like a row that does, stands for a copy.
MarkedMeansMailed ==
    \A r \in Replicas, k \in Key : mark[r][k] = "sent" => mails[k] >= 1

MailInv == MailIsPaidFor /\ MarkedMeansMailed /\ SentMeansMailed

\* Sets of replicas are finite and can be counted.
LEMMA ReplicaSets ==
    ASSUME NEW S \in SUBSET Replicas
    PROVE  IsFiniteSet(S) /\ Cardinality(S) \in Nat
BY DomainAssumption, FS_Subset, FS_CardinalityType

\* The number of replicas in a part is no larger than in the whole.
LEMMA FewerReplicas ==
    ASSUME NEW T \in SUBSET Replicas, NEW S \in SUBSET T
    PROVE  Cardinality(S) <= Cardinality(T)
BY ReplicaSets, FS_Subset

\* No mail has left at first.
LEMMA MailInit == Init => MailInv
<1>. SUFFICES ASSUME Init PROVE MailInv
  OBVIOUS
<1>1. \A k \in Key : Owing(k) = {}
  BY DEF Init, Owing
<1>2. \A k \in Key : Cardinality(Owing(k)) = 0
  BY <1>1, FS_EmptySet
<1>. QED  BY <1>2 DEF Init, MailInv, MailIsPaidFor, MarkedMeansMailed,
                      SentMeansMailed, NoMarks, NoRow

\* A request never rewrites history, except by deleting the conference, and
\* never invents it.
LEMMA RequestHistory ==
    ASSUME TypeOK, Request, NEW k \in Key
    PROVE  /\ log[k].status \in {"sent", "failed", "cancelled"} =>
                log'[k] = log[k] \/ conf'[k.conf].state = "deleted"
           /\ conf[k.conf].state = "deleted" => conf'[k.conf].state = "deleted"
           /\ log'[k].status = "sent" => log[k].status = "sent"
<1>0. /\ log \in [Key -> Row] /\ settings \in [Users -> SettingsRow]
      /\ conf \in [Confs -> ConfRow] /\ k.conf \in Confs
  BY DEF TypeOK, Key
<1>. DEFINE Goal == /\ log[k].status \in {"sent", "failed", "cancelled"} =>
                         log'[k] = log[k] \/ conf'[k.conf].state = "deleted"
                    /\ conf[k.conf].state = "deleted" => conf'[k.conf].state = "deleted"
                    /\ log'[k].status = "sent" => log[k].status = "sent"
<1>1. ASSUME NEW c \in Confs, NEW d \in DeadlineMap, NEW e \in EndDays \cup {Unset},
             Update(c, d, e)
      PROVE  Goal
  <2>. DEFINE rows == DeletePending(log, OfConf(c))
  <2>1. rows \in [Key -> Row] /\ log' = Materialize(rows, Starring(c), conf', settings)
    BY <1>0, <1>1, DeleteType DEF Update
  <2>2. /\ ~Pending(log, k) => rows[k] = log[k]
        /\ rows[k].status = "sent" => log[k].status = "sent"
    BY <1>0, DeleteRow DEF DeletePending, NoRow
  <2>3. conf[k.conf].state = "deleted" => conf'[k.conf].state = "deleted"
    BY <1>0, <1>1 DEF Update, ConfRow
  <2>. QED  BY <2>1, <2>2, <2>3, MaterializeRow DEF Pending
<1>2. ASSUME NEW u \in Users, NEW s \in SettingsRow, UpdateSettings(u, s) PROVE Goal
  <2>. DEFINE rows == DeletePending(log, StarredOf(u))
  <2>1. /\ rows \in [Key -> Row] /\ log' = Materialize(rows, StarredOf(u), conf, settings')
        /\ conf' = conf
    BY <1>0, <1>2, DeleteType DEF UpdateSettings
  <2>2. /\ ~Pending(log, k) => rows[k] = log[k]
        /\ rows[k].status = "sent" => log[k].status = "sent"
    BY <1>0, DeleteRow DEF DeletePending, NoRow
  <2>. QED  BY <2>1, <2>2, MaterializeRow DEF Pending
<1>3. ASSUME NEW u \in Users, NEW c \in Confs, Star(u, c) PROVE Goal
  BY <1>0, <1>3, MaterializeRow DEF Star
<1>4. ASSUME NEW u \in Users, NEW c \in Confs, Unstar(u, c) PROVE Goal
  <2>1. /\ ~Pending(log, k) => log'[k] = log[k]
        /\ log'[k].status = "sent" => log[k].status = "sent"
    BY <1>0, <1>4, CancelRow DEF Unstar, CancelPending, Row
  <2>. QED  BY <1>4, <2>1 DEF Unstar, Pending
<1>5. ASSUME NEW c \in Confs, Archive(c) PROVE Goal
  <2>1. /\ ~Pending(log, k) => log'[k] = log[k]
        /\ log'[k].status = "sent" => log[k].status = "sent"
    BY <1>0, <1>5, CancelRow DEF Archive, CancelPending, Row
  <2>2. conf[k.conf].state = "deleted" => conf'[k.conf].state = "deleted"
    BY <1>0, <1>5 DEF Archive, Live, ConfRow
  <2>. QED  BY <2>1, <2>2 DEF Pending
<1>6. ASSUME NEW c \in Confs, Delete(c) PROVE Goal
  BY <1>0, <1>6 DEF Delete, NoRow, ConfRow
<1>7. ASSUME NEW c \in Confs, Unarchive(c) PROVE Goal
  BY <1>0, <1>7 DEF Unarchive, Live, ConfRow
<1>8. ASSUME NEW c \in Confs, NEW d \in DeadlineMap, NEW e \in EndDays \cup {Unset},
             Create(c, d, e)
      PROVE  Goal
  BY <1>0, <1>8 DEF Create
<1>. QED  BY <1>1, <1>2, <1>3, <1>4, <1>5, <1>6, <1>7, <1>8 DEF Request

\* A step that hands over no mail keeps the account, if no dispatcher becomes
\* able to mail unrecorded and a record disappears only together with a fault.
LEMMA MailQuiet ==
    ASSUME TypeOK, TypeOK', MailInv, mails' = mails,
           faults' = faults \/ faults' = faults + 1,
           \A k \in Key : Owing(k)' \subseteq Owing(k),
           \A k \in Key : Recorded(k) => Recorded(k)' \/ faults' = faults + 1,
           \A r \in Replicas, k \in Key :
               mark'[r][k] = "sent" => mark[r][k] = "sent",
           \A k \in Key : log'[k].status = "sent" =>
               log[k].status = "sent" \/ \E r \in Replicas : mark[r][k] = "sent"
    PROVE  MailInv'
<1>. USE DEF MailInv
<1>0. faults \in Nat /\ mails \in [Key -> Nat]
  BY BoundAssumption DEF TypeOK
<1>1. ASSUME NEW k \in Key
      PROVE  mails'[k] + Cardinality(Owing(k)')
               <= faults' + (IF Recorded(k)' THEN 1 ELSE 0)
  <2>1. Owing(k) \in SUBSET Replicas /\ Owing(k)' \in SUBSET Replicas
    BY DEF Owing
  <2>2. Cardinality(Owing(k)') <= Cardinality(Owing(k))
    BY <2>1, FewerReplicas
  <2>3. Cardinality(Owing(k)') \in Nat /\ Cardinality(Owing(k)) \in Nat
    BY <2>1, ReplicaSets
  <2>4. mails[k] + Cardinality(Owing(k)) <= faults + (IF Recorded(k) THEN 1 ELSE 0)
    BY DEF MailIsPaidFor
  <2>5. Recorded(k) => Recorded(k)' \/ faults' = faults + 1
    OBVIOUS
  <2>6. mails[k] \in Nat
    BY <1>0
  <2>. HIDE DEF Recorded, Owing
  <2>. QED  BY <1>0, <2>2, <2>3, <2>4, <2>5, <2>6
<1>2. MailIsPaidFor'
  BY <1>1 DEF MailIsPaidFor
<1>3. MarkedMeansMailed'
  BY DEF MarkedMeansMailed
<1>4. SentMeansMailed'
  BY DEF SentMeansMailed, MarkedMeansMailed
<1>. QED  BY <1>2, <1>3, <1>4

\* A copy of k leaves.  It is recorded now and was not before, or it costs a
\* fault, or the dispatcher that sends it was already owing for it.
LEMMA MailLeaves ==
    ASSUME TypeOK, TypeOK', MailInv, NEW k \in Key,
           mails' = [mails EXCEPT ![k] = @ + 1],
           faults' = faults \/ faults' = faults + 1,
           log' = log,
           \A j \in Key : Owing(j)' \subseteq Owing(j),
           \A j \in Key : Recorded(j) => Recorded(j)',
           \/ ~Recorded(k) /\ Recorded(k)'
           \/ faults' = faults + 1
           \/ \E r \in Owing(k) : r \notin Owing(k)',
           \A r \in Replicas, j \in Key :
               mark'[r][j] = "sent" => mark[r][j] = "sent" \/ j = k
    PROVE  MailInv'
<1>. USE DEF MailInv
<1>0. faults \in Nat /\ \A j \in Key : mails[j] \in Nat /\ mails'[j] \in Nat
  BY BoundAssumption DEF TypeOK
<1>1. /\ \A j \in Key : mails'[j] = IF j = k THEN mails[k] + 1 ELSE mails[j]
  BY DEF TypeOK
<1>2. ASSUME NEW j \in Key
      PROVE  mails'[j] + Cardinality(Owing(j)')
               <= faults' + (IF Recorded(j)' THEN 1 ELSE 0)
  <2>1. Owing(j) \in SUBSET Replicas /\ Owing(j)' \in SUBSET Replicas
    BY DEF Owing
  <2>2. Cardinality(Owing(j)') <= Cardinality(Owing(j))
    BY <2>1, FewerReplicas
  <2>3. Cardinality(Owing(j)') \in Nat /\ Cardinality(Owing(j)) \in Nat
    BY <2>1, ReplicaSets
  <2>4. mails[j] + Cardinality(Owing(j)) <= faults + (IF Recorded(j) THEN 1 ELSE 0)
    BY DEF MailIsPaidFor
  <2>5. ASSUME NEW r \in Owing(j), r \notin Owing(j)'
        PROVE  Cardinality(Owing(j)') + 1 <= Cardinality(Owing(j))
    <3>1. Owing(j)' \in SUBSET (Owing(j) \ {r}) /\ (Owing(j) \ {r}) \in SUBSET Replicas
      BY <2>1, <2>5
    <3>2. Cardinality(Owing(j) \ {r}) = Cardinality(Owing(j)) - 1
      BY <2>1, <2>5, ReplicaSets, FS_RemoveElement
    <3>3. Cardinality(Owing(j)') <= Cardinality(Owing(j) \ {r})
      BY <3>1, FewerReplicas
    <3>. QED  BY <2>3, <3>2, <3>3
  <2>6. /\ Recorded(j) => Recorded(j)'
        /\ j = k => \/ ~Recorded(j) /\ Recorded(j)'
                    \/ faults' = faults + 1
                    \/ Cardinality(Owing(j)') + 1 <= Cardinality(Owing(j))
    BY <2>5
  <2>. HIDE DEF Recorded, Owing
  <2>7. CASE j = k
    BY <1>0, <1>1, <2>2, <2>3, <2>4, <2>6, <2>7
  <2>8. CASE j # k
    BY <1>0, <1>1, <2>2, <2>3, <2>4, <2>6, <2>8
  <2>. QED  BY <2>7, <2>8
<1>3. MailIsPaidFor'
  BY <1>2 DEF MailIsPaidFor
<1>4. MarkedMeansMailed' /\ SentMeansMailed'
  BY <1>0, <1>1 DEF MarkedMeansMailed, SentMeansMailed
<1>. QED  BY <1>3, <1>4

\* A row a usable transaction has yet to mail is on nobody's record.
LEMMA TodoIsUnrecorded ==
    ASSUME TypeOK, ScheduleInv, DispatchInv, NEW r \in Replicas, NEW k \in Key,
           k \in todo[r], conn[r] # "lost"
    PROVE  /\ log[k].status # "sent" /\ conf[k.conf].state # "deleted"
           /\ \A q \in Replicas : mark[q][k] = "none"
<1>1. k \in batch[r]
  BY DEF DispatchInv, TxShape
<1>2. Pending(log, k) /\ Live(k.conf)
  BY <1>1 DEF DispatchInv, HeldRowsArePending, ScheduleInv, NoStrayReminder
<1>3. \A q \in Replicas : mark[q][k] = "none"
  BY <1>1 DEF DispatchInv, HeldRowsArePending, MarksAreHeld
<1>. QED  BY <1>2, <1>3 DEF Pending, Live

\* Taking row k out of the loop and writing mark m, with what it does to the
\* accounts of all rows.
LEMMA RowTaken ==
    ASSUME TypeOK, ScheduleInv, DispatchInv,
           NEW r \in Replicas, NEW k \in Key, NEW m \in Mark,
           NextRow(r, k), SetMark(r, k, m),
           UNCHANGED <<dbVars, conn>>
    PROVE  /\ \A j \in Key : Owing(j)' \subseteq Owing(j)
           /\ \A j \in Key : Recorded(j) => Recorded(j)'
           /\ \A q \in Replicas, j \in Key :
                mark'[q][j] = "sent" => mark[q][j] = "sent" \/ (j = k /\ m = "sent")
           /\ log' = log
           /\ (conn[r] = "ok" /\ m = "sent") => (~Recorded(k) /\ Recorded(k)')
           /\ conn[r] # "ok" => r \in Owing(k) /\ r \notin Owing(k)'
<1>0. /\ k \in todo[r] /\ todo' = [todo EXCEPT ![r] = @ \ {k}]
      /\ UNCHANGED <<conf, settings, stars, log, conn>>
      /\ mark \in [Replicas -> [Key -> Mark]] /\ todo \in [Replicas -> SUBSET Key]
  BY DEF NextRow, dbVars, TypeOK
<1>1. \A q \in Replicas, j \in Key :
          mark'[q][j] = IF conn[r] = "ok" /\ q = r /\ j = k THEN m ELSE mark[q][j]
  BY <1>0 DEF SetMark
<1>2. conn[r] = "ok" => ~Recorded(k)
  BY <1>0, TodoIsUnrecorded DEF Recorded
<1>3. \A j \in Key : Owing(j)' \subseteq Owing(j)
  BY <1>0 DEF Owing
<1>4. \A j \in Key : Recorded(j) => Recorded(j)'
  BY <1>0, <1>1, <1>2 DEF Recorded
<1>5. (conn[r] = "ok" /\ m = "sent") => (~Recorded(k) /\ Recorded(k)')
  BY <1>1, <1>2 DEF Recorded
<1>6. conn[r] # "ok" => r \in Owing(k) /\ r \notin Owing(k)'
  BY <1>0 DEF Owing
<1>. QED  BY <1>0, <1>1, <1>3, <1>4, <1>5, <1>6

\* A transaction breaks: its recorded rows cost the fault, and so do the rows
\* it may still mail, but no row is both.
LEMMA MailBreaks ==
    ASSUME TypeOK, TypeOK', DispatchInv, MailInv, NEW r \in Replicas,
           NEW how \in {"aborted", "lost"}, TxBreaks(r, how)
    PROVE  MailInv'
<1>. USE DEF MailInv
<1>0. /\ faults \in Nat /\ \A j \in Key : mails[j] \in Nat
      /\ faults' = faults + 1 /\ UNCHANGED <<log, conf, todo, mails>>
      /\ \A q \in Replicas : conn'[q] = IF q = r THEN how ELSE conn[q]
      /\ \A q \in Replicas : mark'[q] = IF q = r THEN NoMarks ELSE mark[q]
  BY BoundAssumption DEF TypeOK, TxBreaks, dbVars
<1>1. ASSUME NEW k \in Key
      PROVE  mails'[k] + Cardinality(Owing(k)')
               <= faults' + (IF Recorded(k)' THEN 1 ELSE 0)
  <2>1. Owing(k) \in SUBSET Replicas /\ Owing(k)' \in SUBSET Replicas
    BY DEF Owing
  <2>2. Cardinality(Owing(k)') \in Nat /\ Cardinality(Owing(k)) \in Nat
    BY <2>1, ReplicaSets
  <2>3. mails[k] + Cardinality(Owing(k)) <= faults + (IF Recorded(k) THEN 1 ELSE 0)
    BY DEF MailIsPaidFor
  <2>4. CASE k \in todo[r]
    <3>1. mark[r][k] = "none"
      BY <2>4 DEF DispatchInv, MarksAreHeld
    <3>2. Recorded(k) => Recorded(k)'
      BY <1>0, <3>1 DEF Recorded
    <3>3. Owing(k)' \in SUBSET (Owing(k) \cup {r}) /\ (Owing(k) \cup {r}) \in SUBSET Replicas
      BY <1>0, <2>1 DEF Owing
    <3>4. Cardinality(Owing(k) \cup {r}) <= Cardinality(Owing(k)) + 1
      <4>1. Cardinality(Owing(k) \cup {r}) =
              IF r \in Owing(k) THEN Cardinality(Owing(k)) ELSE Cardinality(Owing(k)) + 1
        BY <2>1, ReplicaSets, FS_AddElement
      <4>. QED  BY <2>2, <4>1
    <3>5. Cardinality(Owing(k)') <= Cardinality(Owing(k) \cup {r})
      BY <3>3, FewerReplicas
    <3>6. Cardinality(Owing(k) \cup {r}) \in Nat
      BY <3>3, ReplicaSets
    <3>. QED  BY <1>0, <2>2, <2>3, <3>2, <3>4, <3>5, <3>6
  <2>5. CASE k \notin todo[r]
    <3>1. Owing(k)' = Owing(k)
      BY <1>0, <2>5 DEF Owing
    <3>. QED  BY <1>0, <2>2, <2>3, <3>1
  <2>. QED  BY <2>4, <2>5
<1>2. MailIsPaidFor'
  BY <1>1 DEF MailIsPaidFor
<1>3. MarkedMeansMailed' /\ SentMeansMailed'
  BY <1>0 DEF MarkedMeansMailed, SentMeansMailed, NoMarks
<1>. QED  BY <1>2, <1>3

\* Committing moves what the marks say into the table.
LEMMA CommitRecords ==
    ASSUME TypeOK, DispatchInv, NEW r \in Replicas, CommitDispatch(r)
    PROVE  /\ \A k \in Key : log[k].status \in {"sent", "failed", "cancelled"} =>
                                log'[k] = log[k]
           /\ \A k \in Key : log'[k].status = "sent" =>
                                log[k].status = "sent" \/ mark[r][k] = "sent"
           /\ \A k \in Key : Recorded(k) => Recorded(k)'
           /\ \A k \in Key : Owing(k)' \subseteq Owing(k)
           /\ \A q \in Replicas, k \in Key :
                mark'[q][k] = "sent" => mark[q][k] = "sent"
<1>0. /\ log \in [Key -> Row] /\ mark[r] \in [Key -> Mark]
      /\ log' = ApplyMarks(log, mark[r]) /\ UNCHANGED <<conf, todo>> /\ todo[r] = {}
      /\ \A q \in Replicas : conn'[q] = IF q = r THEN "ok" ELSE conn[q]
      /\ \A q \in Replicas : mark'[q] = IF q = r THEN NoMarks ELSE mark[q]
  BY DEF TypeOK, CommitDispatch
<1>1. \A k \in Key : log[k].status \in {"sent", "failed", "cancelled"} => mark[r][k] = "none"
  BY DEF DispatchInv, MarksAreHeld, HeldRowsArePending, Pending
<1>2. \A k \in Key : log[k].status \in {"sent", "failed", "cancelled"} => log'[k] = log[k]
  BY <1>0, <1>1, ApplyMarksRow
<1>3. \A k \in Key : log'[k].status = "sent" => log[k].status = "sent" \/ mark[r][k] = "sent"
  BY <1>0, ApplyMarksRow DEF Mark
<1>4. \A k \in Key : mark[r][k] = "sent" => log'[k].status = "sent"
  BY <1>0, ApplyMarksRow
<1>5. \A k \in Key : Recorded(k) => Recorded(k)'
  BY <1>0, <1>2, <1>4 DEF Recorded
<1>6. \A k \in Key : Owing(k)' \subseteq Owing(k)
  BY <1>0 DEF Owing
<1>. QED  BY <1>0, <1>2, <1>3, <1>5, <1>6 DEF NoMarks

\* Every step of a scheduler keeps the account of the mail.
LEMMA MailScheduler ==
    ASSUME TypeOK, TypeOK', ScheduleInv, DispatchInv, MailInv,
           NEW r \in Replicas, Work(r) \/ Fault(r)
    PROVE  MailInv'
<1>1. CASE BeginDispatch(r)
  <2>1. /\ UNCHANGED <<log, conf, conn, mark, mails, faults>>
        /\ \A q \in Replicas \ {r} : todo'[q] = todo[q]
        /\ conn[r] = "ok"
    BY <1>1 DEF BeginDispatch, dbVars, TypeOK, DispatchInv, TxShape
  <2>. QED  BY <2>1, MailQuiet DEF Owing, Recorded
<1>2. ASSUME NEW k \in Key, SendOk(r, k) PROVE MailInv'
  <2>1. /\ NextRow(r, k) /\ SetMark(r, k, "sent") /\ "sent" \in Mark
        /\ UNCHANGED <<dbVars, conn, faults>> /\ mails' = [mails EXCEPT ![k] = @ + 1]
    BY <1>2 DEF SendOk, Mark
  <2>2. /\ \A j \in Key : Owing(j)' \subseteq Owing(j)
        /\ \A j \in Key : Recorded(j) => Recorded(j)'
        /\ \A q \in Replicas, j \in Key :
              mark'[q][j] = "sent" => mark[q][j] = "sent" \/ j = k
        /\ log' = log
    BY <2>1, RowTaken
  <2>3. \/ ~Recorded(k) /\ Recorded(k)'
        \/ \E q \in Owing(k) : q \notin Owing(k)'
    BY <2>1, RowTaken
  <2>. QED  BY <2>1, <2>2, <2>3, MailLeaves
<1>3. ASSUME NEW k \in Key, SendError(r, k) PROVE MailInv'
  <2>1. /\ NextRow(r, k) /\ SetMark(r, k, FailureMark(k))
        /\ FailureMark(k) \in Mark /\ FailureMark(k) # "sent"
        /\ UNCHANGED <<dbVars, conn, mails, faults>>
    BY <1>3, FailureMarkBudget DEF SendError
  <2>. QED  BY <2>1, RowTaken, MailQuiet
<1>4. ASSUME NEW k \in Key, SendUnacknowledged(r, k) PROVE MailInv'
  <2>1. /\ NextRow(r, k) /\ SetMark(r, k, FailureMark(k))
        /\ FailureMark(k) \in Mark /\ FailureMark(k) # "sent"
        /\ UNCHANGED <<dbVars, conn>> /\ mails' = [mails EXCEPT ![k] = @ + 1]
        /\ faults' = faults + 1
    BY <1>4, FailureMarkBudget DEF SendUnacknowledged
  <2>2. /\ \A j \in Key : Owing(j)' \subseteq Owing(j)
        /\ \A j \in Key : Recorded(j) => Recorded(j)'
        /\ \A q \in Replicas, j \in Key :
              mark'[q][j] = "sent" => mark[q][j] = "sent" \/ j = k
        /\ log' = log
    BY <2>1, RowTaken
  <2>. QED  BY <2>1, <2>2, MailLeaves
<1>5. ASSUME NEW k \in Key, RenderError(r, k) PROVE MailInv'
  <2>1. /\ UNCHANGED <<log, conf, conn, mark, mails>> /\ faults' = faults + 1
        /\ \A q \in Replicas : todo'[q] \subseteq todo[q]
    BY <1>5 DEF RenderError, NextRow, dbVars, TypeOK
  <2>. QED  BY <2>1, MailQuiet DEF Owing, Recorded
<1>6. CASE CommitDispatch(r)
  <2>1. mails' = mails /\ faults' = faults
    BY <1>6 DEF CommitDispatch
  <2>. QED  BY <1>6, <2>1, CommitRecords, MailQuiet
<1>7. CASE SweepArchive(r)
  <2>1. UNCHANGED <<conn, todo, mark, mails, faults>>
    BY <1>7 DEF SweepArchive
  <2>2. \A k \in Key : log'[k].status = "sent" <=> log[k].status = "sent"
    BY <1>7 DEF SweepArchive, CancelPending, Pending, TypeOK, Row
  <2>3. \A k \in Key : conf[k.conf].state = "deleted" => conf'[k.conf].state = "deleted"
    BY <1>7 DEF SweepArchive, Expired, TypeOK, Key
  <2>. QED  BY <2>1, <2>2, <2>3, MailQuiet DEF Owing, Recorded
<1>8. CASE SkipSweep(r) \/ SweepFails(r)
  <2>1. /\ UNCHANGED <<log, conf, conn, todo, mark, mails>>
        /\ faults' = faults \/ faults' = faults + 1
    BY <1>8 DEF SkipSweep, SweepFails, dbVars
  <2>. QED  BY <2>1, MailQuiet DEF Owing, Recorded
<1>9. ASSUME NEW how \in {"aborted", "lost"}, TxBreaks(r, how) PROVE MailInv'
  BY <1>9, MailBreaks
<1>10. CASE Crash(r)
  <2>1. /\ UNCHANGED <<log, conf, mails>> /\ faults' = faults + 1
        /\ \A q \in Replicas : todo'[q] = IF q = r THEN {} ELSE todo[q]
        /\ \A q \in Replicas : conn'[q] = IF q = r THEN "ok" ELSE conn[q]
        /\ \A q \in Replicas : mark'[q] = IF q = r THEN NoMarks ELSE mark[q]
    BY <1>10 DEF Crash, dbVars, TypeOK
  <2>2. \A q \in Replicas, k \in Key : mark'[q][k] = "sent" => mark[q][k] = "sent"
    BY <2>1 DEF NoMarks
  <2>3. \A k \in Key : Owing(k)' \subseteq Owing(k)
    BY <2>1 DEF Owing
  <2>. QED  BY <2>1, <2>2, <2>3, MailQuiet
<1>. QED  BY <1>1, <1>2, <1>3, <1>4, <1>5, <1>6, <1>7, <1>8, <1>9, <1>10 DEF Work, Fault

\* The whole inductive invariant of the reminder system.
LEMMA MailAlways == Spec => [](TypeOK /\ ScheduleInv /\ DispatchInv /\ MailInv)
<1>1. TypeOK /\ TypeOK' /\ ScheduleInv /\ DispatchInv /\ MailInv /\ [Next]_vars => MailInv'
  <2>. SUFFICES ASSUME TypeOK, TypeOK', ScheduleInv, DispatchInv, MailInv, [Next]_vars
                PROVE  MailInv'
    OBVIOUS
  <2>1. CASE Request
    <3>1. UNCHANGED <<conn, todo, mark, mails, faults>>
      BY <2>1, RequestFrame DEF txVars
    <3>2. \A k \in Key : /\ Recorded(k) => Recorded(k)'
                         /\ log'[k].status = "sent" => log[k].status = "sent"
      BY <2>1, <3>1, RequestHistory DEF Recorded
    <3>3. \A k \in Key : Owing(k)' = Owing(k)
      BY <3>1 DEF Owing
    <3>. QED  BY <3>1, <3>2, <3>3, MailQuiet
  <2>2. CASE Advance \/ UNCHANGED vars
    <3>1. UNCHANGED <<log, conf, conn, todo, mark, mails, faults>>
      BY <2>2 DEF Advance, vars, dbVars, txVars
    <3>. QED  BY <3>1, MailQuiet DEF Owing, Recorded
  <2>3. ASSUME NEW r \in Replicas, Work(r) \/ Fault(r) PROVE MailInv'
    BY <2>3, MailScheduler
  <2>. QED  BY <2>1, <2>2, <2>3 DEF Next
<1>. QED  BY DispatchAlways, MailInit, <1>1, PTL DEF Spec

\* In every behaviour, with any number of replicas, requests and faults in any
\* order, the relay accepts no more copies of a reminder than one plus the
\* number of faults; without a fault, FR-15 holds.
THEOREM DuplicateNeedsFaultAlways == Spec => []DuplicateNeedsFault
<1>1. TypeOK /\ MailInv => DuplicateNeedsFault
  <2>. SUFFICES ASSUME TypeOK, MailInv, NEW k \in Key PROVE mails[k] <= 1 + faults
    BY DEF DuplicateNeedsFault
  <2>1. Owing(k) \in SUBSET Replicas
    BY DEF Owing
  <2>2. Cardinality(Owing(k)) \in Nat /\ mails[k] \in Nat /\ faults \in Nat
    BY <2>1, ReplicaSets, BoundAssumption DEF TypeOK
  <2>3. mails[k] + Cardinality(Owing(k)) <= faults + (IF Recorded(k) THEN 1 ELSE 0)
    BY DEF MailInv, MailIsPaidFor
  <2>. QED  BY <2>2, <2>3
<1>. QED  BY MailAlways, <1>1, PTL

\* In every behaviour a reminder the table calls sent was accepted by the relay.
THEOREM SentMeansMailedAlways == Spec => []SentMeansMailed
BY MailAlways, PTL DEF MailInv

-----------------------------------------------------------------------------
(* Action properties.                                                      *)

\* In every behaviour sent, failed and cancelled rows never change and leave
\* the table only with their conference.
THEOREM HistoryIsFinalAlways == Spec => HistoryIsFinal
<1>. DEFINE Keeps == \A k \in Key :
        log[k].status \in {"sent", "failed", "cancelled"} =>
            log'[k] = log[k] \/ conf'[k.conf].state = "deleted"
<1>1. TypeOK /\ DispatchInv /\ [Next]_vars => [Keeps]_vars
  <2>. SUFFICES ASSUME TypeOK, DispatchInv, Next PROVE Keeps
    OBVIOUS
  <2>1. CASE Request
    BY <2>1, RequestHistory
  <2>2. CASE Advance
    BY <2>2 DEF Advance, dbVars
  <2>3. ASSUME NEW r \in Replicas, CommitDispatch(r) PROVE Keeps
    BY <2>3, CommitRecords
  <2>4. ASSUME NEW r \in Replicas, SweepArchive(r) PROVE Keeps
    <3>1. \A k \in Key : ~Pending(log, k) => log'[k] = log[k]
      BY <2>4, CancelRow DEF SweepArchive, TypeOK
    <3>. QED  BY <3>1 DEF Pending
  <2>5. ASSUME NEW r \in Replicas, Work(r) \/ Fault(r),
               ~CommitDispatch(r), ~SweepArchive(r)
        PROVE  log' = log
    BY <2>5 DEF Work, Fault, BeginDispatch, SendOk, SendError, SkipSweep, dbVars,
                SendUnacknowledged, RenderError, TxBreaks, SweepFails, Crash
  <2>. QED  BY <2>1, <2>2, <2>3, <2>4, <2>5 DEF Next
<1>. QED  BY DispatchAlways, <1>1, PTL DEF HistoryIsFinal, Spec

\* In every behaviour a dispatcher that still has its connection mails a
\* reminder only to a user who stars the conference at that moment, and not
\* before the time the current deadline and settings give.
THEOREM MailIsCurrentAlways == Spec => MailIsCurrent
<1>. DEFINE Current == \A k \in Key : mails'[k] # mails[k] =>
            \/ \E r \in Replicas : conn[r] = "lost"
            \/ /\ <<k.user, k.conf>> \in stars
               /\ SendAt(k, conf, settings) <= now
<1>1. TypeOK /\ ScheduleInv /\ DispatchInv /\ [Next]_vars => [Current]_vars
  <2>. SUFFICES ASSUME TypeOK, ScheduleInv, DispatchInv, Next PROVE Current
    OBVIOUS
  <2>1. CASE Request \/ Advance
    BY <2>1, RequestFrame DEF Advance
  <2>2. ASSUME NEW r \in Replicas, NEW k \in Key,
               SendOk(r, k) \/ SendUnacknowledged(r, k)
        PROVE  Current
    <3>1. k \in todo[r] /\ mails' = [mails EXCEPT ![k] = @ + 1]
      BY <2>2 DEF SendOk, SendUnacknowledged, NextRow
    <3>2. \A j \in Key : mails'[j] # mails[j] => j = k
      BY <3>1 DEF TypeOK
    <3>3. k \in batch[r]
      BY <3>1 DEF DispatchInv, TxShape
    <3>4. conn[r] # "lost" =>
            /\ <<k.user, k.conf>> \in stars
            /\ log[k].at = SendAt(k, conf, settings) /\ log[k].at <= now
      BY <3>3 DEF DispatchInv, HeldRowsArePending, HeldRowsAreDue, Locked,
                  ScheduleInv, NoStrayReminder
    <3>. QED  BY <3>2, <3>4
  <2>3. ASSUME NEW r \in Replicas, Work(r) \/ Fault(r),
               ~(\E k \in Key : SendOk(r, k) \/ SendUnacknowledged(r, k))
        PROVE  mails' = mails
    BY <2>3 DEF Work, Fault, BeginDispatch, SendError, SkipSweep, CommitDispatch,
                SweepArchive, RenderError, TxBreaks, SweepFails, Crash
  <2>. QED  BY <2>1, <2>2, <2>3 DEF Next
<1>. QED  BY DispatchAlways, <1>1, PTL DEF MailIsCurrent, Spec
=============================================================================
