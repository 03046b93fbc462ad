------------------------------ MODULE Schedule ------------------------------
(***************************************************************************)
(* The time arithmetic of confero, shared by the modules that schedule     *)
(* mail.  An instant is a whole number of hours since a Monday 00:00 UTC;  *)
(* a timezone is its offset from UTC in hours (a zone without daylight     *)
(* saving).  A calendar day is the integer instant \div 24.                *)
(***************************************************************************)
EXTENDS Integers

HoursPerDay == 24
DaysPerWeek == 7

\* The hour, in the user's own timezone, at which every reminder leaves.
SendHour == 9

\* A NULL timestamptz or date column.
Unset == -1

\* time.Time.In(loc): the calendar day of instant t in timezone tz.
LocalDay(t, tz) == (t + tz) \div HoursPerDay

\* The instant at which the clock of timezone tz shows hour h of day d.
InstantOf(d, h, tz) == d * HoursPerDay + h - tz

\* Mutant: without .In(loc) the day is that of the UTC clock.
ScheduledFor_utcDay(deadline, lead, tz) ==
    InstantOf(LocalDay(deadline, 0) - lead, SendHour, tz)

\* scheduledFor: `lead` days before the deadline's local day, at 09:00 local.
ScheduledFor(deadline, lead, tz) ==
    InstantOf(LocalDay(deadline, tz) - lead, SendHour, tz)

\* CURRENT_DATE of a database running in UTC.
Today(t) == LocalDay(t, 0)

-----------------------------------------------------------------------------
\* The neighbours among a conference's four dates that must be in order.
DeadlineOrder == { <<"abstract", "submission">>,
                   <<"submission", "notification">>,
                   <<"notification", "camera_ready">> }

\* validateInput and the table's CHECK: a pair is compared only when both of
\* its dates are set.
ValidDeadlines(d) ==
    \A p \in DeadlineOrder :
        (/\ p[1] \in DOMAIN d /\ p[2] \in DOMAIN d
         /\ d[p[1]] # Unset /\ d[p[2]] # Unset) => d[p[1]] <= d[p[2]]
=============================================================================
