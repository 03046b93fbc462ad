---------------------------- MODULE MCReminders -----------------------------
(***************************************************************************)
(* Instances of Reminders for TLC.  The instants are chosen around the     *)
(* send times that the deadlines, lead times and timezones give.           *)
(***************************************************************************)
EXTENDS Reminders, TLC

\* A zone whose day differs from the UTC day at the deadlines of a run.
MCUTC == {0}
MCOffsets == {-9, 0}

\* Users and replicas are interchangeable in the safety runs.
MCSymmetry == Permutations(Users) \cup Permutations(Replicas)
=============================================================================
