--------------------------- MODULE MCReminderRaces --------------------------
(***************************************************************************)
(* Three requests, two deadlines and two settings for TLC.                 *)
(***************************************************************************)
EXTENDS ReminderRaces, TLC

MCSymmetry == Permutations(Requests) \cup Permutations(Dates) \cup Permutations(Zones)
=============================================================================
