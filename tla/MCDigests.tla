------------------------------ MODULE MCDigests -----------------------------
(***************************************************************************)
(* Instances of Digests for TLC.  The clock shows Sunday 08:00 and 20:00   *)
(* UTC of the first week and Monday 08:00 of the next; the second instant  *)
(* is Monday 08:00 for a user twelve hours ahead.                          *)
(***************************************************************************)
EXTENDS Digests, TLC

MCUTC == {0}
MCOffsets == {0, 12}
MCSymmetry == Permutations(Users) \cup Permutations(Replicas)
=============================================================================
