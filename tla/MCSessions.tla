----------------------------- MODULE MCSessions -----------------------------
(***************************************************************************)
(* Two accounts and two logins for TLC.  An account is in the member       *)
(* group, in the admin group only, or in none; the two start out as a      *)
(* member and an admin with an address each.                               *)
(***************************************************************************)
EXTENDS Sessions

MCGroups == {{}, {"chair"}, {"chair-admins"}}

MCAccount(g, e) == [groups |-> {g}, email |-> e]
MCDirectories == {
    [s1 |-> MCAccount("chair", "e1"), s2 |-> MCAccount("chair-admins", "e2")] }
=============================================================================
