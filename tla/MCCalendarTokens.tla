-------------------------- MODULE MCCalendarTokens --------------------------
(***************************************************************************)
(* Three requests for TLC, and a conference that is announced with its     *)
(* dates only or with a deadline that moves by a day.                      *)
(***************************************************************************)
EXTENDS CalendarTokens

MCListing(deadline) ==
    [name |-> "ICSE", start |-> 200, end |-> 203,
     on |-> [k \in Deadlines |-> IF k = "submission" THEN deadline ELSE Unset]]

MCListings == {MCListing(1000), MCListing(1024)}
=============================================================================
