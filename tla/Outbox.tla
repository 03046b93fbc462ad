------------------------------- MODULE Outbox -------------------------------
(***************************************************************************)
(* What the two mail workers of the scheduler promise, without replicas,   *)
(* transactions, locks or batches.                                         *)
(*                                                                         *)
(* A ledger has one row per message.  Rows are planned, and the owner may  *)
(* take a waiting one back; a message goes to the relay at most once, and  *)
(* once more for every lapse; the ledger is honest about it: a row says    *)
(* sent only if the relay has the message, and any other verdict, another  *)
(* try included, is given only if every copy out there is owed to a lapse. *)
(* A verdict is final, and a message fails only at the end of its tries.   *)
(***************************************************************************)
EXTENDS Naturals

CONSTANTS
    Key,            \* one per message
    Revocable,      \* messages whose rows requests may plan anew or erase
    MaxAttempts

VARIABLES
    row,            \* the ledger
    mails,          \* copies the relay has accepted
    lapses          \* crashes, broken transactions and unheard answers

Verdicts == {"sent", "failed", "dropped"}
NoRow == [status |-> "none", tries |-> 0]
Planned == [status |-> "pending", tries |-> 0]

Init ==
    /\ row = [k \in Key |-> NoRow]
    /\ mails = [k \in Key |-> 0]
    /\ lapses = 0

\* Every copy the relay has is owed to a lapse.
Excused(k) == mails[k] <= lapses

\* Row k stays, or is planned for the first time, or its owner plans it anew,
\* drops it or takes it back while it waits.
Replan(k) ==
    \/ row'[k] = row[k]
    \/ row[k] = NoRow /\ row'[k] = Planned
    \/ /\ k \in Revocable /\ row[k].status = "pending"
       /\ \/ row'[k] \in {Planned, NoRow}
          \/ Excused(k) /\ row'[k] = [row[k] EXCEPT !.status = "dropped"]

Plan == (\A k \in Key : Replan(k)) /\ UNCHANGED <<mails, lapses>>

\* The owner's data is deleted, history included.
Erase ==
    /\ \A k \in Key : row'[k] = row[k] \/ (k \in Revocable /\ row'[k] = NoRow)
    /\ UNCHANGED <<mails, lapses>>

\* Row k stays, or a worker records what came of it.
Record(k) ==
    LET last == row[k].tries + 1 >= MaxAttempts IN
    \/ row'[k] = row[k]
    \/ /\ row[k].status = "pending"
       /\ \/ mails[k] > 0 /\ row'[k] = [row[k] EXCEPT !.status = "sent"]
          \/ Excused(k) /\ last /\ row'[k] = [row[k] EXCEPT !.status = "failed"]
          \/ Excused(k) /\ row'[k] = [row[k] EXCEPT !.status = "dropped"]
          \/ Excused(k) /\ ~last /\ row'[k] = [row[k] EXCEPT !.tries = @ + 1]

Settle == (\A k \in Key : Record(k)) /\ UNCHANGED <<mails, lapses>>

Lapse == lapses' = lapses + 1 /\ UNCHANGED <<row, mails>>

\* A copy goes out, perhaps with a lapse of its own.  A message given up may
\* still leave, but that copy is owed to a lapse as well.
Mail(k) ==
    /\ Excused(k)
    /\ row[k].status \in {"failed", "dropped"} => mails[k] < lapses
    /\ mails' = [mails EXCEPT ![k] = @ + 1]
    /\ lapses' \in {lapses, lapses + 1}
    /\ UNCHANGED row

Next == Plan \/ Erase \/ Settle \/ Lapse \/ \E k \in Key : Mail(k)

vars == <<row, mails, lapses>>
Spec == Init /\ [][Next]_vars
=============================================================================
