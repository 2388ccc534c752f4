----------------------------- MODULE JobLifecycle -----------------------------
(***************************************************************************)
(* What a person may expect of the transfers they asked for, without the   *)
(* worker, its slots, its spool or its restarts: a transfer is pending     *)
(* until it has an outcome, a book is only stored for a transfer that is   *)
(* pending, and completed means stored.  A late request, one that queues   *)
(* the row of a transfer already going on or done, ends these promises.    *)
(***************************************************************************)
EXTENDS Integers

CONSTANTS
    Jobs,       \* the transfers that may be asked for
    MaxCopies   \* bound: copies of one book are counted up to here

VARIABLES
    phase,      \* absent, pending, an outcome, deleted from the list, or overtaken
    copies      \* copies of each book the receiving server has stored

Init ==
    /\ phase = [j \in Jobs |-> "absent"]
    /\ copies = [j \in Jobs |-> 0]

Move(j, from, to) ==
    /\ phase[j] \in from
    /\ phase' = [phase EXCEPT ![j] = to]
    /\ UNCHANGED copies

Ask(j) == Move(j, {"absent"}, "pending")
AskAgain(j) == Move(j, {"failed", "canceled"}, "pending")
Complete(j) == copies[j] > 0 /\ Move(j, {"pending"}, "completed")
GiveUp(j) == Move(j, {"pending"}, "failed")
AskLate(j) == Move(j, {"pending", "completed"}, "overtaken")

\* The row may be deleted under a transfer: a clear goes by what it has read.
Store(j) ==
    /\ phase[j] \in {"pending", "deleted", "overtaken"}
    /\ copies[j] < MaxCopies
    /\ copies' = [copies EXCEPT ![j] = @ + 1]
    /\ UNCHANGED phase

Clear(cleared) ==
    /\ \A j \in cleared : phase[j] # "absent"
    /\ phase' = [j \in Jobs |-> IF j \in cleared THEN "deleted" ELSE phase[j]]
    /\ UNCHANGED copies

Next ==
    \/ \E j \in Jobs : Ask(j) \/ AskAgain(j) \/ AskLate(j)
    \/ \E j \in Jobs : Complete(j) \/ GiveUp(j) \/ Store(j)
    \/ \E cleared \in SUBSET Jobs : Clear(cleared)

Spec == Init /\ [][Next]_<<phase, copies>>
=============================================================================
