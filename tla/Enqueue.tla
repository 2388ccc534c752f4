------------------------------- MODULE Enqueue -------------------------------
(***************************************************************************)
(* Asking for a transfer (enqueueSync in apps/web/lib/sync-worker.ts): the *)
(* checks that keep a book from being queued twice, and the row they end   *)
(* in.  Each query is a step of its own, and other requests, the worker    *)
(* and the person at the list go on between them.  Rows are written by id, *)
(* whatever they are by then, so a run can go on while its row says that   *)
(* it was canceled or is queued, or is gone: slot has the runs themselves. *)
(*                                                                         *)
(* The checks on servers, libraries and folders that come first only       *)
(* reject; they are left out.  The receiving server is part of an item.    *)
(***************************************************************************)
EXTENDS Integers, FiniteSets, FiniteSetsExt

CONSTANTS
    Items,       \* sourceServerId, sourceItemId and targetServerId of a transfer
    WorkOf,      \* its target, normalised title and author, or NoTitle
    NoTitle,     \* the title normalises to nothing
    GroupOf,     \* what the list groups transfers by, the same for every target
    Requests,    \* bound: calls of enqueueSync under way at once
    MaxRows,     \* bound: rows ever created; row j is the j-th by createdAt
    Slots,       \* bound: transfers under way at once
    MaxLate,     \* bound: writes to a row that come late
    None         \* no row, no item

Rows == 1..MaxRows

ASSUME EnqueueAssumption ==
    /\ WorkOf \in [Items -> {WorkOf[i] : i \in Items}]
    /\ IsFiniteSet(Requests)
    /\ IsFiniteSet(Slots) /\ Slots \cap Rows = {}
    /\ None \notin Rows
    /\ MaxRows \in Nat
    /\ MaxLate \in Nat

VARIABLES
    status,     \* SyncJob.status; "absent" before the row is created
    item,       \* SyncJob.sourceServerId, sourceItemId and targetServerId
    spooled,    \* whether SyncJob.spoolPath is set
    slot,       \* the row that each runJob under way transfers
    request,    \* each call: where it is, what it asks for, what it has read
    clearing,   \* the rows that clearFinishedJobs has read and will delete
    shown,      \* the rows that a list rendered so far offers to retry
    late,       \* writes that took a row from its run, and retries of what the list
                \* would not offer any more or that meet a call under way
    peak        \* history: the most calls that were ever under way at once

vars == <<status, item, spooled, slot, shown, clearing, request, late, peak>>

Live == {"queued", "running", "completed"}
Stopped == {"failed", "canceled"}
Statuses == {"absent", "deleted"} \cup Live \cup Stopped
RequestPcs == {"idle", "sameItem", "sameWork", "stopped", "revive", "create"}

IdleRequest == [pc |-> "idle", item |-> None, previous |-> None]

TypeOK ==
    /\ status \in [Rows -> Statuses]
    /\ item \in [Rows -> Items \cup {None}]
    /\ spooled \in [Rows -> BOOLEAN]
    /\ slot \in [Slots -> Rows \cup {None}]
    /\ request \in [Requests -> [pc : RequestPcs, item : Items \cup {None},
                                 previous : Rows \cup {None}]]
    /\ clearing \in SUBSET Rows
    /\ shown \in SUBSET Rows
    /\ late \in 0..MaxLate
    /\ peak \in 0..Cardinality(Requests)

Init ==
    /\ status = [j \in Rows |-> "absent"]
    /\ item = [j \in Rows |-> None]
    /\ spooled = [j \in Rows |-> FALSE]
    /\ slot = [s \in Slots |-> None]
    /\ request = [q \in Requests |-> IdleRequest]
    /\ clearing = {}
    /\ shown = {}
    /\ late = 0
    /\ peak = 0

rows == <<status, item, spooled, slot, shown, clearing, late>>
UnderWay == {q \in Requests : request[q].pc # "idle"}
Listed == {j \in Rows : status[j] \notin {"absent", "deleted"}}
OfItem(i) == {j \in Rows : item[j] = i}
LiveOfItem(i) == {j \in OfItem(i) : status[j] \in Live}
LiveOfWork(w) == {j \in Rows : status[j] \in Live /\ WorkOf[item[j]] = w}

\* A write by id, whatever the row is by now; nothing happens if it is gone.  If it finds
\* a run's row, that run goes on without one, and the write counts as late.
Taken(written) ==
    LET running == {j \in written : status[j] = "running"} IN
    /\ late + Cardinality(running) <= MaxLate
    /\ late' = late + Cardinality(running)

Overwrite(j, new) ==
    status' = IF j \in Listed THEN [status EXCEPT ![j] = new] ELSE status

Goto(q, pc) == request' = [request EXCEPT ![q].pc = pc]
Answer(q) == request' = [request EXCEPT ![q] = IdleRequest]

Ask(q, i) ==
    /\ request[q].pc = "idle"
    /\ request' = [request EXCEPT ![q] = [IdleRequest EXCEPT !.pc = "sameItem", !.item = i]]
    /\ peak' = Max({peak, Cardinality(UnderWay) + 1})
    /\ UNCHANGED rows

\* The item is queued, being transferred or transferred already.
FindSameItem(q) ==
    LET i == request[q].item IN
    /\ request[q].pc = "sameItem"
    /\ \/ LiveOfItem(i) # {} /\ Answer(q)
       \/ LiveOfItem(i) = {} /\ Goto(q, IF WorkOf[i] = NoTitle THEN "stopped" ELSE "sameWork")
    /\ UNCHANGED <<rows, peak>>

\* So is another server's copy of the same work.  (Variant: the answer is for this
\* source server only.)
FindSameWorkHere(q) ==
    /\ request[q].pc = "sameWork"
    /\ Goto(q, "stopped")
    /\ UNCHANGED <<rows, peak>>

FindSameWork(q) ==
    LET same == LiveOfWork(WorkOf[request[q].item]) IN
    /\ request[q].pc = "sameWork"
    /\ \/ same # {} /\ Answer(q)
       \/ same = {} /\ Goto(q, "stopped")
    /\ UNCHANGED <<rows, peak>>

\* The attempt to revive: the newest with a spool, or else the newest.
Previous(stopped) ==
    LET held == {j \in stopped : spooled[j]}
        preferred == IF held = {} THEN stopped ELSE held
    IN  CHOOSE j \in preferred : \A k \in preferred : k <= j

Revivable == {"failed", "canceled"}

FindStopped(q) ==
    LET stopped == {j \in OfItem(request[q].item) : status[j] \in Revivable} IN
    /\ request[q].pc = "stopped"
    /\ \/ /\ stopped = {}
          /\ Goto(q, "create")
       \/ /\ stopped # {}
          /\ request' = [request EXCEPT ![q].pc = "revive",
                                        ![q].previous = Previous(stopped)]
    /\ UNCHANGED <<rows, peak>>

\* Written by id; an error if the row is gone.  (Variant: the phase is written over the
\* status.)
RevivePhase(q) ==
    LET j == request[q].previous IN
    /\ request[q].pc = "revive"
    /\ Overwrite(j, "pending") /\ Taken({j})
    /\ Answer(q)
    /\ UNCHANGED <<item, spooled, slot, shown, clearing, peak>>

Revive(q) ==
    LET j == request[q].previous IN
    /\ request[q].pc = "revive"
    /\ Overwrite(j, "queued") /\ Taken({j})
    /\ Answer(q)
    /\ UNCHANGED <<item, spooled, slot, shown, clearing, peak>>

Create(q, j) ==
    /\ request[q].pc = "create"
    /\ status[j] = "absent"
    /\ \A k \in Rows : k < j => status[k] # "absent"
    /\ status' = [status EXCEPT ![j] = "queued"]
    /\ item' = [item EXCEPT ![j] = request[q].item]
    /\ Answer(q)
    /\ UNCHANGED <<spooled, slot, shown, clearing, late, peak>>

RequestStep(q) ==
    \/ FindSameItem(q) \/ FindSameWork(q) \/ FindStopped(q) \/ Revive(q)
    \/ \E j \in Rows : Create(q, j)

-----------------------------------------------------------------------------
(***************************************************************************)
(* What happens to a row meanwhile: the worker claims it, the run records  *)
(* its download and how the attempt ended, and somebody cancels it; below, *)
(* somebody retries or clears, and a sweep evicts a spool.  SyncWorker.tla *)
(* has the steps of a run and of a restart; here a run has three.          *)
(***************************************************************************)
others == <<item, shown, clearing, request, peak>>

Claim(j, s) ==
    /\ status[j] = "queued" /\ slot[s] = None
    /\ status' = [status EXCEPT ![j] = "running"]
    /\ slot' = [slot EXCEPT ![s] = j]
    /\ UNCHANGED <<others, spooled, late>>

\* The run writes by id whatever others wrote meanwhile; it never looks at the row.
Download(s) ==
    LET j == slot[s] IN
    /\ j # None /\ j \in Listed
    /\ spooled' = [spooled EXCEPT ![j] = TRUE]
    /\ UNCHANGED <<others, status, slot, late>>

End(s, outcome) ==
    LET j == slot[s] IN
    /\ j # None
    /\ slot' = [slot EXCEPT ![s] = None]
    /\ Overwrite(j, outcome)
    /\ spooled' = IF j \in Listed THEN [spooled EXCEPT ![j] = outcome \in {"queued", "failed"}]
                                  ELSE spooled
    /\ UNCHANGED <<others, late>>

\* cancelJob has read the row while it was queued, as every row once was.
Cancel(j) ==
    /\ j \in Listed
    /\ Overwrite(j, "canceled") /\ Taken({j})
    /\ UNCHANGED <<others, spooled, slot>>

-----------------------------------------------------------------------------
(***************************************************************************)
(* The list of transfers (apps/web/app/jobs, lib/job-groups.ts).           *)
(***************************************************************************)
Rank(s) == CASE s = "running" -> 0 [] s = "queued" -> 1 [] s = "completed" -> 2
             [] s = "failed" -> 3 [] s = "canceled" -> 4

\* groupJobs: the attempts at one work, and the one that stands for them.
Attempts(j) == {k \in Listed : GroupOf[item[k]] = GroupOf[item[j]]}

Foremost(attempts) ==
    CHOOSE j \in attempts : \A k \in attempts :
        \/ Rank(status[j]) < Rank(status[k])
        \/ status[j] = status[k] /\ k <= j

\* retryTargetOf.
RetryTarget(attempts) ==
    LET holding == {k \in attempts : spooled[k]} IN
    IF spooled[Foremost(attempts)] \/ holding = {} THEN Foremost(attempts) ELSE Foremost(holding)

\* Retry is offered for a group of which nothing is queued, running or completed.
Offered ==
    {RetryTarget(Attempts(j)) : j \in {k \in Listed : status[Foremost(Attempts(k))] \in Stopped}}

Render ==
    /\ shown' = shown \cup Offered
    /\ UNCHANGED <<status, item, spooled, slot, clearing, request, late, peak>>

\* retryJob reads the row, which has stopped by then, and not the others; and writes it.
Retry(j) ==
    /\ j \in shown \cap Listed
    /\ \/ j \in Offered /\ UnderWay = {} /\ UNCHANGED late
       \/ ~(j \in Offered /\ UnderWay = {}) /\ late < MaxLate /\ late' = late + 1
    /\ Overwrite(j, "queued")
    /\ UNCHANGED <<others, spooled, slot>>

\* clearFinishedJobs leaves what the worker's map holds, which may be any of them.
ReadFinished ==
    /\ clearing = {}
    /\ clearing' \in SUBSET {j \in Rows : status[j] \in Stopped \cup {"completed"}}
    /\ UNCHANGED <<status, item, spooled, slot, shown, request, late, peak>>

DeleteFinished ==
    /\ clearing # {} /\ clearing' = {}
    /\ Taken(clearing)
    /\ status' = [j \in Rows |-> IF j \in clearing \cap Listed THEN "deleted" ELSE status[j]]
    /\ UNCHANGED <<item, spooled, slot, shown, request, peak>>

Clear == ReadFinished \/ DeleteFinished

\* The sweep has read it as failed.
Evict(j) ==
    /\ j \in Listed /\ spooled[j]
    /\ spooled' = [spooled EXCEPT ![j] = FALSE]
    /\ UNCHANGED <<others, status, slot, late>>

RowStep(j) ==
    \/ Cancel(j)
    \/ \E s \in Slots : Claim(j, s)

RunStep(s) ==
    \/ Download(s)
    \/ \E outcome \in {"completed", "queued", "failed", "canceled"} : End(s, outcome)

Next ==
    \/ \E q \in Requests, i \in Items : Ask(q, i)
    \/ \E q \in Requests : RequestStep(q)
    \/ \E j \in Rows : RowStep(j) \/ Retry(j) \/ Evict(j)
    \/ \E s \in Slots : RunStep(s)
    \/ Clear \/ Render

Spec == Init /\ [][Next]_vars
-----------------------------------------------------------------------------
\* Every copy of the work is in one group.  Two are not when their author normalises to
\* nothing and they write it differently: identityOf then falls back on what they write,
\* where enqueueSync takes them for the same.
Together(w) ==
    \A i, k \in Items : WorkOf[i] = w /\ WorkOf[k] = w => GroupOf[i] = GroupOf[k]
WorksTogether == {w \in {WorkOf[i] : i \in Items} \ {NoTitle} : Together(w)}

\* What is queued or transferred by what the rows say, and what is being transferred,
\* whatever its row says.
Transfers(ofThem) ==
    {j \in ofThem : status[j] \in {"queued", "completed"}} \cup {s \in Slots : slot[s] \in ofThem}
OfWork(w) == {j \in Rows : status[j] # "absent" /\ WorkOf[item[j]] = w}

\* A work is queued, being transferred or transferred once: asking again, for the same
\* copy or for another server's, adds nothing; and asking for an item again revives its
\* row, the list has one for each.  Only what races costs more: at most one surplus
\* transfer for each further call under way at once, for each write that takes a row from
\* its run, and for each retry from an outdated list or while a call is under way.
SurplusBounded ==
    /\ \A w \in WorksTogether : Cardinality(Transfers(OfWork(w))) <= peak + late
    /\ \A i \in Items : /\ Cardinality(Transfers(OfItem(i))) <= peak + late
                        /\ Cardinality(OfItem(i) \cap Listed) <= peak + late
=============================================================================
