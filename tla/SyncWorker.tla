----------------------------- MODULE SyncWorker -----------------------------
(***************************************************************************)
(* The transfer queue and its worker (apps/web/lib/sync-worker.ts).        *)
(*                                                                         *)
(* One Node process runs everything, so a step is the code between two     *)
(* awaits: a handler that reads a row, awaits and then writes it back is   *)
(* two steps, and whatever else the process is doing may come between.     *)
(* The rows (status, attempts, spoolPath), the spool directories (disk)    *)
(* and the books on the receiving server (copies) survive a crash; the     *)
(* worker's map of running transfers (active), the transfers themselves    *)
(* (run), the polling pass (tick) and the request handlers (call) do not.  *)
(***************************************************************************)
EXTENDS Integers, FiniteSets

CONSTANTS
    NumJobs,        \* bound: rows ever created; row j is the j-th by createdAt
    Runs,           \* bound: simultaneous invocations of runJob
    Callers,        \* bound: simultaneous request handlers
    Ops,            \* the handlers in use, a subset of AllOps
    MaxConcurrent,  \* maxConcurrentSyncs
    MaxAttempts,    \* SyncJob.maxAttempts
    FaultKinds,     \* the faults that may strike, a subset of AllFaults
    MaxFaults,      \* bound: faults in one behaviour
    MaxCopies,      \* bound: copies of one book are counted up to here
    MaxLate,        \* bound: late requests for one row
    None            \* no job, no run

AllOps == {"cancel", "retry", "clear"}
AllFaults == {"crash", "lostAnswer", "dbError"}
Jobs == 1..NumJobs

ASSUME BoundsAssumption ==
    /\ NumJobs \in Nat
    /\ MaxConcurrent \in Nat \ {0}
    /\ MaxAttempts \in Nat \ {0}
    /\ MaxFaults \in Nat
    /\ MaxCopies \in Nat
    /\ MaxLate \in Nat
ASSUME NoneAssumption == None \notin Jobs \cup Runs

VARIABLES
    status,     \* SyncJob.status of each row; "absent" before it is created
    attempts,   \* SyncJob.attempts
    spoolPath,  \* whether SyncJob.spoolPath is set
    disk,       \* the spool directory of each job
    copies,     \* copies of each job's book the receiving server has stored
    active,     \* SyncWorker.active: the run whose controller a job maps to
    run,        \* each invocation of runJob: where it is and what it holds
    tick,       \* the tick in progress: where it is and what it has read
    recovered,  \* SyncWorker.recovered
    call,       \* each request handler: where it is and what it has read
    faults,     \* faults so far
    late        \* history: the late requests for each row (see RetryWrite)

rowVars == <<status, attempts, spoolPath>>
vars == <<status, attempts, spoolPath, disk, copies, active, run, tick,
          recovered, call, faults, late>>

Finished == {"completed", "failed", "canceled"}
Statuses == {"absent", "queued", "running", "deleted"} \cup Finished
Verdicts == {"none", "canceled", "queued", "failed"}

\* From the claim being handed over to the outcome being written to the row.
Transferring == {"load", "download", "upload", "answer", "accepted", "caught"}
RunPcs == {"idle", "logging", "settle"} \cup Transferring
TickPcs == {"idle", "recoverRead", "recoverWrite", "sweepList", "sweepQuery",
            "sweepRemove", "evict", "evictMark", "find", "claim", "launch"}
CallPcs == {"idle", "cancel", "retry", "clearFilter", "clearRemove"}

IdleRun == [pc |-> "idle", job |-> None, aborted |-> FALSE,
            attempts |-> 0, verdict |-> "none"]
IdleTick == [pc |-> "idle", job |-> None, attempts |-> 0,
             todo |-> {}, evictable |-> {}]
IdleCall == [pc |-> "idle", job |-> None, saw |-> "absent",
             todo |-> {}, ids |-> {}]

RunRecord == [pc : RunPcs, job : Jobs \cup {None}, aborted : BOOLEAN,
              attempts : Nat, verdict : Verdicts]
TickRecord == [pc : TickPcs, job : Jobs \cup {None}, attempts : Nat,
               todo : SUBSET Jobs, evictable : SUBSET Jobs]
CallRecord == [pc : CallPcs, job : Jobs \cup {None}, saw : Statuses,
               todo : SUBSET Jobs, ids : SUBSET Jobs]

\* The records a run and a handler go through.
StartedRun(job, tries) == [IdleRun EXCEPT !.pc = "load", !.job = job, !.attempts = tries]
RunAt(x, pc) == [x EXCEPT !.pc = pc]
RunCaught(x, verdict) == [x EXCEPT !.pc = "caught", !.verdict = verdict]
RunLogging(x) == [x EXCEPT !.pc = "logging", !.verdict = "none"]
RunAborted(x) == [x EXCEPT !.aborted = TRUE]
SettlingRun(job) == [IdleRun EXCEPT !.pc = "settle", !.job = job]
Reading(pc, job, saw) == [IdleCall EXCEPT !.pc = pc, !.job = job, !.saw = saw]
Clearing(pc, todo, ids) == [IdleCall EXCEPT !.pc = pc, !.todo = todo, !.ids = ids]

\* Every variable is of the shape the database schema and the class declare.
TypeOK ==
    /\ status \in [Jobs -> Statuses]
    /\ attempts \in [Jobs -> Nat]
    /\ spoolPath \in [Jobs -> BOOLEAN]
    /\ disk \in [Jobs -> {"absent", "partial", "full"}]
    /\ copies \in [Jobs -> Nat]
    /\ active \in [Jobs -> Runs \cup {None}]
    /\ run \in [Runs -> RunRecord]
    /\ tick \in TickRecord
    /\ recovered \in BOOLEAN
    /\ call \in [Callers -> CallRecord]
    /\ faults \in Nat
    /\ late \in [Jobs -> Nat]

Init ==
    /\ status = [j \in Jobs |-> "absent"]
    /\ attempts = [j \in Jobs |-> 0]
    /\ spoolPath = [j \in Jobs |-> FALSE]
    /\ disk = [j \in Jobs |-> "absent"]
    /\ copies = [j \in Jobs |-> 0]
    /\ active = [j \in Jobs |-> None]
    /\ run = [r \in Runs |-> IdleRun]
    /\ tick = IdleTick
    /\ recovered = FALSE
    /\ call = [c \in Callers |-> IdleCall]
    /\ faults = 0
    /\ late = [j \in Jobs |-> 0]

HasRow(j) == status[j] \notin {"absent", "deleted"}
ActiveJobs == {j \in Jobs : active[j] # None}
TransferringRuns == {r \in Runs : run[r].pc \in Transferring}

Fault(kind) ==
    /\ kind \in FaultKinds
    /\ faults < MaxFaults
    /\ faults' = faults + 1

-----------------------------------------------------------------------------
(***************************************************************************)
(* Request handlers.  Enqueue creates the row of a book nobody has asked   *)
(* for; the identity checks before it are Enqueue.tla's subject.           *)
(***************************************************************************)
Enqueue(j) ==
    /\ status[j] = "absent"
    /\ \A i \in Jobs : i < j => status[i] # "absent"
    /\ status' = [status EXCEPT ![j] = "queued"]
    /\ UNCHANGED <<attempts, spoolPath, disk, copies, active, run, tick,
                   recovered, call, faults, late>>

CancelRead(c, j) ==
    /\ "cancel" \in Ops
    /\ call[c].pc = "idle"
    /\ status[j] \in {"queued", "running"}
    /\ call' = [call EXCEPT ![c] = Reading("cancel", j, status[j])]
    /\ UNCHANGED <<rowVars, disk, copies, active, run, tick, recovered, faults, late>>

\* SyncWorker.cancel: abort the run the job maps to, if any.  (Variant: the job is
\* taken off the map as well.)
WorkerCancelForgets(j) ==
    /\ run' = [r \in Runs |-> IF r = active[j] THEN RunAborted(run[r]) ELSE run[r]]
    /\ active' = [active EXCEPT ![j] = None]

WorkerCancel(j) ==
    /\ run' = [r \in Runs |-> IF r = active[j] THEN RunAborted(run[r]) ELSE run[r]]
    /\ UNCHANGED active

\* A running job is aborted through `active`; a queued one is overwritten by id,
\* whatever its status is by now.
CancelAct(c) ==
    LET j == call[c].job IN
    /\ call[c].pc = "cancel"
    /\ call' = [call EXCEPT ![c] = IdleCall]
    /\ \/ /\ call[c].saw = "running"
          /\ WorkerCancel(j)
          /\ UNCHANGED status
       \/ /\ call[c].saw = "queued"
          /\ status' = IF HasRow(j) THEN [status EXCEPT ![j] = "canceled"] ELSE status
          /\ UNCHANGED <<run, active>>
    /\ UNCHANGED <<attempts, spoolPath, disk, copies, tick, recovered, faults, late>>

\* retryJob, and enqueueSync asked for a book of which an earlier attempt was stopped,
\* read the stopped row and write it by id: whatever it is by then.
RetryRead(c, j) ==
    /\ "retry" \in Ops
    /\ call[c].pc = "idle"
    /\ status[j] \in {"failed", "canceled"}
    /\ call' = [call EXCEPT ![c] = Reading("retry", j, status[j])]
    /\ UNCHANGED <<rowVars, disk, copies, active, run, tick, recovered, faults, late>>

\* A request is late when another has queued the row since it was read, and a transfer
\* of it is under way or through: `late` counts those.
IsLate(j) == status[j] \in {"running", "completed"}

RetryWrite(c) ==
    LET j == call[c].job IN
    /\ call[c].pc = "retry"
    /\ IsLate(j) => late[j] < MaxLate
    /\ call' = [call EXCEPT ![c] = IdleCall]
    /\ IF HasRow(j)
       THEN /\ status' = [status EXCEPT ![j] = "queued"]
            /\ attempts' = [attempts EXCEPT ![j] = 0]
       ELSE UNCHANGED <<status, attempts>>
    /\ late' = [late EXCEPT ![j] = IF IsLate(j) THEN @ + 1 ELSE @]
    /\ UNCHANGED <<spoolPath, disk, copies, active, run, tick, recovered, faults>>

ClearRead(c) ==
    LET finished == {j \in Jobs : status[j] \in Finished} IN
    /\ "clear" \in Ops
    /\ call[c].pc = "idle"
    /\ finished # {}
    /\ call' = [call EXCEPT ![c] = Clearing("clearFilter", {}, finished)]
    /\ UNCHANGED <<rowVars, disk, copies, active, run, tick, recovered, faults, late>>

ClearFilter(c) ==
    LET removable == call[c].ids \ ActiveJobs IN
    /\ call[c].pc = "clearFilter"
    /\ call' = [call EXCEPT ![c] = Clearing("clearRemove", removable, removable)]
    /\ UNCHANGED <<rowVars, disk, copies, active, run, tick, recovered, faults, late>>

ClearRemove(c, j) ==
    /\ call[c].pc = "clearRemove"
    /\ j \in call[c].todo
    /\ disk' = [disk EXCEPT ![j] = "absent"]
    /\ call' = [call EXCEPT ![c] = Clearing("clearRemove", @.todo \ {j}, @.ids)]
    /\ UNCHANGED <<rowVars, copies, active, run, tick, recovered, faults, late>>

\* deleteMany selects by id alone.
ClearDelete(c) ==
    /\ call[c].pc = "clearRemove"
    /\ call[c].todo = {}
    /\ status' = [j \in Jobs |-> IF j \in call[c].ids THEN "deleted" ELSE status[j]]
    /\ call' = [call EXCEPT ![c] = IdleCall]
    /\ UNCHANGED <<attempts, spoolPath, disk, copies, active, run, tick, recovered, faults, late>>

CallStep(c) == CancelAct(c) \/ RetryWrite(c) \/ ClearFilter(c)
               \/ (\E j \in Jobs : ClearRemove(c, j)) \/ ClearDelete(c)

-----------------------------------------------------------------------------
(***************************************************************************)
(* tick: recover once, sweep when due, then fill the free slots.           *)
(***************************************************************************)
tickOnly == <<rowVars, disk, copies, active, run, recovered, call, faults, late>>

\* `recovered` is set before the first await of recover.  (Variant: boot goes
\* straight to polling.)
TickBootSkipsRecovery ==
    /\ tick.pc = "idle"
    /\ ~recovered
    /\ recovered' = TRUE
    /\ tick' = [IdleTick EXCEPT !.pc = "find"]
    /\ UNCHANGED <<rowVars, disk, copies, active, run, call, faults, late>>

TickBoot ==
    /\ tick.pc = "idle"
    /\ ~recovered
    /\ recovered' = TRUE
    /\ tick' = [IdleTick EXCEPT !.pc = "recoverRead"]
    /\ UNCHANGED <<rowVars, disk, copies, active, run, call, faults, late>>

TickPoll ==
    /\ tick.pc = "idle"
    /\ recovered
    /\ tick' = [IdleTick EXCEPT !.pc = "find"]
    /\ UNCHANGED tickOnly

\* The five minutes since the last sweep are over.
TickSweep ==
    /\ tick.pc = "idle"
    /\ recovered
    /\ tick' = [IdleTick EXCEPT !.pc = "sweepList"]
    /\ UNCHANGED tickOnly

RecoverRead ==
    /\ tick.pc = "recoverRead"
    /\ tick' = [tick EXCEPT !.pc = "recoverWrite",
                            !.todo = {j \in Jobs : status[j] = "running"}]
    /\ UNCHANGED tickOnly

\* Requeues one stranded job; its spool and its attempts are kept.
RecoverWrite(j) ==
    /\ tick.pc = "recoverWrite"
    /\ j \in tick.todo
    /\ HasRow(j)
    /\ status' = [status EXCEPT ![j] = "queued"]
    /\ tick' = [tick EXCEPT !.todo = @ \ {j}]
    /\ UNCHANGED <<attempts, spoolPath, disk, copies, active, run, recovered, call, faults, late>>

RecoverDone ==
    /\ tick.pc = "recoverWrite"
    /\ tick.todo = {}
    /\ tick' = [tick EXCEPT !.pc = "sweepList"]
    /\ UNCHANGED tickOnly

SweepList ==
    LET entries == {j \in Jobs : disk[j] # "absent"} IN
    /\ tick.pc = "sweepList"
    /\ tick' = [tick EXCEPT !.pc = IF entries = {} THEN "find" ELSE "sweepQuery",
                            !.todo = entries]
    /\ UNCHANGED tickOnly

\* The statuses whose spool a sweep keeps.  (Variant: completed ones too.)
RetainableWithCompleted == {"queued", "running", "failed", "completed"}
Retainable == {"queued", "running", "failed"}

\* Splits the entries into those without a retainable row and the retained
\* ones; of the latter only the failed may be evicted.
SweepQuery ==
    LET retainable == {j \in tick.todo : status[j] \in Retainable} IN
    /\ tick.pc = "sweepQuery"
    /\ tick' = [tick EXCEPT !.pc = "sweepRemove",
                            !.todo = @ \ retainable,
                            !.evictable = {j \in retainable : status[j] = "failed"}]
    /\ UNCHANGED tickOnly

\* A transfer in progress keeps its spool whatever its row says.  (Variant: the
\* row alone decides.)
SweepSparesNone(j) == FALSE
SweepSpares(j) == active[j] # None

SweepRemove(j) ==
    /\ tick.pc = "sweepRemove"
    /\ j \in tick.todo
    /\ disk' = [disk EXCEPT ![j] = IF SweepSpares(j) THEN @ ELSE "absent"]
    /\ tick' = [tick EXCEPT !.todo = @ \ {j}]
    /\ UNCHANGED <<rowVars, copies, active, run, recovered, call, faults, late>>

SweepMeasure ==
    /\ tick.pc = "sweepRemove"
    /\ tick.todo = {}
    /\ tick' = [tick EXCEPT !.pc = "evict", !.evictable = @ \ ActiveJobs]
    /\ UNCHANGED tickOnly

\* Sizes are abstracted: any evictable job may be next, and the budget may be
\* met after any number of evictions.
EvictRemove(j) ==
    /\ tick.pc = "evict"
    /\ j \in tick.evictable
    /\ disk' = [disk EXCEPT ![j] = "absent"]
    /\ tick' = [tick EXCEPT !.pc = "evictMark", !.job = j, !.evictable = @ \ {j}]
    /\ UNCHANGED <<rowVars, copies, active, run, recovered, call, faults, late>>

EvictMark ==
    LET j == tick.job IN
    /\ tick.pc = "evictMark"
    /\ spoolPath' = [spoolPath EXCEPT ![j] = IF HasRow(j) THEN FALSE ELSE @]
    /\ tick' = [tick EXCEPT !.pc = "evict", !.job = None]
    /\ UNCHANGED <<status, attempts, disk, copies, active, run, recovered, call, faults, late>>

EvictDone ==
    /\ tick.pc = "evict"
    /\ tick' = [IdleTick EXCEPT !.pc = "find"]
    /\ UNCHANGED tickOnly

SlotFree == Cardinality(ActiveJobs) < MaxConcurrent

\* findFirst: the oldest queued row, as it stands now.
TickFind ==
    LET queued == {j \in Jobs : status[j] = "queued"} IN
    /\ tick.pc = "find"
    /\ \/ /\ SlotFree
          /\ \E j \in queued :
                /\ \A i \in queued : j <= i
                /\ tick' = [IdleTick EXCEPT !.pc = "claim", !.job = j,
                                            !.attempts = attempts[j]]
       \/ /\ ~SlotFree \/ queued = {}
          /\ tick' = IdleTick
    /\ UNCHANGED tickOnly

TickClaim ==
    LET j == tick.job IN
    /\ tick.pc = "claim"
    /\ IF status[j] = "queued"
       THEN /\ status' = [status EXCEPT ![j] = "running"]
            /\ tick' = [tick EXCEPT !.pc = "launch"]
       ELSE /\ tick' = [IdleTick EXCEPT !.pc = "find"]
            /\ UNCHANGED status
    /\ UNCHANGED <<attempts, spoolPath, disk, copies, active, run, recovered, call, faults, late>>

\* (Variant: the controller is not registered.)
RegisterNever(j, r) == active
Register(j, r) == [active EXCEPT ![j] = r]

\* The claim has returned: register the controller and start runJob with the
\* row findFirst had read.
TickLaunch(r) ==
    /\ tick.pc = "launch"
    /\ run[r].pc = "idle"
    /\ active' = Register(tick.job, r)
    /\ run' = [run EXCEPT ![r] = StartedRun(tick.job, tick.attempts)]
    /\ tick' = [IdleTick EXCEPT !.pc = "find"]
    /\ UNCHANGED <<rowVars, disk, copies, recovered, call, faults, late>>

\* A query of the tick throws: the pass is over.
TickThrows ==
    /\ tick.pc \in {"recoverRead", "recoverWrite", "sweepQuery", "find", "claim"}
    /\ Fault("dbError")
    /\ tick' = IdleTick
    /\ UNCHANGED <<rowVars, disk, copies, active, run, recovered, call, late>>

TickStart == TickBoot \/ TickPoll \/ TickSweep
TickStep ==
    \/ RecoverRead \/ RecoverDone \/ \E j \in Jobs : RecoverWrite(j)
    \/ SweepList \/ SweepQuery \/ SweepMeasure \/ \E j \in Jobs : SweepRemove(j)
    \/ EvictMark \/ EvictDone \/ \E j \in Jobs : EvictRemove(j)
    \/ TickFind \/ TickClaim \/ \E r \in Runs : TickLaunch(r)

-----------------------------------------------------------------------------
(***************************************************************************)
(* runJob.                                                                 *)
(***************************************************************************)
Goto(r, pc) == run' = [run EXCEPT ![r] = RunAt(@, pc)]

\* Look up both ends, list the files, note the spool in the row, create it.
\* No check of the signal stands between the listing and the end of the step.
RunLoad(r) ==
    LET j == run[r].job IN
    /\ run[r].pc = "load"
    /\ HasRow(j)
    /\ spoolPath' = [spoolPath EXCEPT ![j] = TRUE]
    /\ disk' = [disk EXCEPT ![j] = IF @ = "absent" THEN "partial" ELSE @]
    /\ Goto(r, "download")
    /\ UNCHANGED <<status, attempts, copies, active, tick, recovered, call, faults, late>>

\* The rest of the files, fetched or reused, and the row's phase.
RunDownload(r) ==
    LET j == run[r].job IN
    /\ run[r].pc = "download"
    /\ ~run[r].aborted
    /\ disk[j] # "absent"
    /\ HasRow(j)
    /\ disk' = [disk EXCEPT ![j] = "full"]
    /\ Goto(r, "upload")
    /\ UNCHANGED <<rowVars, copies, active, tick, recovered, call, faults, late>>

\* The receiving server has taken the last byte and stores the book.
RunDeliver(r) ==
    LET j == run[r].job IN
    /\ run[r].pc = "upload"
    /\ ~run[r].aborted
    /\ disk[j] = "full"
    /\ copies' = [copies EXCEPT ![j] = IF @ < MaxCopies THEN @ + 1 ELSE @]
    /\ Goto(r, "answer")
    /\ UNCHANGED <<rowVars, disk, active, tick, recovered, call, faults, late>>

Caught(r, verdict) ==
    /\ run' = [run EXCEPT ![r] = RunCaught(@, verdict)]
    /\ UNCHANGED <<rowVars, disk, copies, active, tick, recovered, call, late>>

\* What the catch block decides, from the signal and the row it started with.
\* (Variants: a retry too many; a word that is no status.)
VerdictOffByOne(r) ==
    IF run[r].aborted THEN "canceled"
    ELSE IF run[r].attempts + 1 <= MaxAttempts THEN "queued" ELSE "failed"

VerdictAborted(r) ==
    IF run[r].aborted THEN "aborted"
    ELSE IF run[r].attempts + 1 < MaxAttempts THEN "queued" ELSE "failed"

Verdict(r) ==
    IF run[r].aborted THEN "canceled"
    ELSE IF run[r].attempts + 1 < MaxAttempts THEN "queued" ELSE "failed"

\* The answer to an upload that was stored.  Audiobookshelf 2.x answers with plain
\* text, so any 2xx counts.  (Variant: only JSON counts, and the answer is taken
\* for a failure.)
RunAnsweredMustBeJson(r) ==
    /\ run[r].pc = "answer"
    /\ ~run[r].aborted
    /\ Caught(r, Verdict(r))
    /\ UNCHANGED faults

RunAnswered(r) ==
    /\ run[r].pc = "answer"
    /\ ~run[r].aborted
    /\ Goto(r, "accepted")
    /\ UNCHANGED <<rowVars, disk, copies, active, tick, recovered, call, faults, late>>

\* Written by id, without looking at the status or at the signal.  (Variant: a row that
\* is gone is created again.)
RunCompleteUpserts(r) ==
    LET j == run[r].job IN
    /\ run[r].pc = "accepted"
    /\ status' = [status EXCEPT ![j] = "completed"]
    /\ spoolPath' = [spoolPath EXCEPT ![j] = FALSE]
    /\ run' = [run EXCEPT ![r] = RunAt(@, "logging")]
    /\ UNCHANGED <<attempts, disk, copies, active, tick, recovered, call, faults, late>>

RunComplete(r) ==
    LET j == run[r].job IN
    /\ run[r].pc = "accepted"
    /\ HasRow(j)
    /\ status' = [status EXCEPT ![j] = "completed"]
    /\ spoolPath' = [spoolPath EXCEPT ![j] = FALSE]
    /\ Goto(r, "logging")
    /\ UNCHANGED <<attempts, disk, copies, active, tick, recovered, call, faults, late>>

\* Either server fails us, the signal fires, or the row is gone.
RunFail(r) ==
    /\ \/ run[r].pc \in {"load", "download", "upload"}
       \/ run[r].pc = "answer" /\ run[r].aborted
       \/ run[r].pc = "accepted" /\ ~HasRow(run[r].job)
    /\ Caught(r, Verdict(r))
    /\ UNCHANGED faults

\* 413: the same bytes will not be accepted next time either.
RunTooLarge(r) ==
    /\ run[r].pc = "upload"
    /\ Caught(r, IF run[r].aborted THEN "canceled" ELSE "failed")
    /\ UNCHANGED faults

\* The book is stored but the connection breaks before the answer.
RunAnswerLost(r) ==
    /\ run[r].pc = "answer"
    /\ Fault("lostAnswer")
    /\ Caught(r, Verdict(r))

\* The write that should record the success throws.
RunCompleteThrows(r) ==
    /\ run[r].pc = "accepted"
    /\ Fault("dbError")
    /\ Caught(r, Verdict(r))

RunWriteVerdict(r) ==
    LET j == run[r].job
        verdict == run[r].verdict IN
    /\ run[r].pc = "caught"
    /\ HasRow(j)
    /\ status' = [status EXCEPT ![j] = verdict]
    /\ attempts' = [attempts EXCEPT ![j] = run[r].attempts + 1]
    /\ spoolPath' = [spoolPath EXCEPT ![j] = verdict # "canceled"]
    /\ Goto(r, "logging")
    /\ UNCHANGED <<disk, copies, active, tick, recovered, call, faults, late>>

\* That write throws too: keepSpool is still false and the row is as it was.
VerdictLost(r) ==
    /\ run[r].pc = "caught"
    /\ run' = [run EXCEPT ![r] = RunLogging(@)]
    /\ UNCHANGED <<rowVars, disk, copies, active, tick, recovered, call, late>>

RunRowGone(r) == VerdictLost(r) /\ ~HasRow(run[r].job) /\ UNCHANGED faults
RunVerdictThrows(r) == VerdictLost(r) /\ Fault("dbError")

\* (Variant: only while an automatic retry is to come.)
KeepSpoolForRetry(r) == run[r].verdict = "queued"
KeepSpool(r) == run[r].verdict \in {"queued", "failed"}

\* The activity log is written, then finally drops the spool unless it is kept.
RunCleanup(r) ==
    LET j == run[r].job IN
    /\ run[r].pc = "logging"
    /\ disk' = [disk EXCEPT ![j] = IF KeepSpool(r) THEN @ ELSE "absent"]
    /\ run' = [run EXCEPT ![r] = SettlingRun(j)]
    /\ UNCHANGED <<rowVars, copies, active, tick, recovered, call, faults, late>>

\* The map entry goes by job id, whichever run it belongs to by now.
RunSettle(r) ==
    /\ run[r].pc = "settle"
    /\ active' = [active EXCEPT ![run[r].job] = None]
    /\ run' = [run EXCEPT ![r] = IdleRun]
    /\ UNCHANGED <<rowVars, disk, copies, tick, recovered, call, faults, late>>

RunStep(r) ==
    \/ RunLoad(r) \/ RunDownload(r) \/ RunDeliver(r) \/ RunAnswered(r)
    \/ RunComplete(r) \/ RunFail(r) \/ RunTooLarge(r) \/ RunWriteVerdict(r)
    \/ RunRowGone(r) \/ RunCleanup(r) \/ RunSettle(r)

-----------------------------------------------------------------------------
\* The process dies and is started again.
Crash ==
    /\ Fault("crash")
    /\ active' = [j \in Jobs |-> None]
    /\ run' = [r \in Runs |-> IdleRun]
    /\ tick' = IdleTick
    /\ recovered' = FALSE
    /\ call' = [c \in Callers |-> IdleCall]
    /\ UNCHANGED <<rowVars, disk, copies, late>>

Next ==
    \/ \E j \in Jobs : Enqueue(j)
    \/ \E c \in Callers, j \in Jobs : CancelRead(c, j) \/ RetryRead(c, j)
    \/ \E c \in Callers : ClearRead(c) \/ CallStep(c)
    \/ TickStart \/ TickStep \/ TickThrows
    \/ \E r \in Runs : RunStep(r) \/ RunAnswerLost(r) \/ RunCompleteThrows(r)
                       \/ RunVerdictThrows(r)
    \/ Crash

Spec == Init /\ [][Next]_vars

(***************************************************************************)
(* A started handler, tick or transfer goes on: SQLite answers, and both   *)
(* directions of a transfer end in an answer or a timeout.  The 5 s timer  *)
(* starts ticks for ever, and one of them finds the sweep due.  Requests   *)
(* and faults are not fair.                                                *)
(***************************************************************************)
Fairness ==
    /\ WF_vars(TickStart) /\ SF_vars(TickSweep) /\ WF_vars(TickStep)
    /\ \A r \in Runs : WF_vars(RunStep(r))
    /\ \A c \in Callers : WF_vars(CallStep(c))

FairSpec == Spec /\ Fairness
\* What the rows and the receiving server amount to is a life of each transfer.
Phase(j) ==
    IF late[j] > 0 THEN "overtaken"
    ELSE IF status[j] \in {"queued", "running"} THEN "pending" ELSE status[j]
Life == INSTANCE JobLifecycle WITH phase <- [j \in Jobs |-> Phase(j)]
-----------------------------------------------------------------------------
(***************************************************************************)
(* What the queue promises.                                                *)
(***************************************************************************)

\* A row waiting for the worker, or held by it, has attempts left: no chain of
\* failures, restarts, cancels and retries queues a job whose attempts are spent.
AttemptsLeft ==
    \A j \in Jobs : status[j] \in {"queued", "running"} => attempts[j] < MaxAttempts

\* The worker's map never holds more transfers than the configured limit.
ActiveBound == Cardinality(ActiveJobs) <= MaxConcurrent

\* No more transfers run at once than the configured limit, whatever the map says.
TransferLimit == Cardinality(TransferringRuns) <= MaxConcurrent

\* The map tells the truth: a transfer in progress is the one its job maps to, so
\* cancel reaches it and isActive protects its spool.
Tracked == \A r \in TransferringRuns : active[run[r].job] = r

\* Nobody (a sweep, an eviction, an earlier run's cleanup, a cleared list) removes
\* the spool of a transfer that is reading or writing it.
SpoolHeld ==
    \A r \in Runs : run[r].pc \in {"download", "upload"} => disk[run[r].job] # "absent"

\* However often a transfer is retried, asked for and cleared, a crash, a lost answer, a
\* failed write or a late request costs at most one surplus copy of the book, and
\* nothing else costs any.
OneCopyPerFault == \A j \in Jobs : copies[j] <= 1 + faults + late[j]

\* A finished download is thrown away only for a transfer that succeeded, was
\* cancelled or cleared, by an eviction to meet the budget, by a run that has no failure
\* on record (it succeeded, and a late request queued the row again, or the database
\* refused the record), or by a sweep that had listed the row before a late request.
DownloadKept ==
    [][\A j \in Jobs :
          disk[j] = "full" /\ disk'[j] = "absent" =>
              \/ status[j] \in {"completed", "canceled", "deleted"}
              \/ \E c \in Callers : ClearRemove(c, j)
              \/ tick.pc = "evict"
              \/ \E r \in Runs : RunCleanup(r) /\ run[r].job = j /\ run[r].verdict = "none"
              \/ late[j] > 0 /\ tick.pc = "sweepRemove"]_vars

\* While nobody cancels, the queue is JobLifecycle: whatever fails, restarts, is swept or
\* cleared, a book is stored for a pending transfer only, and an outcome is reached from
\* pending and left by asking again, until a late request queues the row once more.
Lifecycle == Life!Spec

\* Every transfer that was queued or left running reaches an outcome, across
\* failures and a restart.
Settles ==
    \A j \in Jobs : status[j] \in {"queued", "running"} ~> status[j] \in Finished

\* The copy of a completed book does not stay in the spool for ever, even if the
\* process dies between the row's update and the cleanup.
NoOrphanForever ==
    \A j \in Jobs : status[j] = "completed" /\ disk[j] # "absent"
                    ~> status[j] # "completed" \/ disk[j] = "absent"
=============================================================================
