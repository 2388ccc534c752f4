-------------------------- MODULE SyncWorkerProofs --------------------------
(***************************************************************************)
(* What holds of SyncWorker for every number of jobs, invocation slots,    *)
(* handlers and faults.                                                    *)
(***************************************************************************)
EXTENDS SyncWorker, FiniteSetTheorems, TLAPS

\* A run that has caught an error knows what to write: the status it writes is
\* one the schema has.
VerdictKnown == \A r \in Runs : run[r].pc = "caught" => run[r].verdict # "none"

TypeInv == TypeOK /\ VerdictKnown

\* An update in range keeps a function's range.
LEMMA UpdateInRange ==
    ASSUME NEW S, NEW T, NEW f \in [S -> T], NEW x, NEW y, x \in S => y \in T
    PROVE  [f EXCEPT ![x] = y] \in [S -> T]
  OBVIOUS

\* The records runs and handlers go through are of the declared shape, and change
\* only the fields they name.
LEMMA IdleRecords ==
    /\ IdleRun \in RunRecord /\ IdleRun.pc = "idle" /\ IdleRun.job = None
    /\ IdleTick \in TickRecord /\ IdleTick.pc = "idle"
    /\ IdleCall \in CallRecord /\ IdleCall.pc = "idle"
  BY DEF IdleRun, IdleTick, IdleCall, RunRecord, TickRecord, CallRecord, RunPcs,
         TickPcs, CallPcs, Verdicts, Statuses, Transferring

LEMMA RunFields ==
    ASSUME NEW x \in RunRecord
    PROVE  x.pc \in RunPcs /\ x.job \in Jobs \cup {None} /\ x.aborted \in BOOLEAN
           /\ x.attempts \in Nat /\ x.verdict \in Verdicts
  BY DEF RunRecord

LEMMA RunAtFacts ==
    ASSUME NEW x \in RunRecord, NEW pc \in RunPcs
    PROVE  /\ RunAt(x, pc) \in RunRecord
           /\ RunAt(x, pc).pc = pc /\ RunAt(x, pc).job = x.job
           /\ RunAt(x, pc).attempts = x.attempts /\ RunAt(x, pc).verdict = x.verdict
  BY DEF RunRecord, RunAt

LEMMA RunCaughtFacts ==
    ASSUME NEW x \in RunRecord, NEW v \in Verdicts
    PROVE  /\ RunCaught(x, v) \in RunRecord
           /\ RunCaught(x, v).pc = "caught" /\ RunCaught(x, v).job = x.job
           /\ RunCaught(x, v).attempts = x.attempts /\ RunCaught(x, v).verdict = v
  BY DEF RunRecord, RunCaught, RunPcs, Transferring

LEMMA RunLoggingFacts ==
    ASSUME NEW x \in RunRecord
    PROVE  /\ RunLogging(x) \in RunRecord
           /\ RunLogging(x).pc = "logging" /\ RunLogging(x).job = x.job
           /\ RunLogging(x).attempts = x.attempts /\ RunLogging(x).verdict = "none"
  BY DEF RunRecord, RunLogging, RunPcs, Transferring, Verdicts

LEMMA RunAbortedFacts ==
    ASSUME NEW x \in RunRecord
    PROVE  /\ RunAborted(x) \in RunRecord
           /\ RunAborted(x).pc = x.pc /\ RunAborted(x).job = x.job
           /\ RunAborted(x).attempts = x.attempts /\ RunAborted(x).verdict = x.verdict
  BY DEF RunRecord, RunAborted

LEMMA StartedRunFacts ==
    ASSUME NEW j \in Jobs \cup {None}, NEW n \in Nat
    PROVE  /\ StartedRun(j, n) \in RunRecord
           /\ StartedRun(j, n).pc = "load" /\ StartedRun(j, n).job = j
           /\ StartedRun(j, n).attempts = n
  BY DEF RunRecord, StartedRun, IdleRun, RunPcs, Transferring, Verdicts

LEMMA SettlingRunFacts ==
    ASSUME NEW j \in Jobs \cup {None}
    PROVE  /\ SettlingRun(j) \in RunRecord
           /\ SettlingRun(j).pc = "settle" /\ SettlingRun(j).job = j
  BY DEF RunRecord, SettlingRun, IdleRun, RunPcs, Transferring, Verdicts

\* The catch block decides for a status the schema has.
LEMMA VerdictFacts ==
    ASSUME NEW r \in Runs
    PROVE  Verdict(r) \in Verdicts \ {"none"}
  BY DEF Verdict, Verdicts

LEMMA CallFields ==
    ASSUME NEW x \in CallRecord
    PROVE  x.pc \in CallPcs /\ x.job \in Jobs \cup {None} /\ x.saw \in Statuses
           /\ x.todo \in SUBSET Jobs /\ x.ids \in SUBSET Jobs
  BY DEF CallRecord

LEMMA ReadingFacts ==
    ASSUME NEW pc \in CallPcs, NEW j \in Jobs, NEW s \in Statuses
    PROVE  Reading(pc, j, s) \in CallRecord /\ Reading(pc, j, s).pc = pc
  BY DEF CallRecord, Reading, IdleCall

LEMMA ClearingFacts ==
    ASSUME NEW pc \in CallPcs, NEW t \in SUBSET Jobs, NEW i \in SUBSET Jobs
    PROVE  Clearing(pc, t, i) \in CallRecord /\ Clearing(pc, t, i).pc = pc
  BY DEF CallRecord, Clearing, IdleCall, Statuses

\* The initial state is of the declared shape.
LEMMA InitType == Init => TypeInv
<1> SUFFICES ASSUME Init PROVE TypeInv
  OBVIOUS
<1>1. run \in [Runs -> RunRecord] /\ \A r \in Runs : run[r].pc = "idle"
  BY IdleRecords DEF Init
<1>2. tick \in TickRecord /\ call \in [Callers -> CallRecord]
  BY IdleRecords DEF Init
<1>3. /\ status \in [Jobs -> Statuses] /\ active \in [Jobs -> Runs \cup {None}]
      /\ attempts \in [Jobs -> Nat] /\ copies \in [Jobs -> Nat] /\ faults \in Nat
      /\ spoolPath \in [Jobs -> BOOLEAN] /\ recovered \in BOOLEAN
      /\ disk \in [Jobs -> {"absent", "partial", "full"}]
      /\ late \in [Jobs -> Nat]
  BY DEF Init, Statuses
<1> QED
  BY <1>1, <1>2, <1>3 DEF TypeInv, TypeOK, VerdictKnown

\* What a tick may find: a job to be claimed, if a slot is free.
Found(j) == [IdleTick EXCEPT !.pc = "claim", !.job = j, !.attempts = attempts[j]]

LEMMA FoundFacts ==
    ASSUME TypeInv, NEW j \in Jobs
    PROVE  Found(j) \in TickRecord /\ Found(j).pc = "claim" /\ Found(j).job = j
<1>1. attempts[j] \in Nat
  BY DEF TypeInv, TypeOK
<1> QED
  BY <1>1 DEF Found, IdleTick, TickRecord, TickPcs

LEMMA FindFacts ==
    ASSUME TickFind
    PROVE  /\ UNCHANGED tickOnly /\ tick.pc = "find"
           /\ tick' = IdleTick \/ (SlotFree /\ \E j \in Jobs : tick' = Found(j))
<1>1. UNCHANGED tickOnly /\ tick.pc = "find"
  BY Zenon DEF TickFind
<1>2. tick' = IdleTick \/ (SlotFree /\ \E j \in Jobs : tick' = Found(j))
  BY Zenon DEF TickFind, Found
<1> QED
  BY <1>1, <1>2

\* A tick that only moves itself keeps the state well formed.
LEMMA TickOnlyType ==
    ASSUME TypeInv, UNCHANGED tickOnly, tick' \in TickRecord
    PROVE  TypeInv'
  BY DEF TypeInv, TypeOK, VerdictKnown, tickOnly, rowVars

LEMMA TickReads ==
    ASSUME tick \in TickRecord, RecoverRead \/ SweepList \/ SweepQuery
    PROVE  tick' \in TickRecord /\ UNCHANGED tickOnly
<1>1. tick' \in TickRecord
  <2>1. CASE RecoverRead
    <3> DEFINE S == {j \in Jobs : status[j] = "running"}
    <3>1. S \in SUBSET Jobs /\ tick.evictable \in SUBSET Jobs /\ "recoverWrite" \in TickPcs
      BY DEF TickRecord, TickPcs
    <3>2. tick' = [tick EXCEPT !.pc = "recoverWrite", !.todo = S]
      BY <2>1, Zenon DEF RecoverRead
    <3> HIDE DEF S
    <3> QED
      BY <3>1, <3>2 DEF TickRecord
  <2>2. CASE SweepList
    <3> DEFINE S == {j \in Jobs : disk[j] # "absent"}
               pc == IF S = {} THEN "find" ELSE "sweepQuery"
    <3>1. S \in SUBSET Jobs /\ tick.evictable \in SUBSET Jobs /\ pc \in TickPcs
      BY DEF TickRecord, TickPcs
    <3>2. tick' = [tick EXCEPT !.pc = pc, !.todo = S]
      BY <2>2, Zenon DEF SweepList
    <3> HIDE DEF S, pc
    <3> QED
      BY <3>1, <3>2 DEF TickRecord
  <2>3. CASE SweepQuery
    <3> DEFINE R == {j \in tick.todo : status[j] \in Retainable}
               S == tick.todo \ R
               E == {j \in R : status[j] = "failed"}
    <3>1. S \in SUBSET Jobs /\ E \in SUBSET Jobs /\ "sweepRemove" \in TickPcs
      BY DEF TickRecord, TickPcs
    <3>2. tick' = [tick EXCEPT !.pc = "sweepRemove", !.todo = S, !.evictable = E]
      BY <2>3, Zenon DEF SweepQuery
    <3> HIDE DEF S, E
    <3> QED
      BY <3>1, <3>2 DEF TickRecord
  <2> QED
    BY <2>1, <2>2, <2>3
<1> QED
  BY <1>1 DEF RecoverRead, SweepList, SweepQuery

LEMMA CallType ==
    ASSUME TypeInv,
           \/ \E j \in Jobs : Enqueue(j)
           \/ \E c \in Callers, j \in Jobs : CancelRead(c, j) \/ RetryRead(c, j)
           \/ \E c \in Callers : ClearRead(c) \/ CallStep(c)
    PROVE  TypeInv'
<1> USE DEF TypeInv, TypeOK, VerdictKnown, rowVars
<1>1. ASSUME NEW j \in Jobs, Enqueue(j) PROVE TypeInv'
  BY <1>1 DEF Enqueue, Statuses
<1>2. ASSUME NEW c \in Callers, NEW j \in Jobs, CancelRead(c, j) PROVE TypeInv'
  BY <1>2, ReadingFacts DEF CancelRead, CallPcs
<1>3. ASSUME NEW c \in Callers, NEW j \in Jobs, RetryRead(c, j) PROVE TypeInv'
  BY <1>3, ReadingFacts DEF RetryRead, CallPcs
<1>4. ASSUME NEW c \in Callers, ClearRead(c) PROVE TypeInv'
  BY <1>4, ClearingFacts DEF ClearRead, CallPcs
<1>5. ASSUME NEW c \in Callers, CancelAct(c) PROVE TypeInv'
  BY <1>5, IdleRecords, RunAbortedFacts DEF CancelAct, WorkerCancel, Statuses, Finished
<1>6. ASSUME NEW c \in Callers, RetryWrite(c) PROVE TypeInv'
  <2>1. late' \in [Jobs -> Nat]
    <3> DEFINE j == call[c].job
               more == IF IsLate(j) THEN late[j] + 1 ELSE late[j]
    <3>1. late' = [late EXCEPT ![j] = more]
      BY <1>6 DEF RetryWrite
    <3>2. j \in Jobs => more \in Nat
      BY DEF TypeInv, TypeOK
    <3> QED
      BY <3>1, <3>2, UpdateInRange DEF TypeInv, TypeOK
  <2> QED
    BY <1>6, <2>1, IdleRecords DEF RetryWrite, Statuses
<1>7. ASSUME NEW c \in Callers, ClearFilter(c) PROVE TypeInv'
  BY <1>7, ClearingFacts, CallFields DEF ClearFilter, CallPcs
<1>8. ASSUME NEW c \in Callers, NEW j \in Jobs, ClearRemove(c, j) PROVE TypeInv'
  BY <1>8, ClearingFacts, CallFields DEF ClearRemove, CallPcs
<1>9. ASSUME NEW c \in Callers, ClearDelete(c) PROVE TypeInv'
  BY <1>9, IdleRecords DEF ClearDelete, Statuses
<1> QED
  BY <1>1, <1>2, <1>3, <1>4, <1>5, <1>6, <1>7, <1>8, <1>9 DEF CallStep

LEMMA TickType ==
    ASSUME TypeInv, TickStart \/ TickStep \/ TickThrows
    PROVE  TypeInv'
<1>t. tick \in TickRecord
  BY DEF TypeInv, TypeOK
<1>4. CASE RecoverRead \/ SweepList \/ SweepQuery
  BY <1>t, <1>4, TickReads, TickOnlyType
<1>14. CASE TickFind
  <2>1. tick' \in TickRecord
    BY <1>14, FindFacts, FoundFacts, IdleRecords
  <2> QED
    BY <1>14, <2>1, FindFacts, TickOnlyType
<1> USE IdleRecords DEF TypeInv, TypeOK, VerdictKnown, rowVars, tickOnly, TickPcs, TickRecord
<1>1. CASE TickBoot
  BY <1>1 DEF TickBoot
<1>2. CASE TickPoll
  BY <1>2 DEF TickPoll
<1>3. CASE TickSweep
  BY <1>3 DEF TickSweep
<1>5. ASSUME NEW j \in Jobs, RecoverWrite(j) PROVE TypeInv'
  BY <1>5 DEF RecoverWrite, Statuses
<1>6. CASE RecoverDone
  BY <1>6 DEF RecoverDone
<1>9. ASSUME NEW j \in Jobs, SweepRemove(j) PROVE TypeInv'
  BY <1>9 DEF SweepRemove
<1>10. CASE SweepMeasure
  BY <1>10 DEF SweepMeasure
<1>11. ASSUME NEW j \in Jobs, EvictRemove(j) PROVE TypeInv'
  BY <1>11 DEF EvictRemove
<1>12. CASE EvictMark
  BY <1>12 DEF EvictMark
<1>13. CASE EvictDone
  BY <1>13 DEF EvictDone
<1>15. CASE TickClaim
  BY <1>15 DEF TickClaim, Statuses
<1>16. ASSUME NEW r \in Runs, TickLaunch(r) PROVE TypeInv'
  BY <1>16, StartedRunFacts DEF TickLaunch, Register
<1>17. CASE TickThrows
  BY <1>17 DEF TickThrows, Fault
<1> QED
  BY <1>1, <1>2, <1>3, <1>4, <1>5, <1>6, <1>9, <1>10, <1>11, <1>12,
     <1>13, <1>14, <1>15, <1>16, <1>17 DEF TickStart, TickStep

\* Whatever verdict a run catches its error with, the state stays well formed.
LEMMA CaughtType ==
    ASSUME TypeInv, NEW r \in Runs, NEW v \in Verdicts \ {"none"},
           Caught(r, v), faults' \in Nat
    PROVE  TypeInv'
<1>1. RunCaught(run[r], v) \in RunRecord /\ RunCaught(run[r], v).verdict = v
  BY RunCaughtFacts DEF TypeInv, TypeOK
<1> QED
  BY <1>1 DEF Caught, TypeInv, TypeOK, VerdictKnown, rowVars

\* A run whose verdict is not written keeps the state well formed.
LEMMA LostType ==
    ASSUME TypeInv, NEW r \in Runs, VerdictLost(r), faults' \in Nat
    PROVE  TypeInv'
<1>1. RunLogging(run[r]) \in RunRecord /\ RunLogging(run[r]).pc = "logging"
  BY RunLoggingFacts DEF TypeInv, TypeOK
<1> QED
  BY <1>1 DEF VerdictLost, TypeInv, TypeOK, VerdictKnown, rowVars

\* A run that moves on without an error keeps the runs well formed.
LEMMA GotoType ==
    ASSUME TypeInv, NEW r \in Runs, NEW pc \in RunPcs \ {"caught"}, Goto(r, pc)
    PROVE  run' \in [Runs -> RunRecord] /\ VerdictKnown'
<1>1. RunAt(run[r], pc) \in RunRecord /\ RunAt(run[r], pc).pc # "caught"
  BY RunAtFacts DEF TypeInv, TypeOK
<1> QED
  BY <1>1 DEF Goto, TypeInv, TypeOK, VerdictKnown

LEMMA RunType ==
    ASSUME TypeInv, NEW r \in Runs,
           RunStep(r) \/ RunAnswerLost(r) \/ RunCompleteThrows(r) \/ RunVerdictThrows(r)
    PROVE  TypeInv'
<1> DEFINE RunsOK == run' \in [Runs -> RunRecord] /\ VerdictKnown'
<1>0. \A pc \in RunPcs \ {"caught"} : Goto(r, pc) => RunsOK
  BY GotoType
<1> HIDE DEF RunsOK
<1>a. {"download", "upload", "answer", "accepted", "logging"} \subseteq RunPcs \ {"caught"}
  BY DEF RunPcs, Transferring
<1>b. run[r] \in RunRecord /\ faults \in Nat
  BY DEF TypeInv, TypeOK
<1>1. CASE RunLoad(r)
  <2>1. RunsOK
    BY <1>0, <1>a, <1>1 DEF RunLoad
  <2> QED
    BY <1>1, <2>1 DEF RunLoad, RunsOK, TypeInv, TypeOK
<1>2. CASE RunDownload(r)
  <2>1. RunsOK
    BY <1>0, <1>a, <1>2 DEF RunDownload
  <2> QED
    BY <1>2, <2>1 DEF RunDownload, RunsOK, TypeInv, TypeOK, rowVars
<1>3. CASE RunDeliver(r)
  <2>1. RunsOK
    BY <1>0, <1>a, <1>3 DEF RunDeliver
  <2>2. copies' \in [Jobs -> Nat]
    <3> DEFINE j == run[r].job
               more == IF copies[j] < MaxCopies THEN copies[j] + 1 ELSE copies[j]
    <3>1. j \in Jobs => more \in Nat
      BY BoundsAssumption DEF TypeInv, TypeOK
    <3>2. copies \in [Jobs -> Nat] /\ copies' = [copies EXCEPT ![j] = more]
      BY <1>3 DEF RunDeliver, TypeInv, TypeOK
    <3> QED
      BY <3>1, <3>2, UpdateInRange
  <2> QED
    BY <1>3, <2>1, <2>2 DEF RunDeliver, RunsOK, TypeInv, TypeOK, rowVars
<1>4. CASE RunAnswered(r)
  <2>1. RunsOK
    BY <1>0, <1>a, <1>4 DEF RunAnswered
  <2> QED
    BY <1>4, <2>1 DEF RunAnswered, RunsOK, TypeInv, TypeOK, rowVars
<1>5. CASE RunComplete(r)
  <2>1. RunsOK
    BY <1>0, <1>a, <1>5 DEF RunComplete
  <2> QED
    BY <1>5, <2>1 DEF RunComplete, RunsOK, TypeInv, TypeOK, Statuses, Finished
<1>6. CASE RunFail(r)
  BY <1>b, <1>6, CaughtType, VerdictFacts DEF RunFail
<1>7. CASE RunTooLarge(r)
  <2>1. (IF run[r].aborted THEN "canceled" ELSE "failed") \in Verdicts \ {"none"}
    BY DEF Verdicts
  <2> QED
    BY <1>b, <1>7, <2>1, CaughtType DEF RunTooLarge
<1>8. CASE RunWriteVerdict(r)
  <2>1. RunsOK
    BY <1>0, <1>a, <1>8 DEF RunWriteVerdict
  <2>2. run[r].verdict \in Statuses /\ run[r].attempts \in Nat
    BY <1>b, <1>8, RunFields
       DEF RunWriteVerdict, TypeInv, VerdictKnown, Verdicts, Statuses, Finished
  <2>3. /\ status' \in [Jobs -> Statuses]
        /\ attempts' \in [Jobs -> Nat]
        /\ spoolPath' \in [Jobs -> BOOLEAN]
    <3> DEFINE j == run[r].job
               v == run[r].verdict
    <3>1. /\ status' = [status EXCEPT ![j] = v]
          /\ attempts' = [attempts EXCEPT ![j] = run[r].attempts + 1]
          /\ spoolPath' = [spoolPath EXCEPT ![j] = v # "canceled"]
      BY <1>8 DEF RunWriteVerdict
    <3>2. /\ status \in [Jobs -> Statuses] /\ attempts \in [Jobs -> Nat]
          /\ spoolPath \in [Jobs -> BOOLEAN]
      BY DEF TypeInv, TypeOK
    <3>3. v \in Statuses /\ run[r].attempts + 1 \in Nat /\ (v # "canceled") \in BOOLEAN
      BY <2>2
    <3> HIDE DEF j, v
    <3> QED
      BY <3>1, <3>2, <3>3, UpdateInRange
  <2> QED
    BY <1>8, <2>1, <2>3 DEF RunWriteVerdict, RunsOK, TypeInv, TypeOK
<1>9. CASE RunRowGone(r)
  BY <1>b, <1>9, LostType DEF RunRowGone
<1>10. CASE RunCleanup(r)
  <2>1. SettlingRun(run[r].job) \in RunRecord /\ SettlingRun(run[r].job).pc = "settle"
    BY <1>b, SettlingRunFacts, RunFields
  <2> QED
    BY <1>10, <2>1 DEF RunCleanup, TypeInv, TypeOK, VerdictKnown, rowVars
<1>11. CASE RunSettle(r)
  BY <1>11, IdleRecords DEF RunSettle, TypeInv, TypeOK, VerdictKnown, rowVars
<1>12. CASE RunAnswerLost(r)
  BY <1>b, <1>12, CaughtType, VerdictFacts DEF RunAnswerLost, Fault
<1>13. CASE RunCompleteThrows(r)
  BY <1>b, <1>13, CaughtType, VerdictFacts DEF RunCompleteThrows, Fault
<1>14. CASE RunVerdictThrows(r)
  BY <1>b, <1>14, LostType DEF RunVerdictThrows, Fault
<1> QED
  BY <1>1, <1>2, <1>3, <1>4, <1>5, <1>6, <1>7, <1>8, <1>9, <1>10, <1>11, <1>12,
     <1>13, <1>14 DEF RunStep

LEMMA NextType == TypeInv /\ [Next]_vars => TypeInv'
<1> SUFFICES ASSUME TypeInv, [Next]_vars PROVE TypeInv'
  OBVIOUS
<1>1. CASE Crash
  <2>1. run' \in [Runs -> RunRecord] /\ \A r \in Runs : run'[r].pc = "idle"
    BY <1>1, IdleRecords DEF Crash
  <2>2. /\ active' \in [Jobs -> Runs \cup {None}]
        /\ tick' \in TickRecord
        /\ call' \in [Callers -> CallRecord]
        /\ faults' \in Nat
    BY <1>1, IdleRecords DEF Crash, Fault, TypeInv, TypeOK
  <2> QED
    BY <1>1, <2>1, <2>2 DEF Crash, TypeInv, TypeOK, VerdictKnown, rowVars
<1>2. CASE UNCHANGED vars
  BY <1>2 DEF vars, TypeInv, TypeOK, VerdictKnown
<1> QED
  BY <1>1, <1>2, CallType, TickType, RunType DEF Next

\* The variables keep the shape the schema and the class declare, in every state.
THEOREM TypeCorrect == Spec => []TypeOK
<1>1. Spec => []TypeInv
  BY InitType, NextType, PTL DEF Spec
<1>2. TypeInv => TypeOK
  BY DEF TypeInv
<1> QED
  BY <1>1, <1>2, PTL
-----------------------------------------------------------------------------
(***************************************************************************)
(* AttemptsLeft.  It is not inductive alone: a run writes what it decided  *)
(* earlier, recovery requeues what it read earlier, and a row is created   *)
(* with the attempts it has.                                               *)
(***************************************************************************)
QueuedVerdictLeft ==
    \A r \in Runs : run[r].pc = "caught" /\ run[r].verdict = "queued"
                    => run[r].attempts + 1 < MaxAttempts

\* Before and during recovery no transfer runs.
RecoversAlone ==
    /\ ~recovered => tick.pc = "idle"
    /\ ~recovered \/ tick.pc \in {"recoverRead", "recoverWrite"}
           => \A r \in Runs : run[r].pc = "idle"

StrandedLeft ==
    tick.pc = "recoverWrite" => \A j \in tick.todo : attempts[j] < MaxAttempts

AbsentUntried == \A j \in Jobs : status[j] = "absent" => attempts[j] = 0

AttemptInv ==
    /\ AttemptsLeft /\ QueuedVerdictLeft /\ RecoversAlone
    /\ StrandedLeft /\ AbsentUntried

\* How the fields of a tick change, for the values the steps give it.
LEMMA TickFields ==
    ASSUME NEW x \in TickRecord
    PROVE  x.pc \in TickPcs /\ x.job \in Jobs \cup {None} /\ x.attempts \in Nat
           /\ x.todo \in SUBSET Jobs /\ x.evictable \in SUBSET Jobs
  BY DEF TickRecord

LEMMA AttemptInit == Init => AttemptInv
<1> SUFFICES ASSUME Init PROVE AttemptInv
  OBVIOUS
<1>1. \A r \in Runs : run[r].pc = "idle"
  BY IdleRecords DEF Init
<1>2. tick.pc = "idle"
  BY IdleRecords DEF Init
<1> QED
  BY <1>1, <1>2 DEF Init, AttemptInv, AttemptsLeft, QueuedVerdictLeft,
     RecoversAlone, StrandedLeft, AbsentUntried

LEMMA AttemptCall ==
    ASSUME TypeInv, AttemptInv,
           \/ \E j \in Jobs : Enqueue(j)
           \/ \E c \in Callers, j \in Jobs : CancelRead(c, j) \/ RetryRead(c, j)
           \/ \E c \in Callers : ClearRead(c) \/ CallStep(c)
    PROVE  AttemptInv'
<1> USE DEF AttemptInv, AttemptsLeft, QueuedVerdictLeft, RecoversAlone,
            StrandedLeft, AbsentUntried, rowVars, HasRow
<1>1. ASSUME NEW j \in Jobs, Enqueue(j) PROVE AttemptInv'
  BY <1>1, BoundsAssumption DEF Enqueue, TypeInv, TypeOK
<1>2. ASSUME NEW c \in Callers, NEW j \in Jobs, CancelRead(c, j) \/ RetryRead(c, j)
      PROVE  AttemptInv'
  BY <1>2 DEF CancelRead, RetryRead
<1>3. ASSUME NEW c \in Callers, ClearRead(c) \/ ClearFilter(c) PROVE AttemptInv'
  BY <1>3 DEF ClearRead, ClearFilter
<1>4. ASSUME NEW c \in Callers, CancelAct(c) PROVE AttemptInv'
  <2>1. \A r \in Runs : /\ run'[r].pc = run[r].pc /\ run'[r].verdict = run[r].verdict
                        /\ run'[r].attempts = run[r].attempts
    BY <1>4, RunAbortedFacts DEF CancelAct, WorkerCancel, TypeInv, TypeOK
  <2> QED
    BY <1>4, <2>1 DEF CancelAct, TypeInv, TypeOK
<1>5. ASSUME NEW c \in Callers, RetryWrite(c) PROVE AttemptInv'
  BY <1>5, BoundsAssumption, TickFields DEF RetryWrite, TypeInv, TypeOK
<1>6. ASSUME NEW c \in Callers, NEW j \in Jobs, ClearRemove(c, j) PROVE AttemptInv'
  BY <1>6 DEF ClearRemove
<1>7. ASSUME NEW c \in Callers, ClearDelete(c) PROVE AttemptInv'
  BY <1>7 DEF ClearDelete, TypeInv, TypeOK
<1> QED
  BY <1>1, <1>2, <1>3, <1>4, <1>5, <1>6, <1>7 DEF CallStep

LEMMA AttemptTick ==
    ASSUME TypeInv, AttemptInv, TickStart \/ TickStep \/ TickThrows
    PROVE  AttemptInv'
<1> USE IdleRecords, TickFields
        DEF AttemptInv, AttemptsLeft, QueuedVerdictLeft, RecoversAlone,
            StrandedLeft, AbsentUntried, tickOnly, rowVars, HasRow, TickPcs
<1>a. tick \in TickRecord
  BY DEF TypeInv, TypeOK
<1>1. CASE TickBoot
  BY <1>1 DEF TickBoot, IdleTick
<1>2. CASE TickPoll \/ TickSweep
  BY <1>2 DEF TickPoll, TickSweep, IdleTick
<1>3. CASE RecoverRead
  BY <1>3, <1>a DEF RecoverRead, TickRecord
<1>4. ASSUME NEW j \in Jobs, RecoverWrite(j) PROVE AttemptInv'
  BY <1>4, <1>a DEF RecoverWrite, TickRecord, TypeInv, TypeOK
<1>5. CASE RecoverDone \/ SweepList \/ SweepQuery \/ SweepMeasure
  <2>1. /\ tick.pc # "idle" /\ tick'.pc \notin {"idle", "recoverRead", "recoverWrite"}
        /\ UNCHANGED tickOnly
    BY <1>5, <1>a DEF RecoverDone, SweepList, SweepQuery, SweepMeasure, TickRecord
  <2> QED
    BY <2>1
<1>6. ASSUME NEW j \in Jobs, SweepRemove(j) \/ EvictRemove(j) PROVE AttemptInv'
  <2>1. /\ tick.pc # "idle" /\ tick'.pc \notin {"idle", "recoverRead", "recoverWrite"}
        /\ UNCHANGED <<rowVars, run, recovered>>
    BY <1>6, <1>a DEF SweepRemove, EvictRemove, TickRecord
  <2> QED
    BY <2>1
<1>7. CASE EvictMark \/ EvictDone
  <2>1. /\ tick.pc # "idle" /\ tick'.pc \notin {"idle", "recoverRead", "recoverWrite"}
        /\ UNCHANGED <<status, attempts, run, recovered>>
    BY <1>7, <1>a DEF EvictMark, EvictDone, TickRecord, IdleTick
  <2> QED
    BY <2>1
<1>8. CASE TickFind
  <2>1. UNCHANGED tickOnly /\ tick'.pc \in {"idle", "claim"}
    BY <1>8, FindFacts, FoundFacts
  <2>2. tick.pc = "find"
    BY <1>8, FindFacts
  <2>3. tick'.pc \notin {"recoverRead", "recoverWrite"} /\ UNCHANGED <<rowVars, run, recovered>>
    BY <2>1 DEF tickOnly
  <2> QED
    BY <2>2, <2>3
<1>9. CASE TickClaim
  BY <1>9, <1>a DEF TickClaim, TickRecord, IdleTick, TypeInv, TypeOK
<1>10. ASSUME NEW r \in Runs, TickLaunch(r) PROVE AttemptInv'
  <2>1. /\ tick.pc = "launch" /\ tick'.pc = "find" /\ recovered' = recovered
        /\ status' = status /\ attempts' = attempts
    BY <1>10 DEF TickLaunch, IdleTick
  <2>2. \A q \in Runs : run'[q] = run[q] \/ run'[q].pc = "load"
    <3>1. StartedRun(tick.job, tick.attempts).pc = "load"
      BY <1>a, StartedRunFacts
    <3> QED
      BY <1>10, <3>1 DEF TickLaunch, TypeInv, TypeOK
  <2>3. recovered
    BY <2>1
  <2> QED
    BY <2>1, <2>2, <2>3
<1>11. CASE TickThrows
  BY <1>11 DEF TickThrows, Fault
<1> QED
  BY <1>1, <1>2, <1>3, <1>4, <1>5, <1>6, <1>7, <1>8, <1>9, <1>10, <1>11
     DEF TickStart, TickStep

\* What a step of run r that does not record a verdict leaves of AttemptInv to show:
\* the statuses it may write, and the verdict it may catch.
LEMMA AttemptKept ==
    ASSUME TypeInv, AttemptInv, NEW r \in Runs, run[r].pc # "idle",
           UNCHANGED <<attempts, tick, recovered>>,
           \A j \in Jobs : status'[j] = status[j] \/ status'[j] = "completed",
           \A q \in Runs \ {r} : run'[q] = run[q],
           run'[r].pc = "caught" /\ run'[r].verdict = "queued"
               => run'[r].attempts + 1 < MaxAttempts
    PROVE  AttemptInv'
  BY DEF AttemptInv, AttemptsLeft, QueuedVerdictLeft, RecoversAlone,
         StrandedLeft, AbsentUntried

LEMMA AttemptCaught ==
    ASSUME TypeInv, AttemptInv, NEW r \in Runs, run[r].pc # "idle",
           NEW v \in Verdicts, Caught(r, v),
           v = "queued" => run[r].attempts + 1 < MaxAttempts
    PROVE  AttemptInv'
<1>1. /\ RunCaught(run[r], v).verdict = v
      /\ RunCaught(run[r], v).attempts = run[r].attempts
  BY RunCaughtFacts DEF TypeInv, TypeOK
<1>2. run' = [run EXCEPT ![r] = RunCaught(run[r], v)]
  BY DEF Caught
<1> QED
  BY <1>1, <1>2, AttemptKept DEF Caught, rowVars, TypeInv, TypeOK

LEMMA AttemptRun ==
    ASSUME TypeInv, AttemptInv, NEW r \in Runs,
           RunStep(r) \/ RunAnswerLost(r) \/ RunCompleteThrows(r) \/ RunVerdictThrows(r)
    PROVE  AttemptInv'
<1>a. run[r] \in RunRecord /\ run \in [Runs -> RunRecord] /\ status \in [Jobs -> Statuses]
  BY DEF TypeInv, TypeOK
<1>b. \A pc \in RunPcs : RunAt(run[r], pc).pc = pc
  BY <1>a, RunAtFacts
<1>c. Verdict(r) \in Verdicts
      /\ (Verdict(r) = "queued" => run[r].attempts + 1 < MaxAttempts)
  BY DEF Verdict, Verdicts
<1>1. CASE RunLoad(r) \/ RunDownload(r) \/ RunDeliver(r) \/ RunAnswered(r) \/ RunComplete(r)
  <2>1. /\ run[r].pc # "idle" /\ UNCHANGED <<attempts, tick, recovered>>
        /\ \A j \in Jobs : status'[j] = status[j] \/ status'[j] = "completed"
        /\ \E pc \in RunPcs \ {"caught"} : run' = [run EXCEPT ![r] = RunAt(run[r], pc)]
    BY <1>1, <1>a DEF RunLoad, RunDownload, RunDeliver, RunAnswered, RunComplete,
                      rowVars, Goto, RunPcs, Transferring
  <2> QED
    BY <2>1, <1>a, <1>b, AttemptKept
<1>2. CASE RunFail(r) \/ RunAnswerLost(r) \/ RunCompleteThrows(r)
  <2>1. run[r].pc # "idle" /\ Caught(r, Verdict(r))
    BY <1>2 DEF RunFail, RunAnswerLost, RunCompleteThrows
  <2> QED
    BY <2>1, <1>c, AttemptCaught
<1>3. CASE RunTooLarge(r)
  <2>1. PICK v \in Verdicts \ {"queued"} : Caught(r, v)
    BY <1>3 DEF RunTooLarge, Verdicts
  <2>2. run[r].pc # "idle"
    BY <1>3 DEF RunTooLarge
  <2> QED
    BY <2>1, <2>2, AttemptCaught
<1>4. CASE RunRowGone(r) \/ RunVerdictThrows(r)
  <2>1. run[r].pc # "idle" /\ VerdictLost(r)
    BY <1>4 DEF RunRowGone, RunVerdictThrows, VerdictLost
  <2>2. RunLogging(run[r]).pc = "logging"
    BY <1>a, RunLoggingFacts
  <2> QED
    BY <2>1, <2>2, <1>a, AttemptKept DEF VerdictLost, rowVars
<1>5. CASE RunCleanup(r)
  <2>1. SettlingRun(run[r].job).pc = "settle"
    BY <1>a, SettlingRunFacts, RunFields
  <2> QED
    BY <1>5, <2>1, <1>a, AttemptKept DEF RunCleanup, rowVars
<1>6. CASE RunSettle(r)
  BY <1>6, <1>a, IdleRecords, AttemptKept DEF RunSettle, rowVars
<1>7. CASE RunWriteVerdict(r)
  <2> DEFINE j == run[r].job
             v == run[r].verdict
             n == run[r].attempts + 1
  <2>1. /\ run[r].pc = "caught" /\ status[j] # "absent"
        /\ status' = [status EXCEPT ![j] = v]
        /\ attempts' = [attempts EXCEPT ![j] = n]
        /\ run' = [run EXCEPT ![r] = RunAt(run[r], "logging")]
        /\ UNCHANGED <<tick, recovered>>
    BY <1>7 DEF RunWriteVerdict, HasRow, Goto
  <2>2. v \in {"canceled", "queued", "failed"} /\ (v = "queued" => n < MaxAttempts)
    BY <2>1, <1>a, RunFields DEF TypeInv, VerdictKnown, Verdicts, AttemptInv, QueuedVerdictLeft
  <2>3. RunAt(run[r], "logging").pc = "logging"
    BY <1>b DEF RunPcs
  <2>4. attempts \in [Jobs -> Nat]
    BY DEF TypeInv, TypeOK
  <2> HIDE DEF j, v, n
  <2>5. AttemptsLeft' /\ AbsentUntried'
    BY <2>1, <2>2, <2>4, <1>a DEF AttemptInv, AttemptsLeft, AbsentUntried
  <2>6. QueuedVerdictLeft'
    BY <2>1, <2>3, <1>a DEF AttemptInv, QueuedVerdictLeft
  <2>7. recovered /\ tick.pc # "recoverWrite" /\ RecoversAlone'
    BY <2>1, <2>3, <1>a DEF AttemptInv, RecoversAlone
  <2> QED
    BY <2>1, <2>5, <2>6, <2>7 DEF AttemptInv, StrandedLeft
<1> QED
  BY <1>1, <1>2, <1>3, <1>4, <1>5, <1>6, <1>7 DEF RunStep

LEMMA AttemptNext == TypeInv /\ AttemptInv /\ [Next]_vars => AttemptInv'
<1> SUFFICES ASSUME TypeInv, AttemptInv, [Next]_vars PROVE AttemptInv'
  OBVIOUS
<1>1. CASE Crash
  <2>1. /\ \A r \in Runs : run'[r].pc = "idle"
        /\ tick'.pc = "idle" /\ UNCHANGED <<status, attempts>>
    BY <1>1, IdleRecords DEF Crash, rowVars
  <2> QED
    BY <2>1 DEF AttemptInv, AttemptsLeft, QueuedVerdictLeft, RecoversAlone,
                StrandedLeft, AbsentUntried
<1>2. CASE UNCHANGED vars
  BY <1>2 DEF vars, AttemptInv, AttemptsLeft, QueuedVerdictLeft, RecoversAlone,
              StrandedLeft, AbsentUntried
<1> QED
  BY <1>1, <1>2, AttemptCall, AttemptTick, AttemptRun DEF Next

\* No chain of failures, restarts, cancels and retries leaves a job queued, or held
\* by the worker, with its attempts spent.
THEOREM AttemptsNeverSpent == Spec => []AttemptsLeft
<1>1. AttemptInv => AttemptsLeft
  BY DEF AttemptInv
<1> QED
  BY <1>1, InitType, NextType, AttemptInit, AttemptNext, PTL DEF Spec

(***************************************************************************)
(* The worker's slots: the map of running transfers stays within its       *)
(* limit for every limit, and with a single slot the map, the transfers    *)
(* and the spools agree, which the runs refute for two.                    *)
(***************************************************************************)

Claiming == tick.pc \in {"claim", "launch"}

\* A step that leaves the map, and which run belongs to which job, alone, and does
\* not set out to fill a slot unless one is free.
SlotsAlone ==
    /\ active' = active
    /\ \A r \in Runs : /\ run'[r].job = run[r].job
                       /\ run'[r].pc = "idle" <=> run[r].pc = "idle"
    /\ Claiming' => \/ Claiming /\ tick'.job = tick.job
                    \/ SlotFree /\ tick'.job \in Jobs

\* Steps of one run that change nothing of this.
LEMMA RunSlotsAlone ==
    ASSUME TypeInv, NEW r \in Runs, run[r].pc # "idle",
           run'[r].pc # "idle", run'[r].job = run[r].job,
           \A q \in Runs \ {r} : run'[q] = run[q],
           UNCHANGED <<active, tick>>
    PROVE  SlotsAlone
  BY DEF SlotsAlone, Claiming

LEMMA CallSlots ==
    ASSUME TypeInv,
           \/ \E j \in Jobs : Enqueue(j)
           \/ \E c \in Callers, j \in Jobs : CancelRead(c, j) \/ RetryRead(c, j)
           \/ \E c \in Callers : ClearRead(c) \/ CallStep(c)
    PROVE  SlotsAlone
<1> USE DEF SlotsAlone, Claiming
<1>1. ASSUME NEW c \in Callers, CancelAct(c) PROVE SlotsAlone
  <2>1. /\ \A r \in Runs : /\ run'[r].pc = run[r].pc /\ run'[r].job = run[r].job
        /\ UNCHANGED <<active, tick>>
    BY <1>1, RunAbortedFacts DEF CancelAct, WorkerCancel, TypeInv, TypeOK
  <2> QED
    BY <2>1
<1>2. (\A c \in Callers : ~CancelAct(c)) => UNCHANGED <<run, active, tick>>
  BY DEF Enqueue, CancelRead, RetryRead, ClearRead, CallStep, RetryWrite, ClearFilter,
         ClearRemove, ClearDelete
<1> QED
  BY <1>1, <1>2

LEMMA TickSlots ==
    ASSUME TypeInv, TickStart \/ TickStep \/ TickThrows, \A r \in Runs : ~TickLaunch(r)
    PROVE  SlotsAlone
<1>a. tick \in TickRecord
  BY DEF TypeInv, TypeOK
<1>1. CASE TickStart \/ RecoverRead \/ RecoverDone \/ SweepList
  <2>1. UNCHANGED <<run, active>> /\ tick'.pc \notin {"claim", "launch"}
    BY <1>1, <1>a DEF TickStart, TickBoot, TickPoll, TickSweep, RecoverRead, RecoverDone,
       SweepList, IdleTick, TickRecord, tickOnly
  <2> QED
    BY <2>1 DEF SlotsAlone, Claiming
<1>2. CASE SweepQuery \/ SweepMeasure \/ EvictMark \/ EvictDone
  <2>1. UNCHANGED <<run, active>> /\ tick'.pc \notin {"claim", "launch"}
    BY <1>2, <1>a DEF SweepQuery, SweepMeasure, EvictMark, EvictDone, IdleTick,
       TickRecord, tickOnly
  <2> QED
    BY <2>1 DEF SlotsAlone, Claiming
<1>3. ASSUME NEW j \in Jobs, RecoverWrite(j) \/ SweepRemove(j) \/ EvictRemove(j)
      PROVE  SlotsAlone
  <2>1. UNCHANGED <<run, active>> /\ tick'.pc \notin {"claim", "launch"}
    BY <1>3, <1>a DEF RecoverWrite, SweepRemove, EvictRemove, TickRecord
  <2> QED
    BY <2>1 DEF SlotsAlone, Claiming
<1>4. CASE TickFind
  <2>1. /\ UNCHANGED <<run, active>>
        /\ (SlotFree /\ tick'.job \in Jobs) \/ tick' = IdleTick
    BY <1>4, FindFacts, FoundFacts DEF tickOnly
  <2>2. tick' = IdleTick => ~Claiming'
    BY IdleRecords DEF Claiming
  <2> QED
    BY <2>1, <2>2 DEF SlotsAlone
<1>5. CASE TickClaim
  BY <1>5, <1>a, IdleRecords DEF TickClaim, SlotsAlone, Claiming, TickRecord, IdleTick
<1>6. CASE TickThrows
  BY <1>6, IdleRecords DEF TickThrows, SlotsAlone, Claiming
<1> QED
  BY <1>1, <1>2, <1>3, <1>4, <1>5, <1>6 DEF TickStep

LEMMA RunSlots ==
    ASSUME TypeInv, NEW r \in Runs,
           RunStep(r) \/ RunAnswerLost(r) \/ RunCompleteThrows(r) \/ RunVerdictThrows(r),
           ~RunSettle(r)
    PROVE  SlotsAlone
<1>a. run[r] \in RunRecord /\ run \in [Runs -> RunRecord]
  BY DEF TypeInv, TypeOK
<1>1. CASE RunLoad(r) \/ RunDownload(r) \/ RunDeliver(r) \/ RunAnswered(r)
           \/ RunComplete(r) \/ RunWriteVerdict(r)
  <2>1. /\ run[r].pc # "idle" /\ UNCHANGED <<active, tick>>
        /\ \E pc \in RunPcs \ {"idle"} : run' = [run EXCEPT ![r] = RunAt(run[r], pc)]
    BY <1>1 DEF RunLoad, RunDownload, RunDeliver, RunAnswered, RunComplete,
                RunWriteVerdict, Goto, RunPcs, Transferring
  <2>2. \A pc \in RunPcs : RunAt(run[r], pc).pc = pc /\ RunAt(run[r], pc).job = run[r].job
    BY <1>a, RunAtFacts
  <2> QED
    BY <2>1, <2>2, <1>a, RunSlotsAlone
<1>2. CASE RunFail(r) \/ RunTooLarge(r) \/ RunAnswerLost(r) \/ RunCompleteThrows(r)
  <2>1. run[r].pc # "idle" /\ \E v \in Verdicts : Caught(r, v)
    BY <1>2, VerdictFacts DEF RunFail, RunTooLarge, RunAnswerLost, RunCompleteThrows, Verdicts
  <2>2. \A v \in Verdicts : /\ RunCaught(run[r], v).pc = "caught"
                            /\ RunCaught(run[r], v).job = run[r].job
    BY <1>a, RunCaughtFacts
  <2> QED
    BY <2>1, <2>2, <1>a, RunSlotsAlone DEF Caught
<1>3. CASE RunRowGone(r) \/ RunVerdictThrows(r)
  <2>1. run[r].pc # "idle" /\ VerdictLost(r)
    BY <1>3 DEF RunRowGone, RunVerdictThrows, VerdictLost
  <2>2. RunLogging(run[r]).pc = "logging" /\ RunLogging(run[r]).job = run[r].job
    BY <1>a, RunLoggingFacts
  <2> QED
    BY <2>1, <2>2, <1>a, RunSlotsAlone DEF VerdictLost
<1>4. CASE RunCleanup(r)
  <2>1. SettlingRun(run[r].job).pc = "settle" /\ SettlingRun(run[r].job).job = run[r].job
    BY <1>a, SettlingRunFacts, RunFields
  <2> QED
    BY <1>4, <2>1, <1>a, RunSlotsAlone DEF RunCleanup
<1> QED
  BY <1>1, <1>2, <1>3, <1>4 DEF RunStep

\* Only a launch, a settling run and a crash change the map.
LEMMA SlotSteps ==
    ASSUME TypeInv, [Next]_vars
    PROVE  \/ SlotsAlone
           \/ \E r \in Runs : TickLaunch(r) \/ RunSettle(r)
           \/ Crash
<1>1. CASE UNCHANGED vars
  BY <1>1 DEF vars, SlotsAlone, Claiming
<1> QED
  BY <1>1, CallSlots, TickSlots, RunSlots DEF Next
-----------------------------------------------------------------------------
(***************************************************************************)
(* ActiveBound, for every limit: a claim under way has a slot left for it. *)
(***************************************************************************)
ActiveInv == ActiveBound /\ (Claiming => SlotFree)

LEMMA JobsFinite == IsFiniteSet(Jobs)
  BY BoundsAssumption, FS_Interval DEF Jobs

LEMMA ActiveFinite == IsFiniteSet(ActiveJobs) /\ Cardinality(ActiveJobs) \in Nat
<1>1. ActiveJobs \subseteq Jobs
  BY DEF ActiveJobs
<1> QED
  BY <1>1, JobsFinite, FS_Subset, FS_CardinalityType

LEMMA ActiveInit == Init => ActiveInv
<1> SUFFICES ASSUME Init PROVE ActiveInv
  OBVIOUS
<1>1. ActiveJobs = {}
  BY DEF Init, ActiveJobs
<1>2. ~Claiming
  BY IdleRecords DEF Init, Claiming
<1> QED
  BY <1>1, <1>2, FS_EmptySet, BoundsAssumption DEF ActiveInv, ActiveBound

LEMMA ActiveNext == TypeInv /\ ActiveInv /\ [Next]_vars => ActiveInv'
<1> SUFFICES ASSUME TypeInv, ActiveInv, [Next]_vars PROVE ActiveInv'
  OBVIOUS
<1> USE BoundsAssumption
<1>1. CASE SlotsAlone
  <2>1. ActiveJobs' = ActiveJobs
    BY <1>1 DEF SlotsAlone, ActiveJobs
  <2> QED
    BY <1>1, <2>1 DEF SlotsAlone, ActiveInv, ActiveBound, SlotFree
<1>2. ASSUME NEW r \in Runs, TickLaunch(r) PROVE ActiveInv'
  <2>1. Cardinality(ActiveJobs) < MaxConcurrent
    BY <1>2 DEF TickLaunch, ActiveInv, SlotFree, Claiming
  <2>2. ActiveJobs' \subseteq ActiveJobs \cup {tick.job}
    BY <1>2 DEF TickLaunch, Register, ActiveJobs, TypeInv, TypeOK
  <2>3. /\ IsFiniteSet(ActiveJobs \cup {tick.job})
        /\ Cardinality(ActiveJobs \cup {tick.job}) <= Cardinality(ActiveJobs) + 1
        /\ Cardinality(ActiveJobs \cup {tick.job}) \in Nat
    <3>1. Cardinality(ActiveJobs \cup {tick.job}) =
            IF tick.job \in ActiveJobs THEN Cardinality(ActiveJobs)
                                       ELSE Cardinality(ActiveJobs) + 1
      BY ActiveFinite, FS_AddElement
    <3>2. IsFiniteSet(ActiveJobs \cup {tick.job})
      BY ActiveFinite, FS_AddElement
    <3> QED
      BY <3>1, <3>2, ActiveFinite
  <2>4. /\ Cardinality(ActiveJobs') <= Cardinality(ActiveJobs \cup {tick.job})
        /\ Cardinality(ActiveJobs') \in Nat
    BY <2>2, <2>3, FS_Subset, FS_CardinalityType
  <2>5. ~Claiming'
    BY <1>2 DEF TickLaunch, IdleTick, Claiming
  <2> QED
    BY <2>1, <2>3, <2>4, <2>5, ActiveFinite DEF ActiveInv, ActiveBound
<1>3. ASSUME NEW r \in Runs, RunSettle(r) PROVE ActiveInv'
  <2>1. ActiveJobs' \subseteq ActiveJobs /\ (Claiming' <=> Claiming)
    BY <1>3 DEF RunSettle, ActiveJobs, Claiming, TypeInv, TypeOK
  <2>2. Cardinality(ActiveJobs') <= Cardinality(ActiveJobs) /\ Cardinality(ActiveJobs') \in Nat
    BY <2>1, ActiveFinite, FS_Subset, FS_CardinalityType
  <2> QED
    BY <2>1, <2>2, ActiveFinite DEF ActiveInv, ActiveBound, SlotFree
<1>4. CASE Crash
  <2>1. ActiveJobs' = {} /\ ~Claiming'
    BY <1>4, IdleRecords DEF Crash, ActiveJobs, Claiming
  <2> QED
    BY <2>1, FS_EmptySet DEF ActiveInv, ActiveBound
<1> QED
  BY <1>1, <1>2, <1>3, <1>4, SlotSteps

\* The worker's map never holds more transfers than the configured limit, for every
\* limit and however claims, endings and restarts interleave.
THEOREM ActiveBounded == Spec => []ActiveBound
<1>1. ActiveInv => ActiveBound
  BY DEF ActiveInv
<1> QED
  BY <1>1, InitType, NextType, ActiveInit, ActiveNext, PTL DEF Spec

-----------------------------------------------------------------------------
(***************************************************************************)
(* A single slot.                                                          *)
(***************************************************************************)
\* Every invocation of runJob is the one its job maps to, only one job is mapped,
\* and none is while a claim is under way.
SlotInv ==
    /\ \A r \in Runs : run[r].pc # "idle" =>
           run[r].job \in Jobs /\ active[run[r].job] = r
    /\ \A i, j \in ActiveJobs : i = j
    /\ Claiming => ActiveJobs = {} /\ tick.job \in Jobs

LEMMA SlotInit == Init => SlotInv
<1> SUFFICES ASSUME Init PROVE SlotInv
  OBVIOUS
<1>1. ActiveJobs = {} /\ \A r \in Runs : run[r].pc = "idle"
  BY IdleRecords DEF Init, ActiveJobs
<1>2. ~Claiming
  BY IdleRecords DEF Init, Claiming
<1> QED
  BY <1>1, <1>2 DEF SlotInv

LEMMA OneSlotFree ==
    ASSUME MaxConcurrent = 1, SlotFree
    PROVE  ActiveJobs = {}
<1>1. Cardinality(ActiveJobs) = 0
  BY ActiveFinite DEF SlotFree
<1> QED
  BY <1>1, ActiveFinite, FS_EmptySet

LEMMA SlotNext ==
    ASSUME MaxConcurrent = 1
    PROVE  TypeInv /\ SlotInv /\ [Next]_vars => SlotInv'
<1> SUFFICES ASSUME TypeInv, SlotInv, [Next]_vars PROVE SlotInv'
  OBVIOUS
<1>1. CASE SlotsAlone
  <2>1. ActiveJobs' = ActiveJobs
    BY <1>1 DEF SlotsAlone, ActiveJobs
  <2> QED
    BY <1>1, <2>1, OneSlotFree DEF SlotsAlone, SlotInv
<1>2. ASSUME NEW r \in Runs, TickLaunch(r) PROVE SlotInv'
  <2>1. ActiveJobs = {} /\ tick.job \in Jobs /\ tick \in TickRecord
    BY <1>2 DEF TickLaunch, SlotInv, Claiming, TypeInv, TypeOK
  <2>2. \A q \in Runs : run[q].pc = "idle"
    BY <2>1, NoneAssumption DEF SlotInv, ActiveJobs
  <2>3. /\ StartedRun(tick.job, tick.attempts).job = tick.job
        /\ tick.attempts \in Nat
    BY <2>1, TickFields, StartedRunFacts
  <2>4. /\ active' = [active EXCEPT ![tick.job] = r]
        /\ run' = [run EXCEPT ![r] = StartedRun(tick.job, tick.attempts)]
        /\ ~Claiming'
    BY <1>2 DEF TickLaunch, Register, IdleTick, Claiming
  <2>5. ActiveJobs' \subseteq {tick.job}
    BY <2>1, <2>4 DEF ActiveJobs, TypeInv, TypeOK
  <2>6. \A q \in Runs : run'[q].pc # "idle" => run'[q].job \in Jobs /\ active'[run'[q].job] = q
    BY <2>1, <2>2, <2>3, <2>4 DEF TypeInv, TypeOK
  <2> QED
    BY <2>4, <2>5, <2>6 DEF SlotInv
<1>3. ASSUME NEW r \in Runs, RunSettle(r) PROVE SlotInv'
  <2>1. /\ run[r].pc = "settle"
        /\ active' = [active EXCEPT ![run[r].job] = None]
        /\ run' = [run EXCEPT ![r] = IdleRun] /\ tick' = tick
    BY <1>3 DEF RunSettle
  <2>2. ActiveJobs' \subseteq ActiveJobs /\ (Claiming' <=> Claiming)
    BY <2>1 DEF ActiveJobs, Claiming, TypeInv, TypeOK
  <2>3. \A q \in Runs : run'[q].pc # "idle" => run'[q] = run[q] /\ q # r
    BY <2>1, IdleRecords DEF TypeInv, TypeOK
  <2>4. \A q \in Runs : run'[q].pc # "idle" => run'[q].job \in Jobs /\ active'[run'[q].job] = q
    BY <2>1, <2>3 DEF SlotInv, TypeInv, TypeOK
  <2> QED
    BY <2>1, <2>2, <2>4 DEF SlotInv
<1>4. CASE Crash
  <2>1. ActiveJobs' = {} /\ ~Claiming' /\ \A r \in Runs : run'[r].pc = "idle"
    BY <1>4, IdleRecords DEF Crash, ActiveJobs, Claiming
  <2> QED
    BY <2>1 DEF SlotInv
<1> QED
  BY <1>1, <1>2, <1>3, <1>4, SlotSteps

\* With a single slot the map tells the truth, so a cancel reaches the transfer it
\* is meant for.
THEOREM SingleSlotTracked ==
    ASSUME MaxConcurrent = 1
    PROVE  Spec => []Tracked
<1>1. SlotInv => Tracked
  BY DEF SlotInv, Tracked, TransferringRuns, Transferring
<1> QED
  BY <1>1, InitType, NextType, SlotInit, SlotNext, PTL DEF Spec

\* With a single slot no more than one transfer ever runs, so the limit bounds the
\* transfers as well as the map.
THEOREM SingleSlotLimit ==
    ASSUME MaxConcurrent = 1
    PROVE  Spec => []TransferLimit
<1>1. SlotInv => TransferLimit
  <2> SUFFICES ASSUME SlotInv PROVE TransferLimit
    OBVIOUS
  <2>1. \A q, r \in TransferringRuns : q = r
    BY NoneAssumption DEF SlotInv, ActiveJobs, TransferringRuns, Transferring
  <2>2. CASE TransferringRuns = {}
    BY <2>2, FS_EmptySet DEF TransferLimit
  <2>3. CASE TransferringRuns # {}
    <3>1. PICK r : TransferringRuns = {r}
      BY <2>1, <2>3
    <3>2. Cardinality({r}) = 1
      BY FS_Singleton
    <3> QED
      BY <3>1, <3>2 DEF TransferLimit
  <2> QED
    BY <2>2, <2>3
<1> QED
  BY <1>1, InitType, NextType, SlotInit, SlotNext, PTL DEF Spec
-----------------------------------------------------------------------------
(***************************************************************************)
(* With a single slot, and as long as nobody clears the list, a transfer   *)
(* keeps its spool.                                                        *)
(***************************************************************************)
Holding == {r \in Runs : run[r].pc \in {"download", "upload"}}

SpoolInv ==
    /\ \A r \in Holding : disk[run[r].job] # "absent"
    /\ tick.pc \in {"evict", "evictMark"} => tick.evictable \cap ActiveJobs = {}
    /\ \A c \in Callers : call[c].pc \notin {"clearFilter", "clearRemove"}

LEMMA SpoolInit == Init => SpoolInv
<1> SUFFICES ASSUME Init PROVE SpoolInv
  OBVIOUS
<1>1. /\ \A r \in Runs : run[r].pc = "idle"
      /\ tick.pc = "idle" /\ \A c \in Callers : call[c].pc = "idle"
  BY IdleRecords DEF Init
<1> QED
  BY <1>1 DEF SpoolInv, Holding

LEMMA SpoolCall ==
    ASSUME TypeInv, SpoolInv, "clear" \notin Ops,
           \/ \E j \in Jobs : Enqueue(j)
           \/ \E c \in Callers, j \in Jobs : CancelRead(c, j) \/ RetryRead(c, j)
           \/ \E c \in Callers : ClearRead(c) \/ CallStep(c)
    PROVE  SpoolInv'
<1>1. \A c \in Callers : ~ClearRead(c) /\ ~ClearFilter(c) /\ ~ClearDelete(c)
                         /\ \A j \in Jobs : ~ClearRemove(c, j)
  BY DEF ClearRead, ClearFilter, ClearRemove, ClearDelete, SpoolInv
<1>2. /\ UNCHANGED <<disk, active, tick>>
      /\ \A r \in Runs : run'[r].pc = run[r].pc /\ run'[r].job = run[r].job
  <2>1. CASE \E c \in Callers : CancelAct(c)
    BY <2>1, RunAbortedFacts DEF CancelAct, WorkerCancel, TypeInv, TypeOK
  <2>2. CASE ~\E c \in Callers : CancelAct(c)
    BY <1>1, <2>2 DEF Enqueue, CancelRead, RetryRead, RetryWrite, CallStep
  <2> QED
    BY <2>1, <2>2
<1>3. \A c \in Callers : call'[c].pc \notin {"clearFilter", "clearRemove"}
  <2>1. ASSUME NEW j \in Jobs, Enqueue(j) PROVE <1>3!:
    BY <2>1 DEF Enqueue, SpoolInv
  <2>2. ASSUME NEW c \in Callers, NEW j \in Jobs, CancelRead(c, j) PROVE <1>3!:
    <3>1. Reading("cancel", j, status[j]).pc = "cancel"
      BY ReadingFacts DEF CallPcs, TypeInv, TypeOK
    <3> QED
      BY <2>2, <3>1 DEF CancelRead, SpoolInv, TypeInv, TypeOK
  <2>3. ASSUME NEW c \in Callers, NEW j \in Jobs, RetryRead(c, j) PROVE <1>3!:
    <3>1. Reading("retry", j, status[j]).pc = "retry"
      BY ReadingFacts DEF CallPcs, TypeInv, TypeOK
    <3> QED
      BY <2>3, <3>1 DEF RetryRead, SpoolInv, TypeInv, TypeOK
  <2>4. ASSUME NEW c \in Callers, CancelAct(c) \/ RetryWrite(c) PROVE <1>3!:
    BY <2>4, IdleRecords DEF CancelAct, RetryWrite, SpoolInv, TypeInv, TypeOK
  <2> QED
    BY <1>1, <2>1, <2>2, <2>3, <2>4 DEF CallStep
<1> QED
  BY <1>2, <1>3 DEF SpoolInv, Holding, ActiveJobs

LEMMA SpoolTick ==
    ASSUME TypeInv, SlotInv, SpoolInv, TickStart \/ TickStep \/ TickThrows
    PROVE  SpoolInv'
<1>a. tick \in TickRecord
  BY DEF TypeInv, TypeOK
<1>b. \A r \in Holding : active[run[r].job] = r
  BY DEF SlotInv, Holding
<1>1. CASE TickStart \/ RecoverRead \/ RecoverDone \/ SweepList \/ SweepQuery
  <2>1. UNCHANGED <<run, disk, call>> /\ tick'.pc \notin {"evict", "evictMark"}
    BY <1>1, <1>a DEF TickStart, TickBoot, TickPoll, TickSweep, RecoverRead, RecoverDone,
       SweepList, SweepQuery, IdleTick, TickRecord, tickOnly
  <2> QED
    BY <2>1 DEF SpoolInv, Holding
<1>2. CASE EvictDone \/ TickFind \/ TickClaim \/ TickThrows
  <2>1. UNCHANGED <<run, disk, call>> /\ tick'.pc \notin {"evict", "evictMark"}
    <3>1. CASE EvictDone
      BY <3>1 DEF EvictDone, IdleTick, tickOnly
    <3>4. CASE TickFind
      BY <3>4, IdleRecords, FindFacts, FoundFacts DEF tickOnly
    <3>2. CASE TickClaim
      BY <1>a, <3>2 DEF TickClaim, IdleTick, TickRecord
    <3>3. CASE TickThrows
      BY <3>3, IdleRecords DEF TickThrows
    <3> QED
      BY <1>2, <3>1, <3>2, <3>3, <3>4
  <2> QED
    BY <2>1 DEF SpoolInv, Holding
<1>3. ASSUME NEW j \in Jobs, RecoverWrite(j) PROVE SpoolInv'
  <2>1. UNCHANGED <<run, disk, call>> /\ tick'.pc \notin {"evict", "evictMark"}
    BY <1>3, <1>a DEF RecoverWrite, TickRecord
  <2> QED
    BY <2>1 DEF SpoolInv, Holding
<1>4. CASE SweepMeasure
  BY <1>4, <1>a DEF SweepMeasure, TickRecord, tickOnly, SpoolInv, Holding, ActiveJobs
<1>5. CASE EvictMark
  BY <1>5, <1>a DEF EvictMark, TickRecord, SpoolInv, Holding, ActiveJobs
<1>6. ASSUME NEW j \in Jobs, SweepRemove(j) PROVE SpoolInv'
  <2>1. /\ UNCHANGED <<run, call>> /\ tick'.pc = "sweepRemove"
        /\ disk' = [disk EXCEPT ![j] = IF active[j] # None THEN @ ELSE "absent"]
    BY <1>6, <1>a DEF SweepRemove, SweepSpares, TickRecord
  <2> QED
    BY <1>b, <2>1, NoneAssumption DEF SpoolInv, Holding, TypeInv, TypeOK
<1>7. ASSUME NEW j \in Jobs, EvictRemove(j) PROVE SpoolInv'
  <2>1. /\ UNCHANGED <<run, call, active>> /\ tick'.evictable = tick.evictable \ {j}
        /\ disk' = [disk EXCEPT ![j] = "absent"]
        /\ tick.pc = "evict" /\ j \in tick.evictable
    BY <1>7, <1>a DEF EvictRemove, TickRecord
  <2>2. j \notin ActiveJobs
    BY <2>1 DEF SpoolInv
  <2>3. \A r \in Holding : run[r].job # j
    BY <1>b, <2>2, NoneAssumption DEF ActiveJobs, Holding
  <2> QED
    BY <2>1, <2>3 DEF SpoolInv, Holding, TypeInv, TypeOK, ActiveJobs
<1>8. ASSUME NEW r \in Runs, TickLaunch(r) PROVE SpoolInv'
  <2>1. StartedRun(tick.job, tick.attempts).pc = "load"
    BY <1>a, TickFields, StartedRunFacts
  <2>2. /\ UNCHANGED <<disk, call>> /\ tick'.pc = "find"
        /\ run' = [run EXCEPT ![r] = StartedRun(tick.job, tick.attempts)]
    BY <1>8 DEF TickLaunch, IdleTick
  <2>3. \A q \in Holding' : q \in Holding /\ run'[q] = run[q]
    BY <2>1, <2>2 DEF Holding, TypeInv, TypeOK
  <2> QED
    BY <2>2, <2>3 DEF SpoolInv
<1> QED
  BY <1>1, <1>2, <1>3, <1>4, <1>5, <1>6, <1>7, <1>8 DEF TickStep

\* What a step of run r leaves to show when it takes nothing from the others' spools.
LEMMA SpoolKept ==
    ASSUME TypeInv, SpoolInv, NEW r \in Runs, UNCHANGED <<tick, call>>,
           ActiveJobs' \subseteq ActiveJobs,
           \A q \in Runs \ {r} : run'[q] = run[q],
           \A q \in Holding \ {r} : disk[run[q].job] # "absent" => disk'[run[q].job] # "absent",
           r \in Holding' => disk'[run'[r].job] # "absent"
    PROVE  SpoolInv'
<1>1. \A q \in Holding' : disk'[run'[q].job] # "absent"
  BY DEF SpoolInv, Holding
<1> QED
  BY <1>1 DEF SpoolInv

LEMMA SpoolRun ==
    ASSUME TypeInv, SlotInv, SpoolInv, NEW r \in Runs,
           RunStep(r) \/ RunAnswerLost(r) \/ RunCompleteThrows(r) \/ RunVerdictThrows(r)
    PROVE  SpoolInv'
<1>a. run[r] \in RunRecord /\ run \in [Runs -> RunRecord]
      /\ disk \in [Jobs -> {"absent", "partial", "full"}]
  BY DEF TypeInv, TypeOK
<1>b. \A pc \in RunPcs : RunAt(run[r], pc).pc = pc /\ RunAt(run[r], pc).job = run[r].job
  BY <1>a, RunAtFacts
<1>c. run[r].pc # "idle" => run[r].job \in Jobs
  BY DEF SlotInv
<1>1. CASE RunLoad(r) \/ RunDownload(r)
  <2>1. /\ UNCHANGED <<tick, call, active>> /\ run[r].pc # "idle"
        /\ \E pc \in RunPcs : run' = [run EXCEPT ![r] = RunAt(run[r], pc)]
        /\ \E d \in {"partial", "full"} : disk' = [disk EXCEPT ![run[r].job] = d]
    <3>1. CASE RunLoad(r)
      <4> DEFINE d == IF disk[run[r].job] = "absent" THEN "partial" ELSE disk[run[r].job]
      <4>1. d \in {"partial", "full"}
        BY <1>a, <1>c, <3>1 DEF RunLoad
      <4> QED
        BY <3>1, <4>1 DEF RunLoad, Goto, RunPcs, Transferring
    <3>2. CASE RunDownload(r)
      BY <3>2 DEF RunDownload, Goto, RunPcs, Transferring
    <3> QED
      BY <1>1, <3>1, <3>2
  <2>2. ActiveJobs' = ActiveJobs
    BY <2>1 DEF ActiveJobs
  <2>3. run'[r].job = run[r].job /\ disk'[run[r].job] # "absent"
    BY <1>a, <1>b, <1>c, <2>1
  <2>4. \A j \in Jobs : disk[j] # "absent" => disk'[j] # "absent"
    BY <1>a, <2>1
  <2>5. \A q \in Holding : run[q].job \in Jobs
    BY DEF SlotInv, Holding
  <2>6. \A q \in Runs \ {r} : run'[q] = run[q]
    BY <1>a, <2>1
  <2> QED
    BY <2>1, <2>2, <2>3, <2>4, <2>5, <2>6, SpoolKept
<1>2. CASE RunDeliver(r) \/ RunAnswered(r) \/ RunComplete(r) \/ RunWriteVerdict(r)
  <2>1. /\ UNCHANGED <<tick, call, active, disk>>
        /\ \E pc \in RunPcs \ {"download", "upload"} :
              run' = [run EXCEPT ![r] = RunAt(run[r], pc)]
    BY <1>2 DEF RunDeliver, RunAnswered, RunComplete, RunWriteVerdict, Goto, RunPcs, Transferring
  <2>2. ActiveJobs' = ActiveJobs /\ r \notin Holding'
    BY <1>a, <1>b, <2>1 DEF ActiveJobs, Holding
  <2> QED
    BY <1>a, <2>1, <2>2, SpoolKept
<1>3. CASE RunFail(r) \/ RunTooLarge(r) \/ RunAnswerLost(r) \/ RunCompleteThrows(r)
  <2>1. \E v \in Verdicts : Caught(r, v)
    BY <1>3, VerdictFacts DEF RunFail, RunTooLarge, RunAnswerLost, RunCompleteThrows, Verdicts
  <2>2. \A v \in Verdicts : RunCaught(run[r], v).pc = "caught"
    BY <1>a, RunCaughtFacts
  <2>3. ActiveJobs' = ActiveJobs /\ r \notin Holding'
    BY <1>a, <2>1, <2>2 DEF ActiveJobs, Holding, Caught
  <2> QED
    BY <1>a, <2>1, <2>3, SpoolKept DEF Caught
<1>4. CASE RunRowGone(r) \/ RunVerdictThrows(r)
  <2>1. VerdictLost(r) /\ RunLogging(run[r]).pc = "logging"
    BY <1>4, <1>a, RunLoggingFacts DEF RunRowGone, RunVerdictThrows
  <2>2. ActiveJobs' = ActiveJobs /\ r \notin Holding'
    BY <1>a, <2>1 DEF ActiveJobs, Holding, VerdictLost
  <2> QED
    BY <1>a, <2>1, <2>2, SpoolKept DEF VerdictLost
<1>5. CASE RunCleanup(r)
  <2>1. SettlingRun(run[r].job).pc = "settle"
    BY <1>a, SettlingRunFacts, RunFields
  <2>2. /\ run[r].pc = "logging" /\ UNCHANGED <<tick, call, active>>
        /\ run' = [run EXCEPT ![r] = SettlingRun(run[r].job)]
        /\ \A j \in Jobs \ {run[r].job} : disk'[j] = disk[j]
    BY <1>5, <1>a DEF RunCleanup
  <2>3. \A q \in Holding \ {r} : run[q].job \in Jobs \ {run[r].job}
    BY <2>2 DEF SlotInv, Holding
  <2>4. ActiveJobs' = ActiveJobs /\ r \notin Holding'
    BY <1>a, <2>1, <2>2 DEF ActiveJobs, Holding
  <2> QED
    BY <1>a, <2>2, <2>3, <2>4, SpoolKept
<1>6. CASE RunSettle(r)
  <2>1. /\ UNCHANGED <<tick, call, disk>> /\ run' = [run EXCEPT ![r] = IdleRun]
        /\ active' = [active EXCEPT ![run[r].job] = None]
    BY <1>6 DEF RunSettle
  <2>2. ActiveJobs' \subseteq ActiveJobs /\ r \notin Holding'
    BY <1>a, <2>1, IdleRecords DEF ActiveJobs, Holding, TypeInv, TypeOK
  <2> QED
    BY <1>a, <2>1, <2>2, SpoolKept
<1> QED
  BY <1>1, <1>2, <1>3, <1>4, <1>5, <1>6 DEF RunStep

LEMMA SpoolNext ==
    ASSUME "clear" \notin Ops
    PROVE  TypeInv /\ SlotInv /\ SpoolInv /\ [Next]_vars => SpoolInv'
<1> SUFFICES ASSUME TypeInv, SlotInv, SpoolInv, [Next]_vars PROVE SpoolInv'
  OBVIOUS
<1>1. CASE Crash
  <2>1. /\ \A r \in Runs : run'[r].pc = "idle"
        /\ tick'.pc = "idle" /\ \A c \in Callers : call'[c].pc = "idle"
    BY <1>1, IdleRecords DEF Crash
  <2> QED
    BY <2>1 DEF SpoolInv, Holding
<1>2. CASE UNCHANGED vars
  BY <1>2 DEF vars, SpoolInv, Holding, ActiveJobs
<1> QED
  BY <1>1, <1>2, SpoolCall, SpoolTick, SpoolRun DEF Next

\* With a single slot, and unless the list is cleared meanwhile, no sweep, eviction
\* or cleanup removes the spool of a transfer that is reading or writing it.
THEOREM SingleSlotSpoolHeld ==
    ASSUME MaxConcurrent = 1, "clear" \notin Ops
    PROVE  Spec => []SpoolHeld
<1>1. SpoolInv => SpoolHeld
  BY DEF SpoolInv, SpoolHeld, Holding
<1> QED
  BY <1>1, InitType, NextType, SlotInit, SlotNext, SpoolInit, SpoolNext, PTL DEF Spec

(***************************************************************************)
(* Where nothing is cancelled, the queue with any number of jobs, slots,   *)
(* handlers and faults implements JobLifecycle; a book is stored at most   *)
(* once, and once more for each fault and each late request; and a         *)
(* finished download is kept while it is of use.  Until a request for a    *)
(* row comes late, its transfer has the row to itself.                     *)
(***************************************************************************)
NoCancels == "cancel" \notin Ops

\* Copies are counted.
Counted == MaxCopies > 0

\* No request for the row has come late.
OnTime(j) == late[j] = 0

\* Claimed, and perhaps cleared from under the transfer.
UnderWay(j) == status[j] \in {"running", "deleted"}

\* What is being cleared, or asked for again, has been a row.
HandlersKnown ==
    \A c \in Callers :
        /\ call[c].pc # "cancel"
        /\ \A j \in call[c].ids : status[j] # "absent"
        /\ call[c].pc = "retry" => call[c].job \in Jobs /\ status[call[c].job] # "absent"

Uncanceled(x) == ~x.aborted /\ x.verdict # "canceled"
NothingCanceled == \A r \in Runs : Uncanceled(run[r])

\* A transfer in progress has its job to itself.
OwnJob ==
    /\ \A r \in TransferringRuns :
         /\ run[r].job \in Jobs /\ status[run[r].job] # "absent"
         /\ OnTime(run[r].job) => UnderWay(run[r].job)
    /\ \A q, r \in TransferringRuns :
         run[q].job = run[r].job /\ OnTime(run[r].job) => q = r

\* So has a claim, until its run starts.
ClaimAlone ==
    /\ tick.pc \in {"claim", "launch"} => tick.job \in Jobs
    /\ tick.pc = "launch" => status[tick.job] # "absent"
    /\ tick.pc = "launch" /\ OnTime(tick.job) =>
         UnderWay(tick.job) /\ \A r \in TransferringRuns : run[r].job # tick.job

\* What recovery has read was running, and nobody can have completed it since.
StrandedUnderWay ==
    tick.pc = "recoverWrite" =>
        \A j \in tick.todo : /\ status[j] \notin {"absent", "completed"}
                             /\ OnTime(j) => UnderWay(j)

Delivering == {r \in Runs : run[r].pc \in {"answer", "accepted"}}
DeliveredStored == \A r \in Delivering : copies[run[r].job] > 0

LifeInv ==
    /\ HandlersKnown /\ NothingCanceled /\ OwnJob /\ ClaimAlone /\ StrandedUnderWay
    /\ DeliveredStored

\* What may yet store a copy of a book: a row that is to be transferred, or whose
\* transfer a crash or a refused record has left behind; a claim; and a run that has not
\* stored it or takes it for not stored.
AtWork(j) == {r \in TransferringRuns : run[r].job = j}
Claimed(j) == tick.pc = "launch" /\ tick.job = j
RowOwes(j) ==
    \/ status[j] \in {"absent", "queued", "failed", "canceled"}
    \/ status[j] = "running" /\ AtWork(j) = {} /\ ~Claimed(j)
Fetching(j) ==
    {r \in Runs : /\ run[r].job = j
                  /\ \/ run[r].pc \in {"load", "download", "upload"}
                     \/ run[r].pc = "caught" /\ HasRow(j)}
Owed(j) ==
    (IF RowOwes(j) THEN 1 ELSE 0) + (IF Claimed(j) THEN 1 ELSE 0) + Cardinality(Fetching(j))

CopyInv == \A j \in Jobs : copies[j] + Owed(j) <= 1 + faults + late[j]

\* What is in the spool, and what a sweep has listed, has been a row; what a sweep is about
\* to remove is a row that is done with.
SpooledKnown == \A j \in Jobs : disk[j] # "absent" => status[j] # "absent"
SweepKnown ==
    /\ tick.pc = "sweepQuery" => \A j \in tick.todo : status[j] # "absent"
    /\ tick.pc = "sweepRemove" =>
         \A j \in tick.todo : OnTime(j) => status[j] \in {"completed", "deleted"}
NoneCanceled == \A j \in Jobs : status[j] # "canceled"
KeptInv == SpooledKnown /\ SweepKnown /\ NoneCanceled
-----------------------------------------------------------------------------
(***************************************************************************)
(* LifeInv is an invariant.                                                *)
(***************************************************************************)
LEMMA ClearingIds ==
    ASSUME NEW pc, NEW t, NEW i
    PROVE  Clearing(pc, t, i).pc = pc /\ Clearing(pc, t, i).ids = i
  BY DEF Clearing, IdleCall

LEMMA ReadingRetry ==
    ASSUME NEW j, NEW s
    PROVE  /\ Reading("retry", j, s).pc = "retry" /\ Reading("retry", j, s).job = j
           /\ Reading("retry", j, s).ids = {}
  BY DEF Reading, IdleCall

LEMMA IdleFields == IdleCall.ids = {} /\ IdleTick.todo = {}
  BY DEF IdleCall, IdleTick

\* A late request leaves its mark on the row it writes, and on no other; any other
\* request writes a row that is stopped, or queued already.
LEMMA RetryFacts ==
    ASSUME TypeInv, NEW c \in Callers, RetryWrite(c), call[c].job \in Jobs
    PROVE  LET j == call[c].job IN
           /\ call[c].pc = "retry" /\ call' = [call EXCEPT ![c] = IdleCall]
           /\ UNCHANGED <<disk, copies, active, run, tick, recovered, faults>>
           /\ \A k \in Jobs \ {j} : status'[k] = status[k] /\ late'[k] = late[k]
           /\ status'[j] = IF HasRow(j) THEN "queued" ELSE status[j]
           /\ status[j] \in {"running", "completed"} => late'[j] = late[j] + 1
           /\ status[j] \notin {"running", "completed"} => late'[j] = late[j]
           /\ late'[j] = 0 => late[j] = 0
<1> DEFINE j == call[c].job
<1>1. late \in [Jobs -> Nat] /\ status \in [Jobs -> Statuses]
  BY DEF TypeInv, TypeOK
<1>2. late' = [late EXCEPT ![j] = IF IsLate(j) THEN late[j] + 1 ELSE late[j]]
  BY DEF RetryWrite
<1>3. /\ \A k \in Jobs \ {j} : late'[k] = late[k]
      /\ late'[j] = IF IsLate(j) THEN late[j] + 1 ELSE late[j]
  BY <1>1, <1>2
<1>4. /\ \A k \in Jobs \ {j} : status'[k] = status[k]
      /\ status'[j] = IF HasRow(j) THEN "queued" ELSE status[j]
  BY <1>1 DEF RetryWrite
<1>5. late'[j] = 0 => late[j] = 0
  BY <1>1, <1>3
<1>6. /\ call[c].pc = "retry" /\ call' = [call EXCEPT ![c] = IdleCall]
      /\ UNCHANGED <<disk, copies, active, run, tick, recovered, faults>>
  BY DEF RetryWrite
<1> QED
  BY <1>3, <1>4, <1>5, <1>6 DEF IsLate

\* No step of a run makes it a cancelled one.
LEMMA UncanceledNew ==
    Uncanceled(IdleRun) /\ \A j, n : Uncanceled(StartedRun(j, n)) /\ Uncanceled(SettlingRun(j))
  BY DEF Uncanceled, IdleRun, StartedRun, SettlingRun

LEMMA UncanceledKept ==
    ASSUME NEW x \in RunRecord, Uncanceled(x)
    PROVE  /\ \A pc \in RunPcs : Uncanceled(RunAt(x, pc))
           /\ \A v \in Verdicts \ {"canceled"} : Uncanceled(RunCaught(x, v))
           /\ Uncanceled(RunLogging(x))
  BY DEF Uncanceled, RunRecord, RunAt, RunCaught, RunLogging

LEMMA LifeInit == Init => LifeInv
<1> SUFFICES ASSUME Init PROVE LifeInv
  OBVIOUS
<1>1. \A r \in Runs : run[r].pc = "idle" /\ Uncanceled(run[r])
  BY IdleRecords, UncanceledNew DEF Init
<1>2. tick.pc = "idle" /\ \A c \in Callers : call[c].pc = "idle" /\ call[c].ids = {}
  BY IdleRecords, IdleFields DEF Init
<1> QED
  BY <1>1, <1>2 DEF LifeInv, HandlersKnown, NothingCanceled, OwnJob, ClaimAlone,
     StrandedUnderWay, DeliveredStored, TransferringRuns, Delivering, Transferring

\* A step that changes rows but neither runs nor the tick: whose transfers go on as they
\* were, as long as no row under way becomes another without a late request.
LEMMA LifeRows ==
    ASSUME TypeInv, LifeInv, UNCHANGED <<run, tick, copies>>, HandlersKnown',
           \A k \in Jobs : /\ late'[k] = 0 => late[k] = 0
                           /\ late'[k] = 0 /\ UnderWay(k) => UnderWay(k)'
                           /\ status'[k] \in {"absent", "completed"} => status'[k] = status[k]
    PROVE  LifeInv'
<1>1. tick.todo \subseteq Jobs
  BY TickFields DEF TypeInv, TypeOK
<1>2. NothingCanceled' /\ DeliveredStored'
  BY DEF LifeInv, NothingCanceled, DeliveredStored, Delivering
<1>3. OwnJob'
  BY DEF LifeInv, OwnJob, OnTime, TransferringRuns
<1>4. ClaimAlone'
  BY DEF LifeInv, ClaimAlone, OnTime, TransferringRuns
<1>5. StrandedUnderWay'
  BY <1>1 DEF LifeInv, StrandedUnderWay, OnTime
<1> QED
  BY <1>2, <1>3, <1>4, <1>5 DEF LifeInv

LEMMA LifeCall ==
    ASSUME NoCancels, TypeInv, LifeInv,
           \/ \E j \in Jobs : Enqueue(j)
           \/ \E c \in Callers, j \in Jobs : CancelRead(c, j) \/ RetryRead(c, j)
           \/ \E c \in Callers : ClearRead(c) \/ CallStep(c)
    PROVE  LifeInv'
<1>a. /\ status \in [Jobs -> Statuses] /\ call \in [Callers -> CallRecord]
      /\ late \in [Jobs -> Nat]
  BY DEF TypeInv, TypeOK
<1>b. \A c \in Callers : call[c].ids \subseteq Jobs
  BY <1>a, CallFields
<1>1. ASSUME NEW j \in Jobs, Enqueue(j) PROVE LifeInv'
  <2>1. status[j] = "absent" /\ status' = [status EXCEPT ![j] = "queued"]
    BY <1>1 DEF Enqueue
  <2>2. UNCHANGED <<run, tick, call, copies, late>>
    BY <1>1 DEF Enqueue
  <2>3. HandlersKnown'
    BY <1>a, <1>b, <2>1, <2>2 DEF LifeInv, HandlersKnown
  <2> QED
    BY <1>a, <2>1, <2>2, <2>3, LifeRows DEF UnderWay
<1>2. ASSUME NEW c \in Callers, ClearRead(c) \/ ClearFilter(c) PROVE LifeInv'
  <2>1. /\ UNCHANGED <<status, run, tick, copies, late>>
        /\ \E pc \in {"clearFilter", "clearRemove"}, todo \in SUBSET Jobs, ids \in SUBSET Jobs :
             /\ \A j \in ids : status[j] # "absent"
             /\ call' = [call EXCEPT ![c] = Clearing(pc, todo, ids)]
    <3>1. CASE ClearRead(c)
      <4> DEFINE F == {j \in Jobs : status[j] \in Finished}
      <4>1. F \in SUBSET Jobs /\ {} \in SUBSET Jobs /\ \A j \in F : status[j] # "absent"
        BY DEF Finished
      <4>2. call' = [call EXCEPT ![c] = Clearing("clearFilter", {}, F)]
        BY <3>1 DEF ClearRead
      <4> HIDE DEF F
      <4> QED
        BY <3>1, <4>1, <4>2 DEF ClearRead, rowVars
    <3>2. CASE ClearFilter(c)
      <4> DEFINE F == call[c].ids \ ActiveJobs
      <4>1. F \in SUBSET Jobs /\ \A j \in F : status[j] # "absent"
        BY <1>b DEF LifeInv, HandlersKnown
      <4>2. call' = [call EXCEPT ![c] = Clearing("clearRemove", F, F)]
        BY <3>2 DEF ClearFilter
      <4> HIDE DEF F
      <4> QED
        BY <3>2, <4>1, <4>2 DEF ClearFilter, rowVars
    <3> QED
      BY <1>2, <3>1, <3>2
  <2>2. HandlersKnown'
    BY <1>a, <2>1, ClearingIds DEF LifeInv, HandlersKnown
  <2> QED
    BY <2>1, <2>2, LifeRows DEF UnderWay
<1>3. ASSUME NEW c \in Callers, NEW j \in Jobs, ClearRemove(c, j) PROVE LifeInv'
  <2>1. /\ UNCHANGED <<status, run, tick, copies, late>>
        /\ call' = [call EXCEPT ![c] = Clearing("clearRemove", call[c].todo \ {j}, call[c].ids)]
    BY <1>3 DEF ClearRemove, rowVars
  <2>2. HandlersKnown'
    BY <1>a, <2>1, ClearingIds DEF LifeInv, HandlersKnown
  <2> QED
    BY <2>1, <2>2, LifeRows DEF UnderWay
<1>4. ASSUME NEW c \in Callers, ClearDelete(c) PROVE LifeInv'
  <2>1. /\ UNCHANGED <<run, tick, copies, late>> /\ call' = [call EXCEPT ![c] = IdleCall]
        /\ status' = [j \in Jobs |-> IF j \in call[c].ids THEN "deleted" ELSE status[j]]
    BY <1>4 DEF ClearDelete
  <2>2. HandlersKnown'
    BY <1>a, <1>b, <2>1, IdleRecords, IdleFields DEF LifeInv, HandlersKnown
  <2> QED
    BY <2>1, <2>2, LifeRows DEF UnderWay
<1>5. ASSUME NEW c \in Callers, NEW j \in Jobs, RetryRead(c, j) PROVE LifeInv'
  <2>1. /\ UNCHANGED <<status, run, tick, copies, late>> /\ status[j] # "absent"
        /\ call' = [call EXCEPT ![c] = Reading("retry", j, status[j])]
    BY <1>5 DEF RetryRead, rowVars
  <2>2. HandlersKnown'
    BY <1>a, <2>1, ReadingRetry DEF LifeInv, HandlersKnown
  <2> QED
    BY <2>1, <2>2, LifeRows DEF UnderWay
<1>6. ASSUME NEW c \in Callers, RetryWrite(c) PROVE LifeInv'
  <2> DEFINE j == call[c].job
  <2>1. j \in Jobs /\ status[j] # "absent"
    BY <1>6 DEF RetryWrite, LifeInv, HandlersKnown
  <2>2. /\ UNCHANGED <<run, tick, copies>> /\ call' = [call EXCEPT ![c] = IdleCall]
        /\ \A k \in Jobs \ {j} : status'[k] = status[k] /\ late'[k] = late[k]
        /\ status'[j] = IF HasRow(j) THEN "queued" ELSE status[j]
        /\ status[j] \in {"running", "completed"} => late'[j] = late[j] + 1
        /\ late'[j] = 0 => late[j] = 0
    BY <1>6, <2>1, RetryFacts
  <2> HIDE DEF j
  <2>3. HandlersKnown'
    BY <1>a, <1>b, <2>1, <2>2, IdleRecords, IdleFields DEF LifeInv, HandlersKnown
  <2>4. late'[j] = 0 => status[j] # "running"
    BY <1>a, <2>1, <2>2
  <2>5. \A k \in Jobs : /\ late'[k] = 0 => late[k] = 0
                        /\ late'[k] = 0 /\ UnderWay(k) => UnderWay(k)'
                        /\ status'[k] \in {"absent", "completed"} => status'[k] = status[k]
    BY <2>2, <2>4 DEF UnderWay, HasRow
  <2> QED
    BY <2>2, <2>3, <2>5, LifeRows
<1>7. ASSUME NEW c \in Callers, NEW j \in Jobs, CancelRead(c, j) PROVE FALSE
  BY <1>7 DEF NoCancels, CancelRead
<1>8. ASSUME NEW c \in Callers, CancelAct(c) PROVE FALSE
  BY <1>8 DEF CancelAct, LifeInv, HandlersKnown
<1> QED
  BY <1>1, <1>2, <1>3, <1>4, <1>5, <1>6, <1>7, <1>8 DEF CallStep

\* A step that leaves the rows, the runs, the handlers and the copies alone.
LEMMA LifeQuiet ==
    ASSUME TypeInv, LifeInv, UNCHANGED <<status, run, call, copies, late>>,
           ClaimAlone', StrandedUnderWay'
    PROVE  LifeInv'
  BY DEF LifeInv, HandlersKnown, NothingCanceled, OwnJob, DeliveredStored, TransferringRuns,
         Delivering, UnderWay, OnTime

LEMMA LifeTick ==
    ASSUME TypeInv, AttemptInv, LifeInv, TickStart \/ TickStep \/ TickThrows
    PROVE  LifeInv'
<1>a. /\ tick \in TickRecord /\ run \in [Runs -> RunRecord] /\ status \in [Jobs -> Statuses]
      /\ late \in [Jobs -> Nat]
  BY DEF TypeInv, TypeOK
<1>1. ASSUME UNCHANGED <<status, run, call, copies, late>>,
             tick'.pc \notin {"recoverWrite", "claim", "launch"}
      PROVE  LifeInv'
  BY <1>1, LifeQuiet DEF ClaimAlone, StrandedUnderWay
<1>2. CASE TickStart \/ SweepList \/ SweepQuery \/ SweepMeasure \/ RecoverDone
           \/ EvictMark \/ EvictDone \/ TickThrows
  <2>a. TickStart \/ EvictDone \/ TickThrows
          => tick'.pc \notin {"recoverWrite", "claim", "launch"}
    BY DEF TickStart, TickBoot, TickPoll, TickSweep, EvictDone, TickThrows, IdleTick
  <2>b. SweepList \/ SweepQuery \/ SweepMeasure \/ RecoverDone \/ EvictMark
          => tick'.pc \notin {"recoverWrite", "claim", "launch"}
    BY <1>a DEF SweepList, SweepQuery, SweepMeasure, RecoverDone, EvictMark, TickRecord
  <2>1. tick'.pc \notin {"recoverWrite", "claim", "launch"}
    BY <1>2, <2>a, <2>b
  <2>2. UNCHANGED <<status, run, call, copies, late>>
    BY <1>2 DEF TickStart, TickBoot, TickPoll, TickSweep, SweepList, SweepQuery,
       SweepMeasure, RecoverDone, EvictMark, EvictDone, TickThrows, tickOnly, rowVars
  <2> QED
    BY <1>1, <2>1, <2>2
<1>3. ASSUME NEW j \in Jobs, SweepRemove(j) \/ EvictRemove(j) PROVE LifeInv'
  <2>1. tick'.pc \notin {"recoverWrite", "claim", "launch"}
    BY <1>3, <1>a DEF SweepRemove, EvictRemove, TickRecord
  <2> QED
    BY <1>1, <1>3, <2>1 DEF SweepRemove, EvictRemove, rowVars
<1>4. CASE RecoverRead
  <2> DEFINE S == {j \in Jobs : status[j] = "running"}
  <2>1. UNCHANGED tickOnly /\ tick' = [tick EXCEPT !.pc = "recoverWrite", !.todo = S]
    BY <1>4, Zenon DEF RecoverRead
  <2>2. \A j \in S : status[j] = "running"
    OBVIOUS
  <2> HIDE DEF S
  <2>3. tick'.pc = "recoverWrite" /\ tick'.todo = S
    BY <1>a, <2>1 DEF TickRecord
  <2>4. StrandedUnderWay' /\ ClaimAlone'
    BY <2>1, <2>2, <2>3 DEF StrandedUnderWay, UnderWay, ClaimAlone, tickOnly, rowVars
  <2> QED
    BY <2>1, <2>4, LifeQuiet DEF tickOnly, rowVars
\* No transfer runs yet, whose row could be requeued.
<1>5. ASSUME NEW j \in Jobs, RecoverWrite(j) PROVE LifeInv'
  <2>1. \A r \in Runs : run[r].pc = "idle"
    BY <1>5 DEF RecoverWrite, AttemptInv, RecoversAlone
  <2>2. /\ UNCHANGED <<run, call, copies, late>> /\ status' = [status EXCEPT ![j] = "queued"]
        /\ tick'.pc = "recoverWrite" /\ tick'.todo = tick.todo \ {j}
    BY <1>5, <1>a DEF RecoverWrite, TickRecord
  <2>3. StrandedUnderWay'
    BY <1>5, <1>a, <2>2, TickFields
       DEF RecoverWrite, LifeInv, StrandedUnderWay, UnderWay, OnTime
  <2>4. HandlersKnown'
    BY <1>a, <2>2 DEF LifeInv, HandlersKnown
  <2> QED
    BY <2>1, <2>2, <2>3, <2>4 DEF LifeInv, NothingCanceled, OwnJob, ClaimAlone,
       DeliveredStored, TransferringRuns, Delivering, Transferring
<1>6. CASE TickFind
  <2>1. UNCHANGED tickOnly /\ (tick'.pc = "idle" \/ (tick'.pc = "claim" /\ tick'.job \in Jobs))
    BY <1>6, FindFacts, FoundFacts, IdleRecords
  <2> QED
    BY <2>1, LifeQuiet DEF ClaimAlone, StrandedUnderWay, tickOnly, rowVars
\* A queued row belongs to no transfer.
<1>7. CASE TickClaim
  <2>a. tick.pc = "claim" /\ tick.job \in Jobs
    BY <1>7 DEF TickClaim, LifeInv, ClaimAlone
  <2>1. CASE status[tick.job] = "queued"
    <3>1. /\ UNCHANGED <<run, call, copies, late>>
          /\ status' = [status EXCEPT ![tick.job] = "running"]
          /\ tick'.pc = "launch" /\ tick'.job = tick.job
      BY <1>7, <1>a, <2>1 DEF TickClaim, TickRecord
    <3>2. \A k \in Jobs : UnderWay(k) => UnderWay(k)'
      BY <1>a, <2>a, <3>1 DEF UnderWay
    <3>3. OnTime(tick.job) => \A r \in TransferringRuns : run[r].job # tick.job
      BY <2>1 DEF LifeInv, OwnJob, UnderWay
    <3>4. ClaimAlone'
      BY <1>a, <2>a, <3>1, <3>3 DEF ClaimAlone, UnderWay, TransferringRuns, OnTime
    <3>5. OwnJob' /\ DeliveredStored' /\ NothingCanceled' /\ StrandedUnderWay'
      BY <3>1, <3>2 DEF LifeInv, OwnJob, DeliveredStored, NothingCanceled, StrandedUnderWay,
         TransferringRuns, Delivering, OnTime
    <3>6. HandlersKnown'
      BY <1>a, <3>1 DEF LifeInv, HandlersKnown
    <3> QED
      BY <3>4, <3>5, <3>6 DEF LifeInv
  <2>2. CASE status[tick.job] # "queued"
    <3>1. UNCHANGED <<status, run, call, copies, late>> /\ tick'.pc = "find"
      BY <1>7, <2>2 DEF TickClaim, IdleTick
    <3> QED
      BY <1>1, <3>1
  <2> QED
    BY <2>1, <2>2
\* What was claimed alone is transferred alone.
<1>8. ASSUME NEW r \in Runs, TickLaunch(r) PROVE LifeInv'
  <2>a. /\ tick.job \in Jobs /\ tick.attempts \in Nat /\ status[tick.job] # "absent"
        /\ OnTime(tick.job) => /\ UnderWay(tick.job)
                               /\ \A q \in TransferringRuns : run[q].job # tick.job
    BY <1>8, <1>a, TickFields DEF TickLaunch, LifeInv, ClaimAlone
  <2>1. /\ run'[r].pc = "load" /\ run'[r].job = tick.job /\ Uncanceled(run'[r])
        /\ \A q \in Runs \ {r} : run'[q] = run[q]
    BY <1>8, <1>a, <2>a, StartedRunFacts, UncanceledNew DEF TickLaunch
  <2>2. UNCHANGED <<status, call, copies, late>> /\ tick'.pc = "find"
    BY <1>8 DEF TickLaunch, IdleTick, rowVars
  <2>3. OwnJob'
    BY <2>a, <2>1, <2>2 DEF LifeInv, OwnJob, UnderWay, TransferringRuns, OnTime
  <2> QED
    BY <2>1, <2>2, <2>3 DEF LifeInv, HandlersKnown, NothingCanceled, ClaimAlone,
       StrandedUnderWay, DeliveredStored, Delivering
<1> QED
  BY <1>2, <1>3, <1>4, <1>5, <1>6, <1>7, <1>8 DEF TickStep

\* A step of one run, which goes on with the same job or stops transferring: as long as
\* the rows of the other transfers stay, and its own until it has stopped.
LEMMA LifeOneRun ==
    ASSUME TypeInv, LifeInv, NEW r \in TransferringRuns, UNCHANGED <<tick, call, late>>,
           tick.pc # "recoverWrite",
           \A q \in Runs \ {r} : run'[q] = run[q],
           Uncanceled(run'[r]), run'[r].job = run[r].job,
           \A j \in Jobs : status[j] # "absent" => status'[j] # "absent",
           \A j \in Jobs : status'[j] # status[j] => j = run[r].job /\ r \notin TransferringRuns',
           \A j \in Jobs : copies[j] > 0 => copies'[j] > 0,
           r \in Delivering' => copies'[run[r].job] > 0
    PROVE  LifeInv'
<1>1. HandlersKnown'
  BY CallFields DEF LifeInv, HandlersKnown, TypeInv, TypeOK
<1>2. NothingCanceled' /\ DeliveredStored'
  BY DEF LifeInv, NothingCanceled, DeliveredStored, Delivering, OwnJob, TransferringRuns,
     Transferring
<1>3. OwnJob'
  BY DEF LifeInv, OwnJob, TransferringRuns, UnderWay, OnTime
<1>4. ClaimAlone'
  BY DEF LifeInv, ClaimAlone, OwnJob, TransferringRuns, UnderWay, OnTime
<1>5. StrandedUnderWay'
  BY DEF StrandedUnderWay
<1> QED
  BY <1>1, <1>2, <1>3, <1>4, <1>5 DEF LifeInv

LEMMA LifeRun ==
    ASSUME Counted, TypeInv, AttemptInv, LifeInv, NEW r \in Runs,
           RunStep(r) \/ RunAnswerLost(r) \/ RunCompleteThrows(r) \/ RunVerdictThrows(r)
    PROVE  LifeInv'
<1>a. /\ run \in [Runs -> RunRecord] /\ run[r] \in RunRecord
      /\ status \in [Jobs -> Statuses] /\ copies \in [Jobs -> Nat]
  BY DEF TypeInv, TypeOK
<1>b. Uncanceled(run[r])
  BY DEF LifeInv, NothingCanceled
<1>c. r \in TransferringRuns => /\ tick.pc # "recoverWrite"
                                /\ run[r].job \in Jobs
  BY DEF AttemptInv, RecoversAlone, LifeInv, OwnJob, TransferringRuns, Transferring
\* Up to the answer: the rows stay.
<1>1. CASE RunLoad(r) \/ RunDownload(r) \/ RunAnswered(r)
  <2>1. /\ r \in TransferringRuns /\ UNCHANGED <<status, copies, tick, call, late>>
        /\ \E pc \in RunPcs : /\ run' = [run EXCEPT ![r] = RunAt(run[r], pc)]
                              /\ pc \in {"answer", "accepted"} => r \in Delivering
    BY <1>1 DEF RunLoad, RunDownload, RunAnswered, Goto, TransferringRuns, Transferring, RunPcs,
       rowVars, Delivering
  <2>2. /\ \A q \in Runs \ {r} : run'[q] = run[q]
        /\ Uncanceled(run'[r]) /\ run'[r].job = run[r].job
        /\ r \in Delivering' => r \in Delivering
    BY <1>a, <1>b, <2>1, RunAtFacts, UncanceledKept DEF Delivering, Verdicts
  <2> QED
    BY <1>c, <2>1, <2>2, LifeOneRun DEF LifeInv, DeliveredStored
<1>2. CASE RunDeliver(r)
  <2>1. /\ r \in TransferringRuns /\ UNCHANGED <<status, tick, call, late>>
        /\ run' = [run EXCEPT ![r] = RunAt(run[r], "answer")]
    BY <1>2 DEF RunDeliver, Goto, TransferringRuns, Transferring, rowVars
  <2>2. /\ \A q \in Runs \ {r} : run'[q] = run[q]
        /\ Uncanceled(run'[r]) /\ run'[r].job = run[r].job
    BY <1>a, <1>b, <2>1, RunAtFacts, UncanceledKept DEF RunPcs, Transferring, Verdicts
  <2>3. /\ \A j \in Jobs : copies[j] > 0 => copies'[j] > 0
        /\ copies'[run[r].job] > 0
    BY <1>2, <1>a, <1>c, <2>1, BoundsAssumption DEF RunDeliver, Counted
  <2> QED
    BY <1>c, <2>1, <2>2, <2>3, LifeOneRun
<1>3. CASE RunFail(r) \/ RunTooLarge(r) \/ RunAnswerLost(r) \/ RunCompleteThrows(r)
  <2>1. PICK v \in Verdicts \ {"canceled"} : Caught(r, v)
    BY <1>3, <1>b DEF Uncanceled, RunFail, RunTooLarge, RunAnswerLost, RunCompleteThrows,
       Verdict, Verdicts
  <2>2. r \in TransferringRuns /\ UNCHANGED <<status, copies, tick, call, late>>
    BY <1>3, <2>1 DEF RunFail, RunTooLarge, RunAnswerLost, RunCompleteThrows, Caught,
       TransferringRuns, Transferring, rowVars
  <2>3. /\ \A q \in Runs \ {r} : run'[q] = run[q]
        /\ Uncanceled(run'[r]) /\ run'[r].job = run[r].job
        /\ run'[r].pc = "caught"
    BY <1>a, <1>b, <2>1, RunCaughtFacts, UncanceledKept DEF Caught, RunPcs, Transferring
  <2> QED
    BY <1>c, <2>2, <2>3, LifeOneRun DEF Delivering
\* The outcome is written by the one transfer whose row it is.
<1>4. CASE RunComplete(r) \/ RunWriteVerdict(r)
  <2>1. /\ r \in TransferringRuns /\ UNCHANGED <<copies, tick, call, late>>
        /\ run' = [run EXCEPT ![r] = RunAt(run[r], "logging")]
        /\ \E s \in Statuses \ {"absent"} : status' = [status EXCEPT ![run[r].job] = s]
    BY <1>4, <1>a DEF RunComplete, RunWriteVerdict, Goto, TransferringRuns, Transferring,
       Statuses, Finished, Verdicts, TypeInv, VerdictKnown, RunRecord
  <2>2. /\ \A q \in Runs \ {r} : run'[q] = run[q]
        /\ Uncanceled(run'[r]) /\ run'[r].job = run[r].job
        /\ run'[r].pc = "logging"
    BY <1>a, <1>b, <2>1, RunAtFacts, UncanceledKept DEF RunPcs, Transferring, Verdicts
  <2>3. r \notin TransferringRuns' /\ r \notin Delivering'
    BY <2>2 DEF TransferringRuns, Delivering, Transferring
  <2>4. /\ \A j \in Jobs : status[j] # "absent" => status'[j] # "absent"
        /\ \A j \in Jobs : status'[j] # status[j] => j = run[r].job
    BY <1>a, <2>1
  <2> QED
    BY <1>c, <2>1, <2>2, <2>3, <2>4, LifeOneRun
<1>5. CASE VerdictLost(r) \/ RunCleanup(r) \/ RunSettle(r)
  <2>1. UNCHANGED <<status, copies, tick, call, late>> /\ \A q \in Runs \ {r} : run'[q] = run[q]
    BY <1>5, <1>a DEF VerdictLost, RunCleanup, RunSettle, rowVars
  <2>2. Uncanceled(run'[r]) /\ run'[r].pc \in {"logging", "settle", "idle"}
    <3>1. CASE VerdictLost(r)
      BY <3>1, <1>a, <1>b, RunLoggingFacts, UncanceledKept DEF VerdictLost
    <3>2. CASE RunCleanup(r)
      BY <3>2, <1>a, RunFields, SettlingRunFacts, UncanceledNew DEF RunCleanup
    <3>3. CASE RunSettle(r)
      BY <3>3, <1>a, IdleRecords, UncanceledNew DEF RunSettle
    <3> QED
      BY <1>5, <3>1, <3>2, <3>3
  <2>3. r \notin TransferringRuns' /\ r \notin Delivering'
    BY <2>2 DEF TransferringRuns, Delivering, Transferring
  <2> QED
    BY <2>1, <2>2, <2>3 DEF LifeInv, HandlersKnown, NothingCanceled, OwnJob, ClaimAlone,
       StrandedUnderWay, DeliveredStored, TransferringRuns, Delivering, UnderWay, OnTime
<1> QED
  BY <1>1, <1>2, <1>3, <1>4, <1>5 DEF RunStep, RunRowGone, RunVerdictThrows

LEMMA LifeNext ==
    ASSUME NoCancels, Counted
    PROVE  TypeInv /\ AttemptInv /\ LifeInv /\ [Next]_vars => LifeInv'
<1> SUFFICES ASSUME TypeInv, AttemptInv, LifeInv, [Next]_vars PROVE LifeInv'
  OBVIOUS
<1>1. CASE Crash
  <2>1. /\ \A r \in Runs : run'[r].pc = "idle" /\ Uncanceled(run'[r])
        /\ tick'.pc = "idle" /\ \A c \in Callers : call'[c].pc = "idle" /\ call'[c].ids = {}
    BY <1>1, IdleRecords, IdleFields, UncanceledNew DEF Crash
  <2> QED
    BY <2>1 DEF LifeInv, HandlersKnown, NothingCanceled, OwnJob, ClaimAlone,
       StrandedUnderWay, DeliveredStored, TransferringRuns, Delivering, Transferring
<1>2. CASE UNCHANGED vars
  BY <1>2, LifeQuiet DEF vars, LifeInv, ClaimAlone, StrandedUnderWay, UnderWay, TransferringRuns,
     OnTime
<1> QED
  BY <1>1, <1>2, LifeCall, LifeTick, LifeRun DEF Next
-----------------------------------------------------------------------------
(***************************************************************************)
(* Every step is a step of JobLifecycle, or none.                          *)
(***************************************************************************)
lifeVars == <<[j \in Jobs |-> Phase(j)], copies>>

LEMMA SameRows == ASSUME UNCHANGED <<status, copies, late>> PROVE UNCHANGED lifeVars
  BY DEF lifeVars, Phase

\* A row that was asked for late goes through no phases any more.
LEMMA SamePhases ==
    ASSUME copies' = copies, \A j \in Jobs : Phase(j)' = Phase(j)
    PROVE  UNCHANGED lifeVars
  BY DEF lifeVars

LEMMA LatePhase ==
    ASSUME TypeInv, NEW j \in Jobs
    PROVE  /\ ~OnTime(j) => Phase(j) = "overtaken"
           /\ OnTime(j) => Phase(j) = IF status[j] \in {"queued", "running"}
                                      THEN "pending" ELSE status[j]
  BY DEF TypeInv, TypeOK, OnTime, Phase

\* The move of one row.
LEMMA MoveOne ==
    ASSUME NEW j \in Jobs, NEW from, NEW to, copies' = copies, Phase(j) \in from,
           Phase(j)' = to, \A k \in Jobs \ {j} : Phase(k)' = Phase(k)
    PROVE  Life!Move(j, from, to)
  BY DEF Life!Move

LEMMA LifeRetry ==
    ASSUME TypeInv, TypeInv', LifeInv, NEW c \in Callers, RetryWrite(c)
    PROVE  Life!Next \/ UNCHANGED lifeVars
<1>0. call[c].job \in Jobs
  BY DEF RetryWrite, LifeInv, HandlersKnown
<1>1. PICK j \in Jobs : j = call[c].job
  BY <1>0
<1>2. /\ copies' = copies
      /\ \A k \in Jobs \ {j} : status'[k] = status[k] /\ late'[k] = late[k]
      /\ status'[j] = IF HasRow(j) THEN "queued" ELSE status[j]
      /\ status[j] \in {"running", "completed"} => late'[j] = late[j] + 1
      /\ status[j] \notin {"running", "completed"} => late'[j] = late[j]
  BY <1>0, <1>1, RetryFacts
<1>a. late[j] \in Nat /\ status[j] \in Statuses
  BY <1>1 DEF TypeInv, TypeOK
<1>3. \A k \in Jobs \ {j} : Phase(k)' = Phase(k)
  BY <1>2 DEF Phase
<1>4. CASE ~OnTime(j) \/ ~HasRow(j) \/ status[j] = "queued"
  <2>1. Phase(j)' = Phase(j)
    BY <1>2, <1>4, <1>a DEF Phase, OnTime, HasRow
  <2> QED
    BY <1>2, <1>3, <2>1, SamePhases
<1>5. CASE OnTime(j) /\ status[j] \in {"failed", "canceled"}
  <2>1. Phase(j) \in {"failed", "canceled"} /\ Phase(j)' = "pending"
    BY <1>2, <1>5, <1>a DEF Phase, OnTime, HasRow
  <2>2. Life!AskAgain(j)
    BY <1>1, <1>2, <1>3, <2>1, MoveOne DEF Life!AskAgain
  <2> QED
    BY <1>1, <2>2 DEF Life!Next
<1>6. CASE OnTime(j) /\ status[j] \in {"running", "completed"}
  <2>1. Phase(j) \in {"pending", "completed"} /\ Phase(j)' = "overtaken"
    BY <1>2, <1>6, <1>a DEF Phase, OnTime
  <2>2. Life!AskLate(j)
    BY <1>1, <1>2, <1>3, <2>1, MoveOne DEF Life!AskLate
  <2> QED
    BY <1>1, <2>2 DEF Life!Next
<1> QED
  BY <1>4, <1>5, <1>6, <1>a DEF Statuses, Finished, HasRow

LEMMA LifeStepCall ==
    ASSUME NoCancels, TypeInv, TypeInv', LifeInv,
           \/ \E j \in Jobs : Enqueue(j)
           \/ \E c \in Callers, j \in Jobs : CancelRead(c, j) \/ RetryRead(c, j)
           \/ \E c \in Callers : ClearRead(c) \/ CallStep(c)
    PROVE  Life!Next \/ UNCHANGED lifeVars
<1>a. status \in [Jobs -> Statuses] /\ late \in [Jobs -> Nat]
  BY DEF TypeInv, TypeOK
<1>1. ASSUME NEW j \in Jobs, Enqueue(j) PROVE Life!Next \/ UNCHANGED lifeVars
  <2>1. /\ UNCHANGED <<copies, late>> /\ status[j] = "absent"
        /\ status' = [status EXCEPT ![j] = "queued"]
    BY <1>1 DEF Enqueue
  <2>2. \A k \in Jobs \ {j} : Phase(k)' = Phase(k)
    BY <1>a, <2>1 DEF Phase
  <2>3. CASE OnTime(j)
    <3>1. Phase(j) = "absent" /\ Phase(j)' = "pending"
      BY <1>a, <2>1, <2>3 DEF Phase, OnTime
    <3>2. Life!Ask(j)
      BY <2>1, <2>2, <3>1, MoveOne DEF Life!Ask
    <3> QED
      BY <3>2 DEF Life!Next
  <2>4. CASE ~OnTime(j)
    <3>1. Phase(j)' = Phase(j)
      BY <1>a, <2>1, <2>4 DEF Phase, OnTime
    <3> QED
      BY <2>1, <2>2, <3>1, SamePhases
  <2> QED
    BY <2>3, <2>4
<1>3. ASSUME NEW c \in Callers, ClearDelete(c) PROVE Life!Next
  <2> DEFINE gone == {j \in call[c].ids : OnTime(j)}
  <2>1. /\ UNCHANGED <<copies, late>> /\ call[c].ids \subseteq Jobs
        /\ status' = [j \in Jobs |-> IF j \in call[c].ids THEN "deleted" ELSE status[j]]
        /\ \A j \in call[c].ids : status[j] # "absent"
    BY <1>3, CallFields DEF ClearDelete, LifeInv, HandlersKnown, TypeInv, TypeOK
  <2>2. gone \in SUBSET Jobs /\ \A j \in gone : Phase(j) # "absent"
    BY <1>a, <2>1 DEF Phase, OnTime
  <2>3. \A j \in Jobs : Phase(j)' = IF j \in gone THEN "deleted" ELSE Phase(j)
    BY <1>a, <2>1 DEF Phase, OnTime
  <2> HIDE DEF gone
  <2>4. Life!Clear(gone)
    BY <2>1, <2>2, <2>3 DEF Life!Clear
  <2> QED
    BY <2>2, <2>4 DEF Life!Next
<1>4. ASSUME NEW c \in Callers, NEW j \in Jobs, CancelRead(c, j) PROVE FALSE
  BY <1>4 DEF NoCancels, CancelRead
<1>5. ASSUME NEW c \in Callers, CancelAct(c) PROVE FALSE
  BY <1>5 DEF CancelAct, LifeInv, HandlersKnown
<1>6. ASSUME NEW c \in Callers,
             \/ ClearRead(c) \/ ClearFilter(c)
             \/ \E j \in Jobs : ClearRemove(c, j) \/ RetryRead(c, j)
      PROVE  UNCHANGED lifeVars
  BY <1>6, SameRows DEF ClearRead, ClearFilter, ClearRemove, RetryRead, rowVars
<1> QED
  BY <1>1, LifeRetry, <1>3, <1>4, <1>5, <1>6 DEF CallStep

\* The tick moves rows between queued and running, which is one phase.
LEMMA LifeStepTick ==
    ASSUME TypeInv, AttemptInv, LifeInv, TickStart \/ TickStep \/ TickThrows
    PROVE  UNCHANGED lifeVars
<1>a. status \in [Jobs -> Statuses] /\ tick \in TickRecord /\ late \in [Jobs -> Nat]
  BY DEF TypeInv, TypeOK
<1>1. ASSUME NEW j \in Jobs, RecoverWrite(j) PROVE UNCHANGED lifeVars
  <2>1. /\ OnTime(j) => status[j] = "running"
        /\ status' = [status EXCEPT ![j] = "queued"] /\ UNCHANGED <<copies, late>>
    BY <1>1 DEF RecoverWrite, LifeInv, StrandedUnderWay, UnderWay, HasRow
  <2> QED
    BY <1>a, <2>1 DEF lifeVars, Phase, OnTime
<1>2. CASE TickClaim
  BY <1>2, <1>a DEF TickClaim, lifeVars, Phase
<1>3. ASSUME NEW j \in Jobs, SweepRemove(j) \/ EvictRemove(j) PROVE UNCHANGED lifeVars
  BY <1>3, SameRows DEF SweepRemove, EvictRemove, rowVars
<1>4. ASSUME NEW r \in Runs, TickLaunch(r) PROVE UNCHANGED lifeVars
  BY <1>4, SameRows DEF TickLaunch, rowVars
<1>5. CASE TickStart \/ RecoverRead \/ RecoverDone \/ SweepList \/ SweepQuery \/ SweepMeasure
           \/ EvictMark \/ EvictDone \/ TickThrows
  BY <1>5, SameRows DEF TickStart, TickBoot, TickPoll, TickSweep, RecoverRead, RecoverDone,
     SweepList, SweepQuery, SweepMeasure, EvictMark, EvictDone, TickThrows, tickOnly,
     rowVars
<1>6. CASE TickFind
  BY <1>6, FindFacts, SameRows DEF tickOnly, rowVars
<1> QED
  BY <1>1, <1>2, <1>3, <1>4, <1>5, <1>6 DEF TickStep

LEMMA LifeStepRun ==
    ASSUME TypeInv, LifeInv, NEW r \in Runs,
           RunStep(r) \/ RunAnswerLost(r) \/ RunCompleteThrows(r) \/ RunVerdictThrows(r)
    PROVE  Life!Next \/ UNCHANGED lifeVars
<1>a. /\ status \in [Jobs -> Statuses] /\ copies \in [Jobs -> Nat] /\ run[r] \in RunRecord
      /\ late \in [Jobs -> Nat]
  BY DEF TypeInv, TypeOK
<1>b. r \in TransferringRuns =>
        run[r].job \in Jobs /\ (OnTime(run[r].job) => UnderWay(run[r].job))
  BY DEF LifeInv, OwnJob
<1>1. CASE RunDeliver(r)
  <2>0. r \in TransferringRuns /\ UNCHANGED <<status, late>>
    BY <1>1 DEF RunDeliver, TransferringRuns, Transferring, rowVars
  <2>p. PICK j \in Jobs : j = run[r].job
    BY <1>b, <2>0
  <2>1. (OnTime(j) => UnderWay(j)) /\ UNCHANGED <<status, late>>
    BY <1>b, <2>0, <2>p
  <2>2. CASE copies[j] < MaxCopies
    <3>1. Phase(j) \in {"pending", "deleted", "overtaken"}
      BY <1>a, <2>1 DEF Phase, UnderWay, OnTime
    <3>2. \A k \in Jobs : Phase(k)' = Phase(k)
      BY <2>1 DEF Phase
    <3>3. copies' = [copies EXCEPT ![j] = copies[j] + 1]
      BY <1>1, <1>a, <2>2, <2>p DEF RunDeliver
    <3>4. Life!Store(j)
      BY <2>1, <2>2, <3>1, <3>2, <3>3 DEF Life!Store
    <3> QED
      BY <2>1, <3>4 DEF Life!Next
  <2>3. CASE ~(copies[j] < MaxCopies)
    BY <1>1, <1>a, <2>1, <2>3, <2>p, SameRows DEF RunDeliver
  <2> QED
    BY <2>2, <2>3
<1>2. CASE RunComplete(r) \/ RunWriteVerdict(r)
  <2>0. r \in TransferringRuns /\ HasRow(run[r].job)
    BY <1>2 DEF RunComplete, RunWriteVerdict, TransferringRuns, Transferring
  <2>p. PICK j \in Jobs : j = run[r].job
    BY <1>b, <2>0
  <2>1. /\ OnTime(j) => status[j] = "running"
        /\ run[r].pc = "accepted" => copies[j] > 0
    BY <1>2, <1>b, <2>0, <2>p DEF HasRow, UnderWay, LifeInv, DeliveredStored, Delivering
  <2>2. /\ UNCHANGED <<copies, late>>
        /\ \/ run[r].pc = "accepted" /\ status' = [status EXCEPT ![j] = "completed"]
           \/ \E s \in {"queued", "failed"} : status' = [status EXCEPT ![j] = s]
    BY <1>2, <2>p, <1>a DEF RunComplete, RunWriteVerdict, LifeInv, NothingCanceled, Uncanceled,
       TypeInv, VerdictKnown, RunRecord, Verdicts
  <2>3. \A k \in Jobs \ {j} : Phase(k)' = Phase(k)
    BY <1>a, <2>1, <2>2 DEF Phase
  <2>4. CASE ~OnTime(j) \/ status'[j] = "queued"
    <3>1. Phase(j)' = Phase(j)
      BY <1>a, <2>1, <2>2, <2>4 DEF Phase, OnTime
    <3> QED
      BY <2>2, <2>3, <3>1, SamePhases
  <2>5. CASE OnTime(j) /\ status'[j] = "completed"
    <3>1. Phase(j) \in {"pending"} /\ Phase(j)' = "completed" /\ copies[j] > 0
      BY <1>a, <2>1, <2>2, <2>5 DEF Phase, OnTime
    <3>2. Life!Complete(j)
      BY <2>1, <2>2, <2>3, <3>1, MoveOne DEF Life!Complete
    <3> QED
      BY <2>1, <3>2 DEF Life!Next
  <2>6. CASE OnTime(j) /\ status'[j] = "failed"
    <3>1. Phase(j) \in {"pending"} /\ Phase(j)' = "failed"
      BY <1>a, <2>1, <2>2, <2>6 DEF Phase, OnTime
    <3>2. Life!GiveUp(j)
      BY <2>1, <2>2, <2>3, <3>1, MoveOne DEF Life!GiveUp
    <3> QED
      BY <2>1, <3>2 DEF Life!Next
  <2>7. status'[j] \in {"completed", "queued", "failed"}
    BY <1>a, <2>1, <2>2
  <2> QED
    BY <2>4, <2>5, <2>6, <2>7
<1>4. CASE RunLoad(r) \/ RunDownload(r) \/ RunAnswered(r) \/ RunCleanup(r) \/ RunSettle(r)
  BY <1>4, SameRows DEF RunLoad, RunDownload, RunAnswered, RunCleanup, RunSettle, rowVars
<1>5. CASE RunFail(r) \/ RunTooLarge(r) \/ RunAnswerLost(r) \/ RunCompleteThrows(r)
           \/ VerdictLost(r)
  BY <1>5, SameRows DEF RunFail, RunTooLarge, RunAnswerLost, RunCompleteThrows, VerdictLost,
     Caught, rowVars
<1> QED
  BY <1>1, <1>2, <1>4, <1>5 DEF RunStep, RunRowGone, RunVerdictThrows

LEMMA LifeStep ==
    ASSUME NoCancels
    PROVE  TypeInv /\ TypeInv' /\ AttemptInv /\ LifeInv /\ [Next]_vars => [Life!Next]_lifeVars
<1> SUFFICES ASSUME TypeInv, TypeInv', AttemptInv, LifeInv, [Next]_vars
             PROVE  Life!Next \/ UNCHANGED lifeVars
  OBVIOUS
<1>1. CASE Crash \/ UNCHANGED vars
  BY <1>1, SameRows DEF Crash, vars, rowVars
<1> QED
  BY <1>1, LifeStepCall, LifeStepTick, LifeStepRun DEF Next

\* While nothing is cancelled, the queue with its worker is JobLifecycle, for any number of
\* jobs, slots, people who ask again and clear, and faults.
THEOREM QueueIsLifecycle ==
    ASSUME NoCancels, Counted
    PROVE  Spec => Lifecycle
<1>1. Init => Life!Init
  BY DEF Init, Life!Init, Phase
<1> QED
  BY <1>1, InitType, NextType, AttemptInit, AttemptNext, LifeInit, LifeNext, LifeStep, PTL
     DEF Spec, Lifecycle, Life!Spec, lifeVars
-----------------------------------------------------------------------------
(***************************************************************************)
(* CopyInv is an invariant: what may yet store a book is handed on, from   *)
(* the row to the claim, the run and back, and only a fault or a late      *)
(* request adds to it.                                                     *)
(***************************************************************************)
LEMMA SetShrinks ==
    ASSUME NEW S, IsFiniteSet(S), NEW T, T \subseteq S
    PROVE  /\ Cardinality(S) \in Nat /\ Cardinality(T) \in Nat
           /\ Cardinality(T) <= Cardinality(S)
  BY FS_Subset, FS_CardinalityType

LEMMA SetLoses ==
    ASSUME NEW S, IsFiniteSet(S), NEW x \in S, NEW T, T \subseteq S \ {x}
    PROVE  Cardinality(T) + 1 <= Cardinality(S)
<1>1. /\ IsFiniteSet(S \ {x}) /\ Cardinality(S \ {x}) = Cardinality(S) - 1
      /\ Cardinality(S) \in Nat
  BY FS_RemoveElement, FS_CardinalityType
<1>2. Cardinality(T) \in Nat /\ Cardinality(T) <= Cardinality(S \ {x})
  BY <1>1, SetShrinks
<1> QED
  BY <1>1, <1>2

LEMMA SetGains ==
    ASSUME NEW S, IsFiniteSet(S), NEW x, NEW T, T \subseteq S \cup {x}
    PROVE  Cardinality(T) <= Cardinality(S) + 1
<1>a. Cardinality(S \cup {x}) = IF x \in S THEN Cardinality(S) ELSE Cardinality(S) + 1
  BY FS_AddElement
<1>b. IsFiniteSet(S \cup {x}) /\ Cardinality(S) \in Nat
  BY FS_AddElement, FS_CardinalityType
<1>1. /\ IsFiniteSet(S \cup {x}) /\ Cardinality(S \cup {x}) <= Cardinality(S) + 1
      /\ Cardinality(S) \in Nat /\ Cardinality(S \cup {x}) \in Nat
  BY <1>a, <1>b
<1>2. Cardinality(T) \in Nat /\ Cardinality(T) <= Cardinality(S \cup {x})
  BY <1>1, SetShrinks
<1> QED
  BY <1>1, <1>2

LEMMA FetchingFinite ==
    ASSUME IsFiniteSet(Runs), NEW j
    PROVE  /\ IsFiniteSet(Fetching(j)) /\ IsFiniteSet(Fetching(j)')
           /\ Cardinality(Fetching(j)) \in Nat /\ Cardinality(Fetching(j)') \in Nat
<1>1. Fetching(j) \subseteq Runs /\ Fetching(j)' \subseteq Runs
  BY DEF Fetching
<1> QED
  BY <1>1, FS_Subset, FS_CardinalityType

\* The sum for one job, before and after a step, from its three parts.
LEMMA OwedSum ==
    ASSUME IsFiniteSet(Runs), NEW j, NEW a \in {0, 1}, NEW b \in {0, 1}, NEW d \in Int,
           RowOwes(j)' => RowOwes(j) \/ a = 1,
           Claimed(j)' => Claimed(j) \/ b = 1,
           Cardinality(Fetching(j)') <= Cardinality(Fetching(j)) + d
    PROVE  Owed(j)' <= Owed(j) + a + b + d /\ Owed(j) \in Nat /\ Owed(j)' \in Nat
<1>1. Cardinality(Fetching(j)) \in Nat /\ Cardinality(Fetching(j)') \in Nat
  BY FetchingFinite
<1>2. (IF RowOwes(j)' THEN 1 ELSE 0) <= (IF RowOwes(j) THEN 1 ELSE 0) + a
  OBVIOUS
<1>3. (IF Claimed(j)' THEN 1 ELSE 0) <= (IF Claimed(j) THEN 1 ELSE 0) + b
  OBVIOUS
<1>4. Owed(j)' = (IF RowOwes(j)' THEN 1 ELSE 0) + (IF Claimed(j)' THEN 1 ELSE 0)
                 + Cardinality(Fetching(j)')
  BY DEF Owed
<1> QED
  BY <1>1, <1>2, <1>3, <1>4 DEF Owed

LEMMA OwedFalls ==
    ASSUME IsFiniteSet(Runs), NEW j, RowOwes(j)' => RowOwes(j), Claimed(j)' => Claimed(j),
           Fetching(j)' \subseteq Fetching(j)
    PROVE  Owed(j)' <= Owed(j) /\ Owed(j) \in Nat /\ Owed(j)' \in Nat
<1>1. Cardinality(Fetching(j)') <= Cardinality(Fetching(j)) + 0
  BY FetchingFinite, SetShrinks
<1>2. Owed(j)' <= Owed(j) + 0 + 0 + 0 /\ Owed(j) \in Nat /\ Owed(j)' \in Nat
  BY <1>1, OwedSum
<1> QED
  BY <1>2

\* Nothing more may be stored than before: CopyInv is kept.
LEMMA CopyKept ==
    ASSUME TypeInv, CopyInv, UNCHANGED <<copies, faults, late>>,
           \A j \in Jobs : Owed(j)' <= Owed(j) /\ Owed(j) \in Nat /\ Owed(j)' \in Nat
    PROVE  CopyInv'
<1>1. \A j \in Jobs : copies[j] \in Nat /\ late[j] \in Nat /\ faults \in Nat
  BY DEF TypeInv, TypeOK
<1>2. \A j \in Jobs : copies[j] + Owed(j)' <= 1 + faults + late[j]
  BY <1>1 DEF CopyInv
<1> QED
  BY <1>2 DEF CopyInv

\* A fault may add one.
LEMMA CopyFault ==
    ASSUME TypeInv, CopyInv, UNCHANGED <<copies, late>>, faults' = faults + 1,
           \A j \in Jobs : Owed(j)' <= Owed(j) + 1 /\ Owed(j) \in Nat /\ Owed(j)' \in Nat
    PROVE  CopyInv'
<1>1. \A j \in Jobs : copies[j] \in Nat /\ late[j] \in Nat /\ faults \in Nat
  BY DEF TypeInv, TypeOK
<1>2. \A j \in Jobs : copies[j] + Owed(j)' <= 1 + (faults + 1) + late[j]
  BY <1>1 DEF CopyInv
<1> QED
  BY <1>2 DEF CopyInv

\* What a step that leaves rows, runs and claim alone owes.
LEMMA OwedSame ==
    ASSUME IsFiniteSet(Runs), UNCHANGED <<status, run>>, NEW j,
           Claimed(j)' <=> Claimed(j)
    PROVE  Owed(j)' <= Owed(j) /\ Owed(j) \in Nat /\ Owed(j)' \in Nat
<1>1. Fetching(j)' = Fetching(j) /\ AtWork(j)' = AtWork(j)
  BY DEF Fetching, AtWork, TransferringRuns, HasRow
<1> QED
  BY <1>1, OwedFalls DEF RowOwes

\* Requests: a row is queued that owed its copy already, or counts as late.
LEMMA CopyRetry ==
    ASSUME IsFiniteSet(Runs), TypeInv, LifeInv, CopyInv, NEW c \in Callers, RetryWrite(c)
    PROVE  CopyInv'
<1>0. call[c].job \in Jobs
  BY DEF RetryWrite, LifeInv, HandlersKnown
<1>1. PICK j \in Jobs : j = call[c].job
  BY <1>0
<1>2. /\ UNCHANGED <<run, tick, copies, faults>>
      /\ \A k \in Jobs \ {j} : status'[k] = status[k] /\ late'[k] = late[k]
      /\ status'[j] = IF HasRow(j) THEN "queued" ELSE status[j]
      /\ status[j] \in {"running", "completed"} => late'[j] = late[j] + 1
      /\ status[j] \notin {"running", "completed"} => late'[j] = late[j]
  BY <1>0, <1>1, RetryFacts
<1>a. status[j] \in Statuses /\ copies \in [Jobs -> Nat] /\ late \in [Jobs -> Nat] /\ faults \in Nat
  BY DEF TypeInv, TypeOK
<1>3. \A k \in Jobs : (Claimed(k)' <=> Claimed(k)) /\ Fetching(k)' = Fetching(k)
                      /\ AtWork(k)' = AtWork(k)
  BY <1>2 DEF Claimed, Fetching, AtWork, TransferringRuns, HasRow
<1>4. \A k \in Jobs : Cardinality(Fetching(k)') <= Cardinality(Fetching(k)) + 0
  BY <1>3, FetchingFinite
<1>5. ASSUME NEW k \in Jobs \ {j} PROVE copies'[k] + Owed(k)' <= 1 + faults' + late'[k]
  <2>1. Owed(k)' <= Owed(k) /\ Owed(k) \in Nat /\ Owed(k)' \in Nat
    BY <1>2, <1>3, OwedFalls DEF RowOwes
  <2> QED
    BY <1>2, <1>a, <2>1 DEF CopyInv
<1>6. CASE status[j] \notin {"running", "completed"}
  <2>1. RowOwes(j)' => RowOwes(j)
    BY <1>2, <1>6, <1>a DEF RowOwes, HasRow, Statuses, Finished
  <2>2. Owed(j)' <= Owed(j) /\ Owed(j) \in Nat /\ Owed(j)' \in Nat
    BY <1>3, <2>1, OwedFalls
  <2>3. copies'[j] + Owed(j)' <= 1 + faults' + late'[j]
    BY <1>2, <1>6, <1>a, <2>2 DEF CopyInv
  <2> QED
    BY <1>5, <2>3 DEF CopyInv
<1>7. CASE status[j] \in {"running", "completed"}
  <2>1. Owed(j)' <= Owed(j) + 1 + 0 + 0 /\ Owed(j) \in Nat /\ Owed(j)' \in Nat
    BY <1>3, <1>4, OwedSum
  <2>2. copies'[j] + Owed(j)' <= 1 + faults' + late'[j]
    BY <1>2, <1>7, <1>a, <2>1 DEF CopyInv
  <2> QED
    BY <1>5, <2>2 DEF CopyInv
<1> QED
  BY <1>6, <1>7

LEMMA CopyCall ==
    ASSUME IsFiniteSet(Runs), NoCancels, TypeInv, LifeInv, CopyInv,
           \/ \E j \in Jobs : Enqueue(j)
           \/ \E c \in Callers, j \in Jobs : CancelRead(c, j) \/ RetryRead(c, j)
           \/ \E c \in Callers : ClearRead(c) \/ CallStep(c)
    PROVE  CopyInv'
<1>a. status \in [Jobs -> Statuses]
  BY DEF TypeInv, TypeOK
\* No transfer is of a row that is not there.
<1>1. ASSUME NEW j \in Jobs, Enqueue(j) PROVE CopyInv'
  <2>1. /\ UNCHANGED <<run, tick, copies, faults, late>> /\ status[j] = "absent"
        /\ status' = [status EXCEPT ![j] = "queued"]
    BY <1>1 DEF Enqueue
  <2>2. \A r \in TransferringRuns : run[r].job # j
    BY <2>1 DEF LifeInv, OwnJob
  <2>3. ASSUME NEW k \in Jobs
        PROVE  /\ RowOwes(k)' => RowOwes(k)
               /\ Claimed(k)' => Claimed(k)
               /\ Fetching(k)' \subseteq Fetching(k)
    <3>1. AtWork(k)' = AtWork(k) /\ (Claimed(k)' <=> Claimed(k))
      BY <2>1 DEF AtWork, TransferringRuns, Claimed
    <3>2. RowOwes(k)' => RowOwes(k)
      BY <1>a, <2>1, <3>1 DEF RowOwes
    <3>3. Fetching(k)' \subseteq Fetching(k)
      BY <1>a, <2>1, <2>2 DEF Fetching, HasRow, TransferringRuns, Transferring
    <3> QED
      BY <3>1, <3>2, <3>3
  <2> QED
    BY <2>1, <2>3, OwedFalls, CopyKept
<1>2. ASSUME NEW c \in Callers, ClearDelete(c) PROVE CopyInv'
  <2>1. /\ UNCHANGED <<run, tick, copies, faults, late>>
        /\ status' = [j \in Jobs |-> IF j \in call[c].ids THEN "deleted" ELSE status[j]]
    BY <1>2 DEF ClearDelete
  <2>2. ASSUME NEW k \in Jobs
        PROVE  /\ RowOwes(k)' => RowOwes(k)
               /\ Claimed(k)' => Claimed(k)
               /\ Fetching(k)' \subseteq Fetching(k)
    <3>1. AtWork(k)' = AtWork(k) /\ (Claimed(k)' <=> Claimed(k))
      BY <2>1 DEF AtWork, TransferringRuns, Claimed
    <3>2. RowOwes(k)' => RowOwes(k)
      BY <2>1, <3>1 DEF RowOwes
    <3>3. Fetching(k)' \subseteq Fetching(k)
      BY <2>1 DEF Fetching, HasRow, LifeInv, HandlersKnown
    <3> QED
      BY <3>1, <3>2, <3>3
  <2> QED
    BY <2>1, <2>2, OwedFalls, CopyKept
<1>3. ASSUME NEW c \in Callers,
             \/ ClearRead(c) \/ ClearFilter(c)
             \/ \E j \in Jobs : ClearRemove(c, j) \/ RetryRead(c, j)
      PROVE  CopyInv'
  <2>1. UNCHANGED <<status, run, tick, copies, faults, late>>
    BY <1>3 DEF ClearRead, ClearFilter, ClearRemove, RetryRead, rowVars
  <2>2. \A k \in Jobs : Claimed(k)' <=> Claimed(k)
    BY <2>1 DEF Claimed
  <2> QED
    BY <2>1, <2>2, OwedSame, CopyKept
<1>4. ASSUME NEW c \in Callers, NEW j \in Jobs, CancelRead(c, j) PROVE FALSE
  BY <1>4 DEF NoCancels, CancelRead
<1>5. ASSUME NEW c \in Callers, CancelAct(c) PROVE FALSE
  BY <1>5 DEF CancelAct, LifeInv, HandlersKnown
<1> QED
  BY <1>1, <1>2, <1>3, <1>4, <1>5, CopyRetry DEF CallStep

LEMMA CopyTick ==
    ASSUME IsFiniteSet(Runs), TypeInv, AttemptInv, LifeInv, CopyInv,
           TickStart \/ TickStep \/ TickThrows
    PROVE  CopyInv'
<1>a. status \in [Jobs -> Statuses] /\ tick \in TickRecord /\ run \in [Runs -> RunRecord]
  BY DEF TypeInv, TypeOK
\* A stranded row owes its copy: nothing is at work yet.
<1>1. ASSUME NEW j \in Jobs, RecoverWrite(j) PROVE CopyInv'
  <2>1. /\ UNCHANGED <<run, copies, faults, late>> /\ tick.pc = "recoverWrite"
        /\ status' = [status EXCEPT ![j] = "queued"] /\ tick'.pc = "recoverWrite"
        /\ status[j] \in Statuses \ {"absent", "completed", "deleted"}
    BY <1>1, <1>a DEF RecoverWrite, LifeInv, StrandedUnderWay, HasRow, TickRecord
  <2>2. \A r \in Runs : run[r].pc = "idle"
    BY <2>1 DEF AttemptInv, RecoversAlone
  <2>3. ASSUME NEW k \in Jobs
        PROVE  /\ RowOwes(k)' => RowOwes(k)
               /\ Claimed(k)' => Claimed(k)
               /\ Fetching(k)' \subseteq Fetching(k)
    <3>1. AtWork(k) = {} /\ AtWork(k)' = {} /\ ~Claimed(k) /\ ~Claimed(k)'
      BY <2>1, <2>2 DEF AtWork, TransferringRuns, Transferring, Claimed
    <3>2. RowOwes(k)' => RowOwes(k)
      BY <1>a, <2>1, <3>1 DEF RowOwes, Statuses, Finished
    <3>3. Fetching(k)' = {}
      BY <2>1, <2>2 DEF Fetching
    <3> QED
      BY <3>1, <3>2, <3>3
  <2> QED
    BY <2>1, <2>3, OwedFalls, CopyKept
\* A queued row hands what it owes to its claim.
<1>2. CASE TickClaim
  <2>a. tick.pc = "claim" /\ tick.job \in Jobs
    BY <1>2 DEF TickClaim, LifeInv, ClaimAlone
  <2>1. CASE status[tick.job] = "queued"
    <3>1. PICK j \in Jobs : j = tick.job
      BY <2>a
    <3>2. /\ UNCHANGED <<run, copies, faults, late>> /\ tick'.pc = "launch" /\ tick'.job = j
          /\ status' = [status EXCEPT ![j] = "running"] /\ status[j] = "queued"
      BY <1>2, <1>a, <2>1, <3>1 DEF TickClaim, TickRecord
    <3>3. \A k \in Jobs : /\ Fetching(k)' = Fetching(k)
                          /\ ~Claimed(k) /\ (Claimed(k)' <=> k = j)
                          /\ AtWork(k)' = AtWork(k)
      BY <1>a, <2>a, <3>2 DEF Fetching, HasRow, Claimed, AtWork, TransferringRuns
    <3>4. ASSUME NEW k \in Jobs \ {j}
          PROVE  Owed(k)' <= Owed(k) /\ Owed(k) \in Nat /\ Owed(k)' \in Nat
      <4>1. RowOwes(k)' => RowOwes(k)
        BY <1>a, <3>2, <3>3 DEF RowOwes
      <4> QED
        BY <3>3, <4>1, OwedFalls
    <3>5. Owed(j)' <= Owed(j) /\ Owed(j) \in Nat /\ Owed(j)' \in Nat
      <4>1. RowOwes(j) /\ ~RowOwes(j)'
        BY <1>a, <3>2, <3>3 DEF RowOwes
      <4>2. Cardinality(Fetching(j)') = Cardinality(Fetching(j))
        BY <3>3
      <4>3. Cardinality(Fetching(j)) \in Nat
        BY FetchingFinite
      <4>4. Owed(j) = 1 + 0 + Cardinality(Fetching(j))
        BY <3>3, <4>1 DEF Owed
      <4>5. Owed(j)' = 0 + 1 + Cardinality(Fetching(j)')
        BY <3>3, <4>1 DEF Owed
      <4> QED
        BY <4>2, <4>3, <4>4, <4>5
    <3>6. \A k \in Jobs : Owed(k)' <= Owed(k) /\ Owed(k) \in Nat /\ Owed(k)' \in Nat
      BY <3>4, <3>5
    <3> QED
      BY <3>2, <3>6, CopyKept
  <2>2. CASE status[tick.job] # "queued"
    <3>1. UNCHANGED <<status, run, copies, faults, late>> /\ tick'.pc = "find"
      BY <1>2, <2>2 DEF TickClaim, IdleTick
    <3>2. \A k \in Jobs : Claimed(k)' <=> Claimed(k)
      BY <2>a, <3>1 DEF Claimed
    <3> QED
      BY <3>1, <3>2, OwedSame, CopyKept
  <2> QED
    BY <2>1, <2>2
\* The claim hands it to the run.
<1>3. ASSUME NEW r \in Runs, TickLaunch(r) PROVE CopyInv'
  <2>a. tick.pc = "launch" /\ tick.job \in Jobs /\ tick.attempts \in Nat /\ run[r].pc = "idle"
    BY <1>3, <1>a, TickFields DEF TickLaunch, LifeInv, ClaimAlone
  <2>p. PICK j \in Jobs : j = tick.job
    BY <2>a
  <2>1. /\ UNCHANGED <<status, copies, faults, late>> /\ tick'.pc = "find"
        /\ run'[r].pc = "load" /\ run'[r].job = j
        /\ \A q \in Runs \ {r} : run'[q] = run[q]
    BY <1>3, <1>a, <2>a, <2>p, StartedRunFacts DEF TickLaunch, IdleTick, rowVars
  <2>2. \A k \in Jobs : ~Claimed(k)' /\ (Claimed(k) <=> k = j)
    BY <2>a, <2>p, <2>1 DEF Claimed
  <2>3. /\ \A k \in Jobs \ {j} : AtWork(k)' = AtWork(k) /\ Fetching(k)' \subseteq Fetching(k)
        /\ r \in AtWork(j)' /\ Fetching(j)' \subseteq Fetching(j) \cup {r}
    BY <2>a, <2>1 DEF AtWork, Fetching, TransferringRuns, Transferring, HasRow
  <2>4. ASSUME NEW k \in Jobs \ {j}
        PROVE  Owed(k)' <= Owed(k) /\ Owed(k) \in Nat /\ Owed(k)' \in Nat
    <3>1. RowOwes(k)' => RowOwes(k)
      BY <2>1, <2>2, <2>3 DEF RowOwes
    <3> QED
      BY <2>2, <2>3, <3>1, OwedFalls
  <2>5. Owed(j)' <= Owed(j) /\ Owed(j) \in Nat /\ Owed(j)' \in Nat
    <3>1. RowOwes(j)' => RowOwes(j)
      BY <2>1, <2>3 DEF RowOwes
    <3>2. (IF RowOwes(j)' THEN 1 ELSE 0) <= (IF RowOwes(j) THEN 1 ELSE 0)
      BY <3>1
    <3>3. /\ Cardinality(Fetching(j)') <= Cardinality(Fetching(j)) + 1
          /\ Cardinality(Fetching(j)) \in Nat /\ Cardinality(Fetching(j)') \in Nat
      BY <2>3, FetchingFinite, SetGains
    <3>4. Owed(j) = (IF RowOwes(j) THEN 1 ELSE 0) + 1 + Cardinality(Fetching(j))
      BY <2>2 DEF Owed
    <3>5. Owed(j)' = (IF RowOwes(j)' THEN 1 ELSE 0) + 0 + Cardinality(Fetching(j)')
      BY <2>2 DEF Owed
    <3> QED
      BY <3>2, <3>3, <3>4, <3>5
  <2>6. \A k \in Jobs : Owed(k)' <= Owed(k) /\ Owed(k) \in Nat /\ Owed(k)' \in Nat
    BY <2>4, <2>5
  <2> QED
    BY <2>1, <2>6, CopyKept
<1>4. CASE TickThrows
  <2>1. /\ UNCHANGED <<status, run, copies, late>> /\ faults' = faults + 1
        /\ tick.pc # "launch" /\ tick'.pc # "launch"
    BY <1>4, IdleRecords DEF TickThrows, Fault, rowVars
  <2>2. \A k \in Jobs : Claimed(k)' <=> Claimed(k)
    BY <2>1 DEF Claimed
  <2>3. \A k \in Jobs : Owed(k)' <= Owed(k) + 1 /\ Owed(k) \in Nat /\ Owed(k)' \in Nat
    <3>1. ASSUME NEW k \in Jobs
          PROVE Owed(k)' <= Owed(k) + 1 /\ Owed(k) \in Nat /\ Owed(k)' \in Nat
      <4>1. Owed(k)' <= Owed(k) /\ Owed(k) \in Nat /\ Owed(k)' \in Nat
        BY <2>1, <2>2, OwedSame
      <4> QED
        BY <4>1
    <3> QED
      BY <3>1
  <2> QED
    BY <2>1, <2>3, CopyFault
<1>5. ASSUME UNCHANGED <<status, run, copies, faults, late>>,
             tick.pc # "launch", tick'.pc # "launch"
      PROVE  CopyInv'
  <2>1. \A k \in Jobs : Claimed(k)' <=> Claimed(k)
    BY <1>5 DEF Claimed
  <2> QED
    BY <1>5, <2>1, OwedSame, CopyKept
<1>6. CASE TickFind
  <2>1. UNCHANGED tickOnly /\ tick.pc = "find" /\ tick'.pc # "launch"
    BY <1>6, FindFacts, FoundFacts, IdleRecords
  <2> QED
    BY <1>5, <2>1 DEF tickOnly, rowVars
<1>7. CASE TickStart \/ EvictDone
  <2>1. UNCHANGED <<status, run, copies, faults, late>> /\ tick.pc # "launch" /\ tick'.pc # "launch"
    BY <1>7 DEF TickStart, TickBoot, TickPoll, TickSweep, EvictDone, IdleTick, tickOnly, rowVars
  <2> QED
    BY <1>5, <2>1
<1>8. CASE RecoverDone \/ SweepMeasure \/ EvictMark
  <2>1. UNCHANGED <<status, run, copies, faults, late>> /\ tick.pc # "launch" /\ tick'.pc # "launch"
    BY <1>8, <1>a DEF RecoverDone, SweepMeasure, EvictMark, tickOnly, rowVars, TickRecord
  <2> QED
    BY <1>5, <2>1
<1>9. CASE RecoverRead \/ SweepList \/ SweepQuery
  <2>1. tick'.pc # "launch"
    BY <1>9, <1>a DEF RecoverRead, SweepList, SweepQuery, TickRecord
  <2>2. tick.pc # "launch"
    BY <1>9 DEF RecoverRead, SweepList, SweepQuery
  <2>3. UNCHANGED <<status, run, copies, faults, late>>
    BY <1>9 DEF RecoverRead, SweepList, SweepQuery, tickOnly, rowVars
  <2> QED
    BY <1>5, <2>1, <2>2, <2>3
<1>10. ASSUME NEW j \in Jobs, SweepRemove(j) \/ EvictRemove(j) PROVE CopyInv'
  <2>1. UNCHANGED <<status, run, copies, faults, late>> /\ tick.pc # "launch" /\ tick'.pc # "launch"
    BY <1>10, <1>a DEF SweepRemove, EvictRemove, TickRecord, rowVars
  <2> QED
    BY <1>5, <2>1
<1> QED
  BY <1>1, <1>2, <1>3, <1>4, <1>6, <1>7, <1>8, <1>9, <1>10 DEF TickStep

\* One run moves: the other jobs owe what they did.
LEMMA OwedOthers ==
    ASSUME IsFiniteSet(Runs), tick' = tick, NEW j \in Jobs, NEW r \in Runs,
           run[r].job = j, run'[r].job = j, \A q \in Runs \ {r} : run'[q] = run[q],
           NEW k \in Jobs \ {j}, status'[k] = status[k]
    PROVE  Owed(k)' <= Owed(k) /\ Owed(k) \in Nat /\ Owed(k)' \in Nat
<1>1. Fetching(k)' \subseteq Fetching(k) /\ AtWork(k)' = AtWork(k) /\ (Claimed(k)' <=> Claimed(k))
  BY DEF Fetching, AtWork, TransferringRuns, HasRow, Claimed
<1> QED
  BY <1>1, OwedFalls DEF RowOwes

\* CopyInv is kept when one job's sum does not outgrow the faults.
LEMMA CopyOne ==
    ASSUME TypeInv, CopyInv, NEW j \in Jobs, late' = late, faults' \in Nat,
           \A k \in Jobs \ {j} : copies'[k] = copies[k],
           \A k \in Jobs \ {j} : Owed(k)' <= Owed(k) /\ Owed(k) \in Nat /\ Owed(k)' \in Nat,
           NEW a \in Nat, faults' = faults + a, Owed(j) \in Nat, Owed(j)' \in Nat,
           copies'[j] \in Nat, copies'[j] + Owed(j)' <= copies[j] + Owed(j) + a
    PROVE  CopyInv'
<1>1. \A k \in Jobs : copies[k] \in Nat /\ late[k] \in Nat
  BY DEF TypeInv, TypeOK
<1>2. faults \in Nat
  BY DEF TypeInv, TypeOK
<1>3. ASSUME NEW k \in Jobs \ {j} PROVE copies'[k] + Owed(k)' <= 1 + faults' + late'[k]
  BY <1>1, <1>2 DEF CopyInv
<1>4. copies'[j] + Owed(j)' <= 1 + faults' + late'[j]
  BY <1>1, <1>2 DEF CopyInv
<1> QED
  BY <1>3, <1>4 DEF CopyInv

LEMMA CopyRun ==
    ASSUME IsFiniteSet(Runs), TypeInv, LifeInv, CopyInv, NEW r \in Runs,
           RunStep(r) \/ RunAnswerLost(r) \/ RunCompleteThrows(r) \/ RunVerdictThrows(r)
    PROVE  CopyInv'
<1>a. /\ run \in [Runs -> RunRecord] /\ run[r] \in RunRecord
      /\ status \in [Jobs -> Statuses] /\ copies \in [Jobs -> Nat] /\ faults \in Nat
  BY DEF TypeInv, TypeOK
<1>b. Uncanceled(run[r])
  BY DEF LifeInv, NothingCanceled
\* A finished transfer is not counted.
<1>1. CASE RunCleanup(r) \/ RunSettle(r)
  <2>1. /\ UNCHANGED <<status, tick, copies, faults, late>>
        /\ \A q \in Runs \ {r} : run'[q] = run[q]
        /\ run[r].pc \in {"logging", "settle"}
    BY <1>1, <1>a DEF RunCleanup, RunSettle, rowVars
  <2>2. run'[r].pc \in {"settle", "idle"}
    <3>1. CASE RunCleanup(r)
      BY <3>1, <1>a, RunFields, SettlingRunFacts DEF RunCleanup
    <3>2. CASE RunSettle(r)
      BY <3>2, <1>a, IdleRecords DEF RunSettle
    <3> QED
      BY <1>1, <3>1, <3>2
  <2>3. \A k \in Jobs : /\ Fetching(k)' = Fetching(k) /\ AtWork(k)' = AtWork(k)
                        /\ Claimed(k)' <=> Claimed(k)
    BY <2>1, <2>2 DEF Fetching, AtWork, TransferringRuns, Transferring, HasRow, Claimed
  <2>4. \A k \in Jobs : Owed(k)' <= Owed(k) /\ Owed(k) \in Nat /\ Owed(k)' \in Nat
    BY <2>1, <2>3, OwedFalls DEF RowOwes
  <2> QED
    BY <2>1, <2>4, CopyKept
<1>2. CASE ~(RunCleanup(r) \/ RunSettle(r))
  <2>a. r \in TransferringRuns
    BY <1>2 DEF RunStep, RunLoad, RunDownload, RunDeliver, RunAnswered, RunComplete, RunFail,
       RunTooLarge, RunWriteVerdict, RunRowGone, VerdictLost, RunAnswerLost, RunCompleteThrows,
       RunVerdictThrows, TransferringRuns, Transferring
  <2>b. PICK j \in Jobs : j = run[r].job /\ status[j] # "absent"
    BY <2>a DEF LifeInv, OwnJob
  <2>c. /\ Cardinality(Fetching(j)) \in Nat /\ Cardinality(Fetching(j)') \in Nat
        /\ IsFiniteSet(Fetching(j))
    BY FetchingFinite
  \* What becomes of the sum for its job.
  <2>d. ASSUME NEW a \in {0, 1}, NEW d \in {-1, 0, 1}, NEW n \in {0, 1}, NEW m \in {0, 1},
               UNCHANGED <<tick, late>>, run'[r].job = j,
               \A q \in Runs \ {r} : run'[q] = run[q],
               \A k \in Jobs \ {j} : status'[k] = status[k],
               \A k \in Jobs \ {j} : copies'[k] = copies[k],
               RowOwes(j)' => RowOwes(j) \/ a = 1,
               Cardinality(Fetching(j)') <= Cardinality(Fetching(j)) + d,
               faults' = faults + n, copies'[j] \in Nat, copies'[j] <= copies[j] + m,
               a + d + m <= n
        PROVE  CopyInv'
    <3>1. \A k \in Jobs \ {j} : Owed(k)' <= Owed(k) /\ Owed(k) \in Nat /\ Owed(k)' \in Nat
      BY <2>b, <2>d, OwedOthers
    <3>2. Claimed(j)' => Claimed(j)
      BY <2>d DEF Claimed
    <3>3. Owed(j)' <= Owed(j) + a + 0 + d /\ Owed(j) \in Nat /\ Owed(j)' \in Nat
      BY <2>d, <3>2, OwedSum
    <3>4. copies'[j] + Owed(j)' <= copies[j] + Owed(j) + n
      BY <1>a, <2>d, <3>3
    <3>5. n \in Nat /\ faults' \in Nat
      BY <1>a, <2>d
    <3> QED
      BY <2>d, <3>1, <3>3, <3>4, <3>5, CopyOne
  \* Before the delivery a job owes its copy, and still does; after it, it does not.
  <2>1. CASE RunLoad(r) \/ RunDownload(r) \/ RunAnswered(r)
    <3>1. /\ UNCHANGED <<status, tick, copies, faults, late>>
          /\ \E pc \in RunPcs :
               /\ run' = [run EXCEPT ![r] = RunAt(run[r], pc)]
               /\ \/ {run[r].pc, pc} \subseteq {"load", "download", "upload"}
                  \/ {run[r].pc, pc} \subseteq {"answer", "accepted"}
      BY <2>1 DEF RunLoad, RunDownload, RunAnswered, Goto, RunPcs, Transferring, rowVars
    <3>2. /\ run'[r].job = j /\ \A q \in Runs \ {r} : run'[q] = run[q]
          /\ \/ {run[r].pc, run'[r].pc} \subseteq {"load", "download", "upload"}
             \/ {run[r].pc, run'[r].pc} \subseteq {"answer", "accepted"}
      BY <1>a, <2>b, <3>1, RunAtFacts
    <3>3. Fetching(j)' = Fetching(j) /\ AtWork(j)' = AtWork(j) /\ (Claimed(j)' <=> Claimed(j))
      BY <2>b, <3>1, <3>2 DEF Fetching, AtWork, TransferringRuns, Transferring, HasRow, Claimed
    <3>4. RowOwes(j)' => RowOwes(j)
      BY <3>1, <3>3 DEF RowOwes
    <3>5. Cardinality(Fetching(j)') <= Cardinality(Fetching(j)) + 0
      BY <2>c, <3>3
    <3>6. copies'[j] \in Nat /\ copies'[j] <= copies[j] + 0 /\ faults' = faults + 0
      BY <1>a, <3>1
    <3> QED
      BY <2>d, <3>1, <3>2, <3>4, <3>5, <3>6
  \* The delivery stores a copy that was owed.
  <2>2. CASE RunDeliver(r)
    <3>1. /\ UNCHANGED <<status, tick, faults, late>> /\ run[r].pc = "upload"
          /\ run'[r].pc = "answer" /\ run'[r].job = j
          /\ \A q \in Runs \ {r} : run'[q] = run[q]
      BY <2>2, <1>a, <2>b, RunAtFacts DEF RunDeliver, Goto, Transferring, RunPcs, rowVars
    <3>2. /\ r \in Fetching(j) /\ Fetching(j)' \subseteq Fetching(j) \ {r}
          /\ AtWork(j)' = AtWork(j) /\ (Claimed(j)' <=> Claimed(j))
      BY <2>b, <3>1 DEF Fetching, AtWork, TransferringRuns, Transferring, HasRow, Claimed
    <3>3. RowOwes(j)' => RowOwes(j)
      BY <3>1, <3>2 DEF RowOwes
    <3>4. Cardinality(Fetching(j)') + 1 <= Cardinality(Fetching(j))
      BY <2>c, <3>2, SetLoses
    <3>5. Cardinality(Fetching(j)') <= Cardinality(Fetching(j)) + (-1)
      BY <2>c, <3>4
    <3>6. copies' = [copies EXCEPT ![j] = IF copies[j] < MaxCopies THEN copies[j] + 1
                                          ELSE copies[j]]
      BY <2>2, <2>b DEF RunDeliver
    <3>7. /\ copies'[j] \in Nat /\ copies'[j] <= copies[j] + 1 /\ faults' = faults + 0
          /\ \A k \in Jobs \ {j} : copies'[k] = copies[k]
      BY <1>a, <3>1, <3>6
    <3> QED
      BY <2>d, <3>1, <3>3, <3>5, <3>7
  \* Nobody has stored the book, or it has been cleared and is not transferred again.
  <2>3. CASE RunFail(r) \/ RunTooLarge(r) \/ RunAnswerLost(r) \/ RunCompleteThrows(r)
    <3>1. PICK v \in Verdicts : Caught(r, v)
      BY <2>3 DEF RunFail, RunTooLarge, RunAnswerLost, RunCompleteThrows, Verdict, Verdicts
    <3>2. /\ UNCHANGED <<status, tick, copies, late>> /\ run'[r].pc = "caught"
          /\ run'[r].job = j /\ \A q \in Runs \ {r} : run'[q] = run[q]
      BY <1>a, <2>b, <3>1, RunCaughtFacts DEF Caught, rowVars
    <3>3. AtWork(j)' = AtWork(j) /\ (Claimed(j)' <=> Claimed(j))
      BY <2>a, <2>b, <3>2 DEF AtWork, TransferringRuns, Transferring, Claimed
    <3>4. RowOwes(j)' => RowOwes(j)
      BY <3>2, <3>3 DEF RowOwes
    <3>5. CASE RunFail(r) \/ RunTooLarge(r)
      <4>1. faults' = faults + 0
        BY <1>a, <3>5 DEF RunFail, RunTooLarge
      <4>2. run[r].pc \in {"load", "download", "upload"} \/ ~HasRow(j)
        BY <3>5, <1>b, <2>b DEF RunFail, RunTooLarge, Uncanceled
      <4>3. Fetching(j)' \subseteq Fetching(j)
        BY <2>b, <3>2, <4>2 DEF Fetching, HasRow
      <4>4. Cardinality(Fetching(j)') <= Cardinality(Fetching(j)) + 0
        BY <2>c, <4>3, SetShrinks
      <4>5. copies'[j] \in Nat /\ copies'[j] <= copies[j] + 0
        BY <1>a, <3>2
      <4> QED
        BY <2>d, <3>2, <3>4, <4>1, <4>4, <4>5
    <3>6. CASE RunAnswerLost(r) \/ RunCompleteThrows(r)
      <4>1. faults' = faults + 1
        BY <3>6 DEF RunAnswerLost, RunCompleteThrows, Fault
      <4>2. Fetching(j)' \subseteq Fetching(j) \cup {r}
        BY <3>2 DEF Fetching, HasRow
      <4>3. Cardinality(Fetching(j)') <= Cardinality(Fetching(j)) + 1
        BY <2>c, <4>2, SetGains
      <4>5. copies'[j] \in Nat /\ copies'[j] <= copies[j] + 0
        BY <1>a, <3>2
      <4> QED
        BY <2>d, <3>2, <3>4, <4>1, <4>3, <4>5
    <3> QED
      BY <2>3, <3>5, <3>6
  \* The row of a transfer that recorded nothing may owe its copy again: a fault.
  <2>4. CASE VerdictLost(r) /\ (RunRowGone(r) \/ RunVerdictThrows(r))
    <3>1. /\ UNCHANGED <<status, tick, copies, late>> /\ run'[r].pc = "logging"
          /\ run'[r].job = j /\ \A q \in Runs \ {r} : run'[q] = run[q]
      BY <1>a, <2>4, <2>b, RunLoggingFacts DEF VerdictLost, rowVars
    <3>2. Fetching(j)' \subseteq Fetching(j) /\ (Claimed(j)' <=> Claimed(j))
      BY <3>1 DEF Fetching, HasRow, Claimed
    <3>3. Cardinality(Fetching(j)') <= Cardinality(Fetching(j)) + 0
      BY <2>c, <3>2, SetShrinks
    <3>4. copies'[j] \in Nat /\ copies'[j] <= copies[j] + 0
      BY <1>a, <3>1
    <3>5. CASE RunRowGone(r)
      <4>1. faults' = faults + 0 /\ ~RowOwes(j)'
        BY <1>a, <2>b, <3>1, <3>5 DEF RunRowGone, RowOwes, HasRow
      <4> QED
        BY <2>d, <3>1, <3>3, <3>4, <4>1
    <3>6. CASE RunVerdictThrows(r)
      <4>1. faults' = faults + 1
        BY <3>6 DEF RunVerdictThrows, Fault
      <4> QED
        BY <2>d, <3>1, <3>3, <3>4, <4>1
    <3> QED
      BY <2>4, <3>5, <3>6
  \* A completed row owes nothing; a row to be tried again takes over from its run.
  <2>5. CASE RunComplete(r)
    <3>1. /\ UNCHANGED <<tick, copies, faults, late>> /\ run[r].pc = "accepted" /\ HasRow(j)
          /\ run'[r].pc = "logging" /\ run'[r].job = j
          /\ \A q \in Runs \ {r} : run'[q] = run[q]
          /\ status' = [status EXCEPT ![j] = "completed"]
      BY <1>a, <2>5, <2>b, RunAtFacts DEF RunComplete, Goto, Transferring, RunPcs
    <3>2. /\ status'[j] = "completed" /\ ~RowOwes(j)'
          /\ \A k \in Jobs \ {j} : status'[k] = status[k]
      BY <1>a, <3>1 DEF RowOwes
    <3>3. Fetching(j)' \subseteq Fetching(j)
      BY <2>b, <3>1, <3>2 DEF Fetching
    <3>4. Cardinality(Fetching(j)') <= Cardinality(Fetching(j)) + 0
      BY <2>c, <3>3, SetShrinks
    <3>5. copies'[j] \in Nat /\ copies'[j] <= copies[j] + 0 /\ faults' = faults + 0
      BY <1>a, <3>1
    <3> QED
      BY <2>d, <3>1, <3>2, <3>4, <3>5
  <2>6. CASE RunWriteVerdict(r)
    <3>1. /\ UNCHANGED <<tick, copies, faults, late>> /\ run[r].pc = "caught" /\ HasRow(j)
          /\ run'[r].pc = "logging" /\ run'[r].job = j
          /\ \A q \in Runs \ {r} : run'[q] = run[q]
          /\ \A k \in Jobs \ {j} : status'[k] = status[k]
      BY <1>a, <2>6, <2>b, RunAtFacts DEF RunWriteVerdict, Goto, Transferring, RunPcs
    <3>2. r \in Fetching(j) /\ Fetching(j)' \subseteq Fetching(j) \ {r}
      BY <2>b, <3>1 DEF Fetching
    <3>3. Cardinality(Fetching(j)') + 1 <= Cardinality(Fetching(j))
      BY <2>c, <3>2, SetLoses
    <3>4. Cardinality(Fetching(j)') <= Cardinality(Fetching(j)) + (-1)
      BY <2>c, <3>3
    <3>5. copies'[j] \in Nat /\ copies'[j] <= copies[j] + 0 /\ faults' = faults + 0
      BY <1>a, <3>1
    <3> QED
      BY <2>d, <3>1, <3>4, <3>5
  <2> QED
    BY <1>2, <2>1, <2>2, <2>3, <2>4, <2>5, <2>6 DEF RunStep, RunRowGone, RunVerdictThrows
<1> QED
  BY <1>1, <1>2

LEMMA CopyNext ==
    ASSUME NoCancels, IsFiniteSet(Runs)
    PROVE  TypeInv /\ AttemptInv /\ LifeInv /\ CopyInv /\ [Next]_vars => CopyInv'
<1> SUFFICES ASSUME TypeInv, AttemptInv, LifeInv, CopyInv, [Next]_vars PROVE CopyInv'
  OBVIOUS
<1>1. CASE Crash
  <2>1. /\ UNCHANGED <<status, copies, late>> /\ faults' = faults + 1
        /\ \A r \in Runs : run'[r].pc = "idle" /\ tick'.pc = "idle"
        /\ tick' = IdleTick
    BY <1>1, IdleRecords DEF Crash, Fault, rowVars
  <2>2. ASSUME NEW k \in Jobs
        PROVE Owed(k)' <= Owed(k) + 1 /\ Owed(k) \in Nat /\ Owed(k)' \in Nat
    <3>1. ~Claimed(k)' /\ Fetching(k)' = {}
      BY <2>1 DEF Claimed, Fetching, IdleTick
    <3>2. Cardinality(Fetching(k)') <= Cardinality(Fetching(k)) + 0
      BY <3>1, FS_EmptySet, FetchingFinite
    <3>3. Owed(k)' <= Owed(k) + 1 + 0 + 0 /\ Owed(k) \in Nat /\ Owed(k)' \in Nat
      BY <3>1, <3>2, OwedSum
    <3> QED
      BY <3>3
  <2> QED
    BY <2>1, <2>2, CopyFault
<1>2. CASE UNCHANGED vars
  <2>1. /\ UNCHANGED <<status, run, copies, faults, late>>
        /\ \A k \in Jobs : Claimed(k)' <=> Claimed(k)
    BY <1>2 DEF vars, Claimed
  <2> QED
    BY <2>1, OwedSame, CopyKept
<1> QED
  BY <1>1, <1>2, CopyCall, CopyTick, CopyRun DEF Next

LEMMA CopyInit == IsFiniteSet(Runs) /\ Init => CopyInv
<1> SUFFICES ASSUME IsFiniteSet(Runs), Init, NEW j \in Jobs
             PROVE  copies[j] + Owed(j) <= 1 + faults + late[j]
  BY DEF CopyInv
<1>1. Fetching(j) = {} /\ ~Claimed(j) /\ copies[j] = 0 /\ faults = 0 /\ late[j] = 0
  BY DEF Init, Fetching, Claimed, IdleRun, IdleTick
<1>2. Owed(j) <= 1 /\ Owed(j) \in Nat
  BY <1>1, FS_EmptySet DEF Owed
<1> QED
  BY <1>1, <1>2

\* While nothing is cancelled, a crash, a lost answer, a failed write or a late request
\* costs at most one surplus copy of a book, and nothing else costs any: not the retries,
\* the restarts, the sweeps, the clearing, nor any number of transfers at once.
THEOREM OneCopyEach ==
    ASSUME NoCancels, Counted, IsFiniteSet(Runs)
    PROVE  Spec => []OneCopyPerFault
<1>1. TypeInv /\ CopyInv => OneCopyPerFault
  <2> SUFFICES ASSUME TypeInv, CopyInv, NEW j \in Jobs PROVE copies[j] <= 1 + faults + late[j]
    BY DEF OneCopyPerFault
  <2>1. copies[j] \in Nat /\ faults \in Nat /\ late[j] \in Nat
    BY DEF TypeInv, TypeOK
  <2>2. Owed(j) \in Nat
    BY FetchingFinite DEF Owed
  <2> QED
    BY <2>1, <2>2 DEF CopyInv
<1> QED
  BY <1>1, CopyInit, InitType, NextType, AttemptInit, AttemptNext, LifeInit, LifeNext, CopyNext,
     PTL DEF Spec
-----------------------------------------------------------------------------
(***************************************************************************)
(* KeptInv is an invariant.                                                *)
(***************************************************************************)

\* A step that creates, requeues, claims, ends or deletes rows, and leaves the sweep alone:
\* a completed row is only deleted, until a request comes late.
LEMMA KeptRows ==
    ASSUME TypeInv, KeptInv, tick' = tick,
           \A j \in Jobs : status'[j] # status[j] =>
               /\ status'[j] \notin {"absent", "canceled"}
               /\ status[j] # "deleted"
               /\ late'[j] = 0 /\ status[j] = "completed" => status'[j] = "deleted",
           \A j \in Jobs : late'[j] = 0 => late[j] = 0,
           \A j \in Jobs : disk'[j] # "absent" => disk[j] # "absent" \/ status[j] # "absent"
    PROVE  KeptInv'
<1>a. tick.todo \subseteq Jobs
  BY TickFields DEF TypeInv, TypeOK
<1>1. SpooledKnown' /\ NoneCanceled'
  BY DEF KeptInv, SpooledKnown, NoneCanceled
<1>2. SweepKnown'
  BY <1>a DEF KeptInv, SweepKnown, OnTime
<1> QED
  BY <1>1, <1>2 DEF KeptInv

LEMMA KeptCall ==
    ASSUME NoCancels, TypeInv, LifeInv, KeptInv,
           \/ \E j \in Jobs : Enqueue(j)
           \/ \E c \in Callers, j \in Jobs : CancelRead(c, j) \/ RetryRead(c, j)
           \/ \E c \in Callers : ClearRead(c) \/ CallStep(c)
    PROVE  KeptInv'
<1>a. /\ status \in [Jobs -> Statuses] /\ disk \in [Jobs -> {"absent", "partial", "full"}]
      /\ call \in [Callers -> CallRecord] /\ late \in [Jobs -> Nat]
  BY DEF TypeInv, TypeOK
<1>1. ASSUME NEW j \in Jobs, Enqueue(j) PROVE KeptInv'
  <2>1. /\ UNCHANGED <<tick, disk, late>> /\ status[j] = "absent"
        /\ status' = [status EXCEPT ![j] = "queued"]
    BY <1>1 DEF Enqueue
  <2> QED
    BY <1>a, <2>1, KeptRows
<1>2. ASSUME NEW c \in Callers, ClearDelete(c) PROVE KeptInv'
  <2>1. /\ UNCHANGED <<tick, disk, late>>
        /\ status' = [j \in Jobs |-> IF j \in call[c].ids THEN "deleted" ELSE status[j]]
    BY <1>2 DEF ClearDelete
  <2> QED
    BY <1>a, <2>1, KeptRows
<1>3. ASSUME NEW c \in Callers,
             \/ ClearRead(c) \/ ClearFilter(c)
             \/ \E j \in Jobs : ClearRemove(c, j) \/ RetryRead(c, j)
      PROVE  KeptInv'
  <2>1. /\ UNCHANGED <<tick, status, late>>
        /\ disk' = disk \/ \E j \in Jobs : disk' = [disk EXCEPT ![j] = "absent"]
    BY <1>3 DEF ClearRead, ClearFilter, ClearRemove, RetryRead, rowVars
  <2> QED
    BY <1>a, <2>1, KeptRows
\* A request that finds the row completed by now is late.
<1>4. ASSUME NEW c \in Callers, RetryWrite(c) PROVE KeptInv'
  <2>1. PICK j \in Jobs : j = call[c].job
    BY <1>4 DEF RetryWrite, LifeInv, HandlersKnown
  <2>2. /\ UNCHANGED <<tick, disk>>
        /\ \A k \in Jobs \ {j} : status'[k] = status[k] /\ late'[k] = late[k]
        /\ status'[j] = IF HasRow(j) THEN "queued" ELSE status[j]
        /\ status[j] \in {"running", "completed"} => late'[j] = late[j] + 1
        /\ late'[j] = 0 => late[j] = 0
    BY <1>4, <2>1, RetryFacts
  <2>3. late'[j] = 0 => status[j] # "completed"
    BY <1>a, <2>2
  <2> QED
    BY <2>2, <2>3, KeptRows DEF HasRow
<1>5. ASSUME NEW c \in Callers, NEW j \in Jobs, CancelRead(c, j) PROVE FALSE
  BY <1>5 DEF NoCancels, CancelRead
<1>6. ASSUME NEW c \in Callers, CancelAct(c) PROVE FALSE
  BY <1>6 DEF CancelAct, LifeInv, HandlersKnown
<1> QED
  BY <1>1, <1>2, <1>3, <1>4, <1>5, <1>6 DEF CallStep

LEMMA KeptTick ==
    ASSUME TypeInv, LifeInv, KeptInv, TickStart \/ TickStep \/ TickThrows
    PROVE  KeptInv'
<1>a. /\ status \in [Jobs -> Statuses] /\ disk \in [Jobs -> {"absent", "partial", "full"}]
      /\ tick \in TickRecord
  BY DEF TypeInv, TypeOK
<1>1. CASE SweepList
  <2>1. /\ UNCHANGED <<status, disk>> /\ tick'.pc \in {"find", "sweepQuery"}
        /\ tick'.todo = {j \in Jobs : disk[j] # "absent"}
    BY <1>1, <1>a DEF SweepList, TickRecord, tickOnly, rowVars
  <2> QED
    BY <2>1 DEF KeptInv, SpooledKnown, SweepKnown, NoneCanceled
\* What the query does not retain has a row, as it has a spool, and has not been cancelled.
<1>2. CASE SweepQuery
  <2>1. /\ UNCHANGED <<status, disk>> /\ tick'.pc = "sweepRemove"
        /\ tick'.todo = {j \in tick.todo : status[j] \notin Retainable}
    BY <1>2, <1>a DEF SweepQuery, TickRecord, tickOnly, rowVars
  <2>2. \A j \in tick.todo : j \in Jobs /\ status[j] # "absent"
    BY <1>2, <1>a, TickFields DEF SweepQuery, KeptInv, SweepKnown
  <2>3. \A j \in tick'.todo : status[j] \in {"completed", "deleted"}
    BY <1>a, <2>1, <2>2 DEF KeptInv, NoneCanceled, Statuses, Finished, Retainable
  <2> QED
    BY <2>1, <2>3 DEF KeptInv, SpooledKnown, SweepKnown, NoneCanceled
<1>3. ASSUME NEW j \in Jobs, SweepRemove(j) PROVE KeptInv'
  <2>1. /\ UNCHANGED <<status, late>> /\ tick'.pc = "sweepRemove" /\ tick'.todo \subseteq tick.todo
        /\ tick.pc = "sweepRemove" /\ \A k \in Jobs : disk'[k] # "absent" => disk[k] # "absent"
    BY <1>3, <1>a DEF SweepRemove, TickRecord, rowVars
  <2> QED
    BY <2>1 DEF KeptInv, SpooledKnown, SweepKnown, NoneCanceled, OnTime
<1>4. ASSUME tick'.pc \notin {"sweepQuery", "sweepRemove"},
             \A j \in Jobs : disk'[j] # "absent" => disk[j] # "absent",
             \A j \in Jobs : status'[j] # status[j] => status'[j] \in {"queued", "running"}
      PROVE  KeptInv'
  BY <1>4 DEF KeptInv, SpooledKnown, SweepKnown, NoneCanceled
<1>5. ASSUME NEW j \in Jobs, EvictRemove(j) PROVE KeptInv'
  <2>1. /\ UNCHANGED status /\ tick'.pc = "evictMark"
        /\ disk' = [disk EXCEPT ![j] = "absent"]
    BY <1>5, <1>a DEF EvictRemove, TickRecord, rowVars
  <2> QED
    BY <1>4, <1>a, <2>1
<1>6. ASSUME NEW j \in Jobs, RecoverWrite(j) PROVE KeptInv'
  <2>1. /\ UNCHANGED disk /\ tick'.pc = "recoverWrite"
        /\ status' = [status EXCEPT ![j] = "queued"]
    BY <1>6, <1>a DEF RecoverWrite, TickRecord
  <2> QED
    BY <1>4, <1>a, <2>1
<1>7. CASE TickClaim
  <2>1. /\ UNCHANGED disk /\ tick'.pc \in {"launch", "find"}
        /\ status' = status \/ status' = [status EXCEPT ![tick.job] = "running"]
    BY <1>7, <1>a DEF TickClaim, TickRecord, IdleTick
  <2> QED
    BY <1>4, <1>a, <2>1
<1>8. CASE TickFind
  <2>1. UNCHANGED tickOnly /\ tick'.pc \notin {"sweepQuery", "sweepRemove"}
    BY <1>8, FindFacts, FoundFacts, IdleRecords
  <2> QED
    BY <1>4, <2>1 DEF tickOnly, rowVars
<1>9. CASE TickStart \/ EvictDone \/ TickThrows \/ \E r \in Runs : TickLaunch(r)
  <2>1. UNCHANGED <<status, disk>> /\ (TickStart => tick'.pc \notin {"sweepQuery", "sweepRemove"})
    BY <1>9 DEF TickStart, TickBoot, TickPoll, TickSweep, EvictDone, TickThrows, TickLaunch,
       IdleTick, tickOnly, rowVars
  <2>2. tick'.pc \notin {"sweepQuery", "sweepRemove"}
    BY <1>9, <2>1 DEF EvictDone, TickThrows, TickLaunch, IdleTick
  <2> QED
    BY <1>4, <2>1, <2>2
<1>10. CASE RecoverRead \/ RecoverDone \/ SweepMeasure \/ EvictMark
  <2>1. UNCHANGED <<status, disk>>
    BY <1>10 DEF RecoverRead, RecoverDone, SweepMeasure, EvictMark, tickOnly, rowVars
  <2>2. tick'.pc \notin {"sweepQuery", "sweepRemove"}
    BY <1>10, <1>a DEF RecoverRead, RecoverDone, SweepMeasure, EvictMark, TickRecord
  <2> QED
    BY <1>4, <2>1, <2>2
<1> QED
  BY <1>1, <1>2, <1>3, <1>5, <1>6, <1>7, <1>8, <1>9, <1>10 DEF TickStep

LEMMA KeptRun ==
    ASSUME TypeInv, LifeInv, KeptInv, NEW r \in Runs,
           RunStep(r) \/ RunAnswerLost(r) \/ RunCompleteThrows(r) \/ RunVerdictThrows(r)
    PROVE  KeptInv'
<1>a. /\ run[r] \in RunRecord /\ status \in [Jobs -> Statuses]
      /\ disk \in [Jobs -> {"absent", "partial", "full"}]
  BY DEF TypeInv, TypeOK
<1>b. r \in TransferringRuns =>
        /\ run[r].job \in Jobs /\ status[run[r].job] # "absent"
        /\ late[run[r].job] = 0 => UnderWay(run[r].job)
  BY DEF LifeInv, OwnJob, OnTime
<1> DEFINE j == run[r].job
<1>1. CASE RunLoad(r) \/ RunDownload(r)
  <2>1. /\ UNCHANGED <<status, tick, late>> /\ r \in TransferringRuns
        /\ \A k \in Jobs : k # j => disk'[k] = disk[k]
    BY <1>1, <1>a DEF RunLoad, RunDownload, TransferringRuns, Transferring, rowVars
  <2> QED
    BY <1>b, <2>1, KeptRows
\* An outcome is written to a running row, until a request comes late; nothing has been
\* cancelled.
<1>2. CASE RunComplete(r) \/ RunWriteVerdict(r)
  <2>1. /\ UNCHANGED <<tick, disk, late>> /\ r \in TransferringRuns /\ HasRow(j)
        /\ \E s \in {"completed", "queued", "failed"} : status' = [status EXCEPT ![j] = s]
    BY <1>2, <1>a, RunFields DEF RunComplete, RunWriteVerdict, TransferringRuns, Transferring,
       TypeInv, VerdictKnown, Verdicts, LifeInv, NothingCanceled, Uncanceled
  <2>2. late[j] = 0 => status[j] = "running"
    BY <1>b, <2>1 DEF HasRow, UnderWay
  <2> QED
    BY <1>a, <1>b, <2>1, <2>2, KeptRows DEF HasRow
<1>3. CASE RunDeliver(r) \/ RunAnswered(r) \/ RunSettle(r) \/ RunFail(r) \/ RunTooLarge(r)
           \/ RunAnswerLost(r) \/ RunCompleteThrows(r) \/ VerdictLost(r)
  <2>1. UNCHANGED <<status, disk, tick, late>>
    BY <1>3 DEF RunDeliver, RunAnswered, RunSettle, RunFail, RunTooLarge, RunAnswerLost,
       RunCompleteThrows, VerdictLost, Caught, rowVars
  <2> QED
    BY <2>1, KeptRows
<1>4. CASE RunCleanup(r)
  <2>1. /\ UNCHANGED <<status, tick, late>>
        /\ \A k \in Jobs : disk'[k] # "absent" => disk[k] # "absent"
    BY <1>4, <1>a DEF RunCleanup, rowVars
  <2> QED
    BY <2>1, KeptRows
<1> QED
  BY <1>1, <1>2, <1>3, <1>4 DEF RunStep, RunRowGone, RunVerdictThrows

LEMMA KeptNext ==
    ASSUME NoCancels
    PROVE  TypeInv /\ LifeInv /\ KeptInv /\ [Next]_vars => KeptInv'
<1> SUFFICES ASSUME TypeInv, LifeInv, KeptInv, [Next]_vars PROVE KeptInv'
  OBVIOUS
<1>1. CASE Crash
  BY <1>1, IdleRecords DEF Crash, rowVars, KeptInv, SpooledKnown, SweepKnown, NoneCanceled
<1>2. CASE UNCHANGED vars
  BY <1>2, KeptRows DEF vars
<1> QED
  BY <1>1, <1>2, KeptCall, KeptTick, KeptRun DEF Next

\* How a finished download may go.
Kept ==
    \A j \in Jobs :
        disk[j] = "full" /\ disk'[j] = "absent" =>
            \/ status[j] \in {"completed", "canceled", "deleted"}
            \/ \E c \in Callers : ClearRemove(c, j)
            \/ tick.pc = "evict"
            \/ \E r \in Runs : RunCleanup(r) /\ run[r].job = j /\ run[r].verdict = "none"
            \/ late[j] > 0 /\ tick.pc = "sweepRemove"

LEMMA KeptStep == TypeInv /\ LifeInv /\ KeptInv /\ [Next]_vars => [Kept]_vars
<1> SUFFICES ASSUME TypeInv, LifeInv, KeptInv, Next,
                    NEW j \in Jobs, disk[j] = "full", disk'[j] = "absent"
             PROVE  \/ status[j] \in {"completed", "deleted"}
                    \/ \E c \in Callers : ClearRemove(c, j)
                    \/ tick.pc = "evict"
                    \/ \E r \in Runs : RunCleanup(r) /\ run[r].job = j /\ run[r].verdict = "none"
                    \/ late[j] > 0 /\ tick.pc = "sweepRemove"
  BY DEF Kept
<1>a. /\ disk \in [Jobs -> {"absent", "partial", "full"}] /\ run \in [Runs -> RunRecord]
      /\ late[j] \in Nat
  BY DEF TypeInv, TypeOK
<1>1. ASSUME NEW k \in Jobs, SweepRemove(k)
      PROVE  status[j] \in {"completed", "deleted"} \/ (late[j] > 0 /\ tick.pc = "sweepRemove")
  BY <1>1, <1>a DEF SweepRemove, KeptInv, SweepKnown, OnTime
<1>2. ASSUME NEW k \in Jobs, EvictRemove(k) PROVE tick.pc = "evict"
  BY <1>2 DEF EvictRemove
<1>3. ASSUME NEW c \in Callers, NEW k \in Jobs, ClearRemove(c, k) PROVE ClearRemove(c, j)
  <2>1. k = j
    BY <1>3, <1>a DEF ClearRemove
  <2> QED
    BY <1>3, <2>1
<1>4. ASSUME NEW r \in Runs, RunCleanup(r) PROVE run[r].job = j /\ run[r].verdict = "none"
  BY <1>4, <1>a, RunFields DEF RunCleanup, KeepSpool, Verdicts, LifeInv, NothingCanceled,
     Uncanceled
<1>5. ASSUME NEW r \in Runs, RunStep(r), ~RunCleanup(r) PROVE FALSE
  BY <1>5, <1>a DEF RunStep, RunLoad, RunDownload, RunDeliver, RunAnswered, RunComplete, RunFail,
     RunTooLarge, RunWriteVerdict, RunRowGone, VerdictLost, RunSettle, Caught
<1>6. ASSUME NEW r \in Runs, RunAnswerLost(r) \/ RunCompleteThrows(r) \/ RunVerdictThrows(r)
      PROVE  FALSE
  BY <1>6 DEF RunAnswerLost, RunCompleteThrows, RunVerdictThrows, VerdictLost, Caught
<1>7. (\E k \in Jobs : Enqueue(k)) => FALSE
  BY DEF Enqueue
<1>8. ASSUME NEW c \in Callers,
             \/ \E k \in Jobs : CancelRead(c, k) \/ RetryRead(c, k)
             \/ ClearRead(c) \/ CancelAct(c) \/ RetryWrite(c) \/ ClearFilter(c) \/ ClearDelete(c)
      PROVE  FALSE
  BY <1>8 DEF CancelRead, RetryRead, ClearRead, CancelAct, RetryWrite, ClearFilter, ClearDelete
<1>9. CASE \/ TickStart \/ TickThrows \/ RecoverRead \/ RecoverDone \/ SweepList \/ SweepQuery
           \/ SweepMeasure \/ EvictMark \/ EvictDone \/ TickClaim \/ Crash
           \/ (\E k \in Jobs : RecoverWrite(k)) \/ \E r \in Runs : TickLaunch(r)
  BY <1>9 DEF TickStart, TickBoot, TickPoll, TickSweep, TickThrows, RecoverRead, RecoverDone,
     SweepList, SweepQuery, SweepMeasure, EvictMark, EvictDone, TickClaim, Crash,
     RecoverWrite, TickLaunch, tickOnly
<1>10. CASE TickFind
  BY <1>10, FindFacts DEF tickOnly
<1> QED
  BY <1>1, <1>2, <1>3, <1>4, <1>5, <1>6, <1>7, <1>8, <1>9, <1>10 DEF Next, CallStep, TickStep

\* While nothing is cancelled, a finished download is removed only when its transfer has
\* succeeded or been cleared, by an eviction, by a run that has no failure on record, or by
\* a sweep that had listed the row before a late request: no sweep takes the spool of a
\* transfer to be tried again.
THEOREM FinishedDownloadsKept ==
    ASSUME NoCancels, Counted
    PROVE  Spec => DownloadKept
<1>1. Init => KeptInv
  BY IdleRecords DEF Init, KeptInv, SpooledKnown, SweepKnown, NoneCanceled
<1> QED
  BY <1>1, InitType, NextType, AttemptInit, AttemptNext, LifeInit, LifeNext, KeptNext, KeptStep,
     PTL DEF Spec, DownloadKept, Kept
=============================================================================
