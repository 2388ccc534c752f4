------------------------------- MODULE Indexer -------------------------------
(***************************************************************************)
(* The cached index of one server's library and the runs that keep it in   *)
(* step with the server (apps/web/lib/indexer.ts, index-manager.ts,        *)
(* scheduler.ts and the two listings of packages/abs-client/src/client.ts).*)
(*                                                                         *)
(* The library is listed page by page, by title for a full run and newest  *)
(* first for an incremental one, and may change between two pages.  Rows   *)
(* are written in chunks.  A full run then deletes the rows whose seenAt   *)
(* is older than its own start: instead of times, `old` holds for each row *)
(* the runs under way for which that is so.  One included library and one  *)
(* sort key are modelled; the key is one the server honours.               *)
(***************************************************************************)
EXTENDS Integers, FiniteSets

CONSTANTS
    NumItems,      \* bound: items the library may ever hold, in title order
    Runs,          \* bound: simultaneous calls of indexServer
    PageSize,      \* items per page request
    WriteChunk,    \* WRITE_CHUNK
    MaxPages,      \* INCREMENTAL_MAX_PAGES
    DuringFull,    \* how the library may change while a full run is under way
    DuringNewest,  \* and while an incremental one is; both subsets of AllChanges
    MaxChanges,    \* bound: changes of the library
    Ops,           \* what people do, a subset of AllOps
    FaultKinds,    \* the faults that may strike, a subset of AllFaults
    MaxFaults,     \* bound: faults in one behaviour
    None           \* no run

AllChanges == {"add", "modify", "remove"}
AllOps == {"start", "cancel"}
AllFaults == {"crash", "error"}
Items == 1..NumItems
Gone == -1                      \* the stamp of an item removed from the library
Infinity == 2 + MaxChanges      \* later than every stamp

ASSUME IndexerAssumption ==
    /\ NumItems \in Nat
    /\ PageSize \in Nat \ {0} /\ WriteChunk \in Nat \ {0} /\ MaxPages \in Nat \ {0}
    /\ WriteChunk % PageSize = 0
    /\ MaxChanges \in Nat /\ MaxFaults \in Nat
    /\ None \notin Runs

VARIABLES
    lib,        \* the server's items: when each was last modified, or 0 or Gone
    clock,      \* the server's newest modification time
    changes,    \* changes of the library so far
    held,       \* IndexedItem.absMtimeMs of each row; 0 if there is no row
    old,        \* the runs under way that started after the row was last seen
    lastFull,   \* Server.lastFullIndexAt: "never", "fresh" or "stale"
    run,        \* each call of indexServer: where it is and what it holds
    running,    \* IndexManager.running: the run it started, or None
    passes,     \* the runs that passes of the scheduler started
    passing,    \* Scheduler.running
    passed,     \* Scheduler.lastRun is not null
    faults      \* faults so far

library == <<lib, clock, changes>>
index == <<held, old>>
owners == <<running, passes, passing, passed>>
vars == <<library, index, lastFull, run, owners, faults>>

RunPcs == {"idle", "baseline", "incPage", "filter", "write",
           "full", "page", "flush", "rest", "prune", "finish"}
NoRecords == [i \in Items |-> 0]
IdleRun == [pc |-> "idle", mode |-> "full", aborted |-> FALSE, page |-> 0, last |-> FALSE,
            loaded |-> 0, since |-> 0, oldest |-> 0, records |-> NoRecords, later |-> {}]
Stamps == 0..Infinity
Active == {r \in Runs : run[r].pc # "idle"}

TypeOK ==
    /\ lib \in [Items -> Stamps \cup {Gone}]
    /\ clock \in Stamps
    /\ changes \in 0..MaxChanges
    /\ held \in [Items -> Stamps]
    /\ old \in [Items -> SUBSET Runs]
    /\ lastFull \in {"never", "fresh", "stale"}
    /\ run \in [Runs -> [pc : RunPcs, mode : {"full", "incremental"}, aborted : BOOLEAN,
                         page : Nat, last : BOOLEAN, loaded : Nat, since : Stamps,
                         oldest : Stamps, records : [Items -> Stamps], later : SUBSET Runs]]
    /\ running \in Runs \cup {None}
    /\ passes \subseteq Runs
    /\ passing \in BOOLEAN
    /\ passed \in BOOLEAN
    /\ faults \in 0..MaxFaults

Init ==
    /\ lib \in [Items -> {0, 1}]
    /\ clock = 1
    /\ changes = 0
    /\ held = [i \in Items |-> 0]
    /\ old = [i \in Items |-> {}]
    /\ lastFull = "never"
    /\ run = [r \in Runs |-> IdleRun]
    /\ running = None
    /\ passes = {}
    /\ passing = FALSE
    /\ passed = FALSE
    /\ faults = 0

-----------------------------------------------------------------------------
(***************************************************************************)
(* The library: what the server does on its own.                           *)
(***************************************************************************)
Listed == {i \in Items : lib[i] > 0}

Change(kind, i, stamp) ==
    /\ changes < MaxChanges
    /\ \A r \in Active : kind \in IF run[r].mode = "full" THEN DuringFull ELSE DuringNewest
    /\ changes' = changes + 1
    /\ lib' = [lib EXCEPT ![i] = stamp]
    /\ clock' = IF stamp > clock THEN stamp ELSE clock
    /\ UNCHANGED <<index, lastFull, run, owners, faults>>

\* Two changes may fall into the same millisecond.
LibraryStep ==
    \E i \in Items, stamp \in {clock, clock + 1} :
        \/ lib[i] = 0 /\ Change("add", i, stamp)
        \/ lib[i] > 0 /\ lib[i] # stamp /\ Change("modify", i, stamp)
        \/ lib[i] > 0 /\ Change("remove", i, Gone)

\* The items of page n, by title or newest first.
OnPage(position, n) == n * PageSize <= position /\ position < (n + 1) * PageSize
NewestFirst(k, i) == lib[k] > lib[i] \/ (lib[k] = lib[i] /\ k < i)
TitlePage(n) == {i \in Listed : OnPage(Cardinality({k \in Listed : k < i}), n)}
NewestPage(n) == {i \in Listed : OnPage(Cardinality({k \in Listed : NewestFirst(k, i)}), n)}

-----------------------------------------------------------------------------
(***************************************************************************)
(* How runs start, and how they end.                                       *)
(***************************************************************************)
\* A missing or a stale full index makes an automatic run a full one.  (Variants: only
\* a missing one does; the run is given the mode that was asked for.)
ModeNeverStale(requested) ==
    IF requested = "full" \/ lastFull = "never" THEN "full" ELSE "incremental"
ModeAsRequested(requested) ==
    IF lastFull \in {"never", "stale"} THEN "full" ELSE requested
Mode(requested) ==
    IF requested = "full" \/ lastFull \in {"never", "stale"} THEN "full" ELSE "incremental"

Begin(r, requested) ==
    /\ run[r].pc = "idle"
    /\ run' = [run EXCEPT ![r].mode = Mode(requested),
                          ![r].pc = IF Mode(requested) = "full" THEN "full" ELSE "baseline"]
    /\ UNCHANGED <<library, index, lastFull, faults>>

\* IndexManager.start, unless a run it started is under way.
Start(r, requested) ==
    /\ "start" \in Ops
    /\ running = None
    /\ running' = r
    /\ Begin(r, requested)
    /\ UNCHANGED <<passes, passing, passed>>

\* Scheduler.runNow indexes without asking the manager.
Pass(r) ==
    /\ ~(passing /\ passed)
    /\ passing' = TRUE
    /\ passes' = passes \cup {r}
    /\ Begin(r, "auto")
    /\ UNCHANGED <<running, passed>>

\* IndexManager.cancel: only its own run can be cancelled.
Cancel ==
    /\ "cancel" \in Ops
    /\ running # None
    /\ ~run[running].aborted
    /\ run' = [run EXCEPT ![running].aborted = TRUE]
    /\ UNCHANGED <<library, index, lastFull, owners, faults>>

GoStale ==
    /\ lastFull = "fresh"
    /\ lastFull' = "stale"
    /\ UNCHANGED <<library, index, run, owners, faults>>

\* The run returns, and what started it notices.
Over(r) ==
    /\ run' = [q \in Runs |-> IF q = r THEN IdleRun
                              ELSE [run[q] EXCEPT !.later = @ \ {r}]]
    /\ old' = [i \in Items |-> old[i] \ {r}]
    /\ running' = IF running = r THEN None ELSE running
    /\ passes' = passes \ {r}
    /\ passing' = (passing /\ r \notin passes)
    /\ passed' = (passed \/ r \in passes)

\* The signal is seen before a full crawl, and by every request for a page.
Aborts(r) ==
    /\ run[r].pc \in {"incPage", "full", "page"}
    /\ run[r].aborted
    /\ Over(r)
    /\ UNCHANGED <<library, held, lastFull, faults>>

\* A request or a query fails.
Fails(r) ==
    /\ "error" \in FaultKinds
    /\ faults < MaxFaults
    /\ run[r].pc # "idle"
    /\ faults' = faults + 1
    /\ Over(r)
    /\ UNCHANGED <<library, held, lastFull>>

Crash ==
    /\ "crash" \in FaultKinds
    /\ faults < MaxFaults
    /\ faults' = faults + 1
    /\ run' = [r \in Runs |-> IdleRun]
    /\ old' = [i \in Items |-> {}]
    /\ running' = None
    /\ passes' = {}
    /\ passing' = FALSE
    /\ passed' = FALSE
    /\ UNCHANGED <<library, held, lastFull>>

-----------------------------------------------------------------------------
(***************************************************************************)
(* A full run.                                                             *)
(***************************************************************************)
\* flush: upserts the records, seen as of the start of the run.
Upsert(r, records) ==
    /\ held' = [i \in Items |-> IF records[i] > 0 THEN records[i] ELSE held[i]]
    /\ old' = [i \in Items |-> IF records[i] > 0 THEN run[r].later ELSE old[i]]

\* runStart: from here on every row there is counts as not seen.
FullBegin(r) ==
    /\ run[r].pc = "full"
    /\ ~run[r].aborted
    /\ run' = [q \in Runs |->
                 IF q = r THEN [IdleRun EXCEPT !.pc = "page"]
                 ELSE IF q \in Active THEN [run[q] EXCEPT !.later = @ \cup {r}] ELSE run[q]]
    /\ old' = [i \in Items |-> IF held[i] > 0 THEN old[i] \cup {r} ELSE {}]
    /\ UNCHANGED <<library, held, lastFull, owners, faults>>

\* A page arrives; a full buffer is written before the next is requested.
FullPage(r) ==
    LET batch == TitlePage(run[r].page)
        loaded == run[r].loaded + Cardinality(batch)
        last == Cardinality(batch) < PageSize \/ loaded >= Cardinality(Listed)
    IN
    /\ run[r].pc = "page"
    /\ ~run[r].aborted
    /\ run' = [run EXCEPT
         ![r].pc = IF batch # {} /\ loaded % WriteChunk = 0 THEN "flush"
                   ELSE IF last THEN "rest" ELSE "page",
         ![r].page = @ + 1, ![r].loaded = loaded, ![r].last = last,
         ![r].records = [i \in Items |-> IF i \in batch THEN lib[i] ELSE @[i]]]
    /\ UNCHANGED <<library, index, lastFull, owners, faults>>

\* iterateBooks simply stops when the signal was given while rows were written.
FullFlush(r) ==
    /\ run[r].pc = "flush"
    /\ Upsert(r, run[r].records)
    /\ run' = [run EXCEPT ![r].records = NoRecords,
                          ![r].pc = IF run[r].last \/ run[r].aborted THEN "rest" ELSE "page"]
    /\ UNCHANGED <<library, lastFull, owners, faults>>

\* The last, partial chunk.  (Variant: it is not written.)
FullRestForgotten(r) ==
    /\ run[r].pc = "rest"
    /\ run' = [run EXCEPT ![r].records = NoRecords, ![r].pc = "prune"]
    /\ UNCHANGED <<library, index, lastFull, owners, faults>>
FullRest(r) ==
    /\ run[r].pc = "rest"
    /\ Upsert(r, run[r].records)
    /\ run' = [run EXCEPT ![r].records = NoRecords, ![r].pc = "prune"]
    /\ UNCHANGED <<library, lastFull, owners, faults>>

\* deleteMany: the rows last seen before this run started.  (Variant: an empty listing
\* is not believed.)
PrunableIfListed(r) == {i \in Items : r \in old[i] /\ run[r].loaded > 0}
Prunable(r) == {i \in Items : r \in old[i]}
FullPrune(r) ==
    /\ run[r].pc = "prune"
    /\ held' = [i \in Items |-> IF i \in Prunable(r) THEN 0 ELSE held[i]]
    /\ old' = [i \in Items |-> IF i \in Prunable(r) THEN {} ELSE old[i]]
    /\ run' = [run EXCEPT ![r].pc = "finish"]
    /\ UNCHANGED <<library, lastFull, owners, faults>>

-----------------------------------------------------------------------------
(***************************************************************************)
(* An incremental run.                                                     *)
(***************************************************************************)
Escalate(r) ==
    run' = [run EXCEPT ![r] = [IdleRun EXCEPT !.pc = "full", !.aborted = run[r].aborted]]

\* baselineFor: the newest stamp held; without one the crawl is a full one.
Baseline == CHOOSE stamp \in {held[i] : i \in Items} \cup {0} :
              \A i \in Items : held[i] <= stamp

IncBaseline(r) ==
    /\ run[r].pc = "baseline"
    /\ \/ /\ Baseline = 0 \/ run[r].aborted
          /\ Escalate(r)
       \/ /\ Baseline > 0 /\ ~run[r].aborted
          /\ run' = [run EXCEPT ![r].pc = "incPage", ![r].since = Baseline,
                                ![r].oldest = Infinity]
    /\ UNCHANGED <<library, index, lastFull, owners, faults>>

\* reachedOlder: strictly older, so that the baseline's own millisecond is read again.
\* (Variant: that millisecond ends the walk.)
OlderOrEqual(stamp, since) == stamp <= since
Older(stamp, since) == stamp < since

\* fetchBooksModifiedSince: the order is verified, then older items end the walk.
IncPage(r) ==
    LET batch == NewestPage(run[r].page)
        ordered == \A i \in batch : lib[i] <= run[r].oldest
        complete == \/ \E i \in batch : Older(lib[i], run[r].since)
                    \/ Cardinality(batch) < PageSize
        records == [i \in Items |-> IF i \in batch /\ ~Older(lib[i], run[r].since)
                                    THEN lib[i] ELSE run[r].records[i]]
    IN
    /\ run[r].pc = "incPage"
    /\ ~run[r].aborted
    /\ \/ /\ ~ordered \/ (~complete /\ run[r].page + 1 = MaxPages)
          /\ Escalate(r)
       \/ /\ ordered /\ complete
          /\ run' = [run EXCEPT ![r].pc = "filter", ![r].records = records]
       \/ /\ ordered /\ ~complete /\ run[r].page + 1 < MaxPages
          /\ \E oldest \in {lib[i] : i \in batch} :
               /\ \A i \in batch : oldest <= lib[i]
               /\ run' = [run EXCEPT ![r].page = @ + 1, ![r].records = records,
                                     ![r].oldest = oldest]
    /\ UNCHANGED <<library, index, lastFull, owners, faults>>

\* filterChanged
IncFilter(r) ==
    /\ run[r].pc = "filter"
    /\ run' = [run EXCEPT
         ![r].pc = "write",
         ![r].records = [i \in Items |-> IF @[i] = held[i] THEN 0 ELSE @[i]]]
    /\ UNCHANGED <<library, index, lastFull, owners, faults>>

\* The newest records that are left are written first.
IncWrite(r) ==
    LET records == run[r].records
        left == {i \in Items : records[i] > 0}
        chunk == {i \in left :
                    Cardinality({k \in left : \/ records[k] > records[i]
                                              \/ records[k] = records[i] /\ k < i})
                      < WriteChunk}
    IN
    /\ run[r].pc = "write"
    /\ Upsert(r, [i \in Items |-> IF i \in chunk THEN records[i] ELSE 0])
    /\ run' = [run EXCEPT
         ![r].records = [i \in Items |-> IF i \in chunk THEN 0 ELSE @[i]],
         ![r].pc = IF chunk = left THEN "finish" ELSE "write"]
    /\ UNCHANGED <<library, lastFull, owners, faults>>

-----------------------------------------------------------------------------
\* The run completes; a full one is remembered as such.
Finish(r) ==
    /\ run[r].pc = "finish"
    /\ lastFull' = IF run[r].mode = "full" THEN "fresh" ELSE lastFull
    /\ Over(r)
    /\ UNCHANGED <<library, held, faults>>

RunStep(r) ==
    \/ Aborts(r) \/ Finish(r)
    \/ FullBegin(r) \/ FullPage(r) \/ FullFlush(r) \/ FullRest(r) \/ FullPrune(r)
    \/ IncBaseline(r) \/ IncPage(r) \/ IncFilter(r) \/ IncWrite(r)

Next ==
    \/ LibraryStep \/ GoStale \/ Cancel \/ Crash
    \/ \E r \in Runs : \/ Pass(r) \/ Fails(r) \/ RunStep(r)
                       \/ \E requested \in {"auto", "full"} : Start(r, requested)

Spec == Init /\ [][Next]_vars

\* Requests and queries answer, the timer goes on firing and time goes by; nobody has
\* to start or cancel anything.
FairSpec ==
    /\ Spec
    /\ WF_vars(GoStale)
    /\ \A r \in Runs : WF_vars(RunStep(r)) /\ WF_vars(Pass(r))

-----------------------------------------------------------------------------
\* A row only leaves the index when its item has left the library; the prune of a
\* cancelled run, which has not listed everything, is the one exception.
NoFalseRemoval ==
    [][\A i \in Items : held[i] > 0 /\ held'[i] = 0 =>
         lib[i] \notin Stamps \/ \E r \in Runs : FullPrune(r) /\ run[r].aborted]_vars

\* "deletes rows the run did not touch ... this is what reconciles deletions": nor does a
\* cancelled run remove the row of an item that the library has.
CanceledRemovesNone ==
    [][\A r \in Runs : FullPrune(r) /\ run[r].aborted =>
         \A i \in Listed : held[i] > 0 => held'[i] > 0]_vars

\* A full run that completes, even a cancelled one, leaves no row of an item that had
\* left the library before it began.
NoGhosts ==
    [][\A r \in Runs : Finish(r) /\ run[r].mode = "full" =>
         \A i \in Items : held[i] > 0 => lib[i] > 0]_vars

\* Between runs, with a full index behind them, whatever the index lacks or has wrong
\* is new enough for the next incremental run to find: its stamp is not below the baseline.
Findable ==
    (Active = {} /\ lastFull = "fresh") =>
        \A i \in Listed : held[i] # lib[i] => lib[i] >= Baseline

\* Once the library rests and nobody cancels a run, the index becomes what the library is,
\* removals included, and whatever the cancelled ones have left undone or removed.
Converges ==
    <>[][~Cancel]_vars => <>[](\A i \in Items : held[i] = IF lib[i] > 0 THEN lib[i] ELSE 0)
=============================================================================
