# abs-sync in TLA+

abs-sync compares Audiobookshelf servers and copies audiobooks that one of them (the target)
lacks from the others. Everything runs in one Node process: a Next.js application, a transfer
worker that polls a queue in SQLite, a scheduler that re-indexes the servers and evaluates
watches, and HTTP clients for the servers. This directory holds TLA+ modules of its core logic,
TLC configurations that check them on small instances, and proofs checked by TLAPS.

Paths below are relative to the repository root; `lib` is `apps/web/lib`. `PROJECT.json` has the
machine-readable side: components, runs, mutants, the line map, findings, hazards and theorems.

## 1. Inventory

JavaScript runs one thing at a time, so interleavings happen at `await`s only: a handler that
reads a row, awaits, and then writes what it concluded is at least two steps. SQLite and the disk
survive a crash; everything else (maps, timers, promises, caches) does not.

| Component | State | Operations | Hard parts | What makes it correct | Module |
|---|---|---|---|---|---|
| Transfer worker, `lib/sync-worker.ts` | `SyncJob` rows, `active` map, `ticking`, `recovered`, spool directories | tick (recover, sweep, evict, claim), runJob, cancel, retry, clear | slots, request handlers and the tick interleave; crash at any point; cleanup by job id | limit kept, map truthful, spool kept while used, attempts never spent, every transfer settles | `SyncWorker`, `JobLifecycle` |
| Files of a transfer, same file and `packages/abs-client/src/client.ts` | the spool, file by file | list, discard, reuse, fetch, verify, upload | the item changes between attempts; an attempt breaks off in a file; two lists of one item disagree | uploaded whole and complete, nothing fetched twice | `Spool` |
| Enqueueing, `lib/sync-worker.ts`, with the list of transfers, `lib/job-groups.ts` | `SyncJob` rows, the rendered list | enqueueSync, retry, clear, render | four queries before the write, no constraint behind them; rows written by id whatever they are by then; a list that is out of date | a bounded surplus of transfers and rows | `Enqueue` |
| Watches, `lib/watches.ts` | `SeriesWatch` rows | evaluate one, evaluate all | several awaits between evaluation and enqueue; records read once for all watches | nothing asked for that is owned or in doubt | `Watches` |
| Matching and diffing, `packages/core/src` | none | score, cluster, report editions | clusters grow while books join them | every book accounted for, nothing doubtful queued | `Matching`, `Diff` |
| Comparison cache, `lib/compare.ts` | cached results with a fingerprint | compare, invalidate | rows are read before the fingerprint; a result is stored after an invalidation | what is served says what the index says | `CompareCache` |
| Compare page, `apps/web/app/compare` | choices, ticks and filters, in the browser | choose, tick, queue one, a group or the selection | the list is rendered anew while somebody picks | what was picked is what is queued | `MissingList` |
| Indexer, `lib/indexer.ts`, with `index-manager.ts`, `scheduler.ts` and the listings of the client | `IndexedItem` rows, `lastFullIndexAt`, running maps | full and incremental run, start, cancel, scheduled pass | the library changes between pages; chunked writes; cancel, crash, overlap | no row of a present item removed, nothing left out of reach, converges | `Indexer` |
| Servers, `lib/servers.ts` | `Server`, `Library` rows | create, update, set target, delete, verify, include | a verification asks, awaits, and then writes | one target; libraries neither lost nor brought back | `Servers` |
| Settings, `lib/settings.ts`, `env.ts`, the scheduler's timer | `AppSetting` rows, overrides, a cached environment | boot, save, reset, load | overlapping saves; one write of several fails; an unreadable secret | what is used is in force, what is in force is stored | `Settings` |
| Notifications, `lib/notify*.ts` | buffer, timer, promise chain, cached channel, subscriptions | push, flush, deliver | a window, a chain and two transports that fail apart | each event told once | `Notifier` |
| Audiobookshelf client, `packages/abs-client/src/client.ts` | token, login in flight, download address | login, refresh, request, download, upload | several requests are refused at once; two styles of server | one login at a time, an expiry costs nothing, an answer for each | `AbsClient` |
| Upload over node:http, `lib/node-upload.ts` | one promise | respond, fail, time out | several late events | settles once, with the answer if there was one | `NodeUpload` |

How they meet: the scheduler runs the indexer over all servers, then evaluates the watches; a
watch, like a person at the compare page, calls `enqueueSync`, which adds a row that the worker's
next tick claims. The worker downloads from the source into the spool and uploads to the target
through the client. An index run that changed something invalidates the comparison cache. Cancel,
retry and clear are request handlers that write the same rows as the worker. Settings decide the
worker's and scheduler's numbers and the notifier's transports.

## 2. Modules

A module is a component; what it composes it EXTENDS or INSTANCEs: `Watches` stands on `Enqueue`
(what it asks for) and `Matching` (what it compares), `Diff` and `MissingList` on `Matching`, and
`SyncWorker` implements `JobLifecycle` (`Life`). The `MC` modules set up the instances. Components
that share no state are checked side by side in one run, as its *parts*: a variable `part` says
which one moves, the others rest in their initial states. That says nothing about them together,
and is not meant to; it only saves runs.

A definition that comes with a second one before it and the word "Variant" in its comment is the
code with a plausible mistake in it: the mistake that a property of the runs is there to notice.

### `SyncWorker` and `JobLifecycle`

| Variable | Code |
|---|---|
| `status`, `attempts`, `spoolPath` | columns of `SyncJob` (`absent` before the row is created, `deleted` after it is cleared) |
| `disk` | the job's spool directory: absent, partial or full |
| `copies` | what the receiving server has stored (external) |
| `active` | `SyncWorker.active`: job to the run whose controller is registered |
| `run` | one record per invocation of `runJob`: `load` → `download` → `upload` → `answer` → `accepted`, or `caught`; then `logging` (the log is written, `finally` drops the spool), `settle` (the map entry goes) |
| `tick`, `recovered` | the polling pass and where it stands: recovery at boot, sweep, eviction, find, claim, launch |
| `call` | the handlers `cancelJob`, `retryJob`, `clearFinishedJobs` and `enqueueSync` asked again, each with what it has read |
| `faults` | crashes, lost answers and database errors so far |
| `late` | a history: how often a request wrote a row while its transfer was under way or through |

One action stands for the code between two awaits. `RunDownload` is the download of all files as
one step (`Spool` has them one by one); an attempt that dies in the middle leaves `partial`. The
budget of the spool is abstracted: an eviction may end after any number of removals. `wake()` only
starts a tick early; ticks start at any time here, so it needs no action.

`RetryRead` and `RetryWrite` stand for `retryJob` (sync-worker.ts:790-807) and for `enqueueSync` that
finds a stopped row (135-167): both read it, await, and update it by id without a look at its status.
Two such requests that overlap can therefore queue a row whose transfer is running or done by then.
A write that does is *late* (`IsLate`), and `MaxLate` bounds how many there are for one row.

`JobLifecycle` is what a person may expect of one transfer: it is pending until it has an outcome,
a book is stored only for a pending transfer (or one cleared under way), completed means stored.
A late request ends these promises: the row is then `overtaken`, and all that remains is that
somebody may clear it. The property `Lifecycle` of `SyncWorker` states the refinement; the mapping
takes `queued` and `running` to `pending`, and a row with a late request to `overtaken`. It holds
while nobody cancels: a cancellation that races with a claim is overwritten (section 6). Section 4
proves it.

### `Spool`

One job, with the files that `libraryFiles` and `media.*` list, each an ino, a name, a size the
source may not tell, and a kind. `Listing` and `Unfetchable` are `listItemFilesDetailed`;
`Attempt`, `Discard`, `Reuse`, `Open`, `Fetched`, `Truncated`, `Breaks`, `Loaded`, `Uploaded` are
the steps of `runJob`. The item may become any of nine others twice: a chapter less, an ino of
before a remount, a chapter that cannot be fetched, no `libraryFiles`, a file replaced, one without
size or kind, too large. Contents are their length. The server finds a file by its ino among
`libraryFiles`, as the comment in the client has it. `SpoolAssumption` says what items there are:
either list has an ino once, which is what the `Map` of `listItemFilesDetailed` makes of it; and what
`libraryFiles` has of the audio in `media.*`, by ino or by name, has the same name under that ino and
is audio or of no type there, never an image or an ebook. The latter is the server's doing, not the
client's, and only `ListingRight` rests on it.

### `Enqueue`, `Matching` and `Watches`

`request` records a call of `enqueueSync` between its queries: same item live? same work live
under another server? a stopped attempt to revive (the one with audio first, then the newest)?
otherwise create. `slot` are the invocations of `runJob`, each with the row it transfers: a run
claims a queued row (`Claim`), notes its spool (`Download`) and writes its outcome (`End`), all by id
and without a look at what the row is by then, as the code does. `Cancel` writes "canceled" over any
row of the list, since `cancelJob` may have read it when it was queued (as every row was once), and
`clearing` are the rows that `clearFinishedJobs` has read and deletes some awaits later. So a run may
go on while its row says that it was canceled or is queued, or is gone; the property counts the runs
themselves (`Transfers`). A write by id that takes a row from its run (`Taken`) counts as `late`, and
so does a retry of what the list would not offer any more or that meets a call under way. The steps
inside a run, and restarts, are `SyncWorker`'s. A retry that finds a transferred row queues it
again, and the row counts once: that the book is then stored twice is what `OneCopyPerFault` of
`SyncWorker` counts. A transferred row that is cleared, or that a late cancel overwrites, is no
longer counted. `shown` are the rows that a list of
transfers rendered so far offers to retry, with the attempts grouped as `job-groups.ts` groups them.

`Matching` is `match.ts` and the clustering of `diff.ts`: scores, tiers, and what forbids a match
(volumes, series positions, editions), over similarities that are given as constants, because how
letters are compared is data. `Missing` goes through the source books (a recursive function, so that
it can be proved about) and puts each into the cluster whose founder it is like, or a new one. `Diff`
puts any books in, in any order.

`Watches`' `pass` is one evaluation: the guards, the five queries in their order, the comparison,
whose rows are its `queue`, and for each row that is `Asked` for one `enqueueSync` after the other,
run step by step as `Enqueue` has it; rows come and go and the target moves in between.

### `CompareCache`

A comparison reads the target's rows, the sources', then the fingerprint, and looks for an entry
in the same turn (`Hit`, `Miss`): better-sqlite3 answers synchronously, so that no index run gets in
between the two (with a driver that lets one in, `ServedCurrent` fails: an answer delayed past
another comparison's whole life meets the entry that this one stored). It computes with yields, and
stores. An entry holds the rows it was computed from, since the result is a function of them. Index
runs write, prune and finish in steps; a run that fails does not invalidate. `over` are the runs
that were under way while a comparison read, and are still; `doubt` says that one of them wrote and
is over, or that a library was switched meanwhile. An entry of which neither speaks (`Mixed`) is of
one state of the index, whenever it was stored: `ServedCurrent` is about those.

### `MissingList`

`shown` is the list as last rendered (`View` makes a row of a cluster, as `compare` does), `choices`
and `selected` are the page's state under the ids of rows, `bulk` is the server action under way,
which asks for one row after the other. `Return` and `Render` are what happens when it answers.

### `Indexer`

| Variable | Code |
|---|---|
| `lib`, `clock` | the server's library and its modification times (external) |
| `held` | `IndexedItem.absMtimeMs` by item, 0 without a row |
| `old` | replaces `IndexedItem.seenAt`: the runs under way that started after the row was last seen, which is all that `seenAt < runStart` asks. Two runs never start in the same millisecond |
| `lastFull` | `Server.lastFullIndexAt`: never, fresh, or older than the re-index interval |
| `run` | one record per call of `indexServer`: page, buffer, baseline, mode |
| `running`, `passes`, `passing`, `passed` | `IndexManager.running`; the scheduler's runs, its `running` flag and whether `lastRun` is set |

A full run is `FullBegin`, then per page `FullPage` and, when the buffer is full, `FullFlush`, then
`FullRest`, `FullPrune`, `Finish`. An incremental run is `IncBaseline`, `IncPage`s, `IncFilter`,
`IncWrite`s, `Finish`, and turns into a full one by `Escalate`. The abort signal is seen where the
code looks at it: before a crawl, by the request for a page, and at the head of `iterateBooks`,
which ends the listing without an error. One library and one sort key that the server honours are
modelled; runs on several libraries repeat the same steps on disjoint rows.

### `Servers`, `Settings`, `Notifier`

`Servers`: a call reads, awaits the server (`AskServer`), and commits; deletes cascade. Libraries
are "none", "in" or "out". `Settings`: a save writes its keys one by one, loads (reads, then
replaces the overrides), and re-arms the timer, each a step; a restart may come with another secret.
A malformed variable of the environment gives way to the default where `number` or `bytes` reads it
(`Checked`) and nowhere else. A boot may fail before the settings are loaded, or after. `Notifier`:
`buffer` and `digest` (the code's `timer`) are the window, `chain` the promises behind `inFlight`,
`delivery` the call of `deliver` under way with its two transports side by side; the channel's id is
looked up in one step and posted to in another. A post to a channel that is not there may be
answered 404 (`Refuse`), upon which the id is forgotten, or fail in any other way (401, 403, 5xx, a
time-out: `Answered`), which keeps it.

### `AbsClient`, `NodeUpload`

`AbsClient`'s `req` are requests of five kinds between sending and answer: JSON, a download with its
library's id and one without (which has one address to try, not two), a file, an upload. A signal is
noticed on the wire, in the pause before a retry and as the body of a good answer is read (`Stops`);
a request aborted anywhere else goes on to its next such place, a refused one by way of a login.
`token`, `loginInFlight`, `template` are the fields of the client, `kept` and `saving` the
token in the database and on its way there. The server (modelled after the mock server) has one
valid token, which expires, a style of download address, permissions, and trouble. `NodeUpload` has
the events of one `sendUpload`, which come in any order the sockets allow.

## 3. Runs

All of them finish in less than five minutes with two workers.

| Run | Instance | States | What it shows |
|---|---|---|---|
| `worker_single` | 1 slot, 2 jobs, 2 runs, one handler (cancel, retry), a crash | 3.5 M | types; the map is truthful; no more transfers than slots; no transfer loses its spool |
| `worker_retry` | 2 slots, 1 job, 2 runs, 2 handlers that retry and clear without limit, two faults of any kind, one late request | 2.7 M | attempts are counted right; each fault and each late request costs at most one surplus copy of a book; a finished download goes only in the cases the property lists; the whole is a `JobLifecycle` |
| `worker_live` | 1 slot, 2 jobs, cancel, a crash, fair | 0.19 M | every transfer settles; the spool of a completed one goes away |
| `index` | two parts: 3 items, cancel, a crash or error, 2 changes even during a full run; and 4 items, 3 changes, without faults | 1.2 M | only rows of items that are gone are removed, and all of those are; whatever the index lacks is at or above the baseline of the next incremental run |
| `index_live` | 3 items, any change at any time, cancel, a crash or error, fair | 0.3 M | once nobody cancels, the index becomes what the library is |
| `client` | three parts: 2 requests, 4 accounts; one upload; one item with three chapters and images, 2 changes, 3 attempts; fair | 0.5 M | one login at a time; an expiry costs no answer; an existing item is found where the request can tell its address; every request and upload ends, the latter with its answer; what is uploaded is whole, complete and fetched once |
| `home` | three parts: 2 keys, 2 saves, a fault; 2 events, 2 servers, 1 browser, a change; 4 copies of 2 books, 2 moves; fair | 0.5 M | what is used is in force and what is in force is stored; each event is told once, a replaced channel is answered 404 once; a pick is what is queued, and nothing that was not picked |
| `catalog` | seven parts: 2 servers at 2 addresses; 2 comparisons, 2 index runs; any 3 of 8 books against 2; two requests in turn, with and without a title, with a late write; two at once; 2 slots; two watches in one evaluation | 0.5 M | one target, libraries kept; what is served is current; every book accounted for and nothing doubtful queued; a bounded surplus; nothing asked for that is owned |
| `bug_limit`, `bug_index_cancel`, `bug_volumes`, `bug_choice` | | violated | see section 6 |

**Bounds.** Every behaviour the worker's properties forbid needs at most two runs of one job, or one
run and the tick, plus one handler or one fault; two jobs add contention for the slot. `MaxAttempts`
2 has both an automatic retry and a final failure. `MaxFaults` counts faults of any kind;
`MaxCopies` is above the number any counted behaviour reaches. For enqueueing, two copies of a book
under two servers and one item whose title normalises to nothing are all that the checks tell apart;
rows (3) suffice for two requests and a retry, and two slots for a run whose row was taken from it
and the one that was claimed since. One late request for a row is enough for a second transfer of it
beside the first, and another comes from the faults. `worker_single` leaves `late` out of what tells
two states apart (`VIEW WithoutLate`): none of its properties reads it, and its bound there is more
than the steps to any state, so that nothing is cut off. For the indexer, a page of one item and a
chunk of two give several pages, several chunks and a partial last one with three items; three pages
is the budget, so that both escalation and an early stop happen; two changes may fall in the same
millisecond. In `catalog` two comparisons are under way at once (one, once a library was switched),
and one pass over the watches at a time; section 4 has no such limits. In `client`, of two requests
at once one is for JSON or both are downloads, as the others have only the login in common; the
proofs have any two. Two expiries would be two refusals in one request, which the code gives up
after; in `Spool` three attempts and two changes let a file be fetched, changed and changed back. In
`diff` three books make a cluster with a founder and two that never met. In `home`, an event that
waits and one that goes at once, and one change of the configuration between them.

`CHECK_DEADLOCK FALSE` is set where the system may stop: nobody has to ask for anything, requests
and attempts end, and the rows are bounded.

**Fairness.** A started handler, tick or transfer goes on, because SQLite answers and both
directions of a transfer end in an answer or a time-out; the 5 s timer starts ticks for ever
(`WF`), and because ticks are short one of them finds the sweep due (`SF` on `TickSweep`: between
two sweeps it is disabled, again and again, while a tick is under way). For the indexer the requests
answer or fail, the timer goes on firing, and a full index goes stale after
`ABS_SYNC_FULL_REINDEX_HOURS`. A client's request that has been sent gets an answer, an error or its
time-out; a destroyed socket gets its events; the notifier's timer fires and deliveries end.
(Web push passes no time-out of its own; that a delivery ends rests on the socket.) Requests of
people, changes at servers and faults are never fair.

## 4. Proofs

`SyncWorkerProofs` proves of the queue and its worker, for any
number of jobs, runs, handlers, slots, attempts and faults (assumptions: `BoundsAssumption` and
`NoneAssumption`, which only say that the bounds are numbers, at least one slot and one attempt,
and that "no job" is no job):

- `TypeCorrect`: `TypeOK` always holds. `TypeInv` adds that a caught run has a verdict.
- `AttemptsNeverSpent`: a queued or running row has attempts left. This is not inductive: the
  catch block's verdict was computed earlier than it is written (`QueuedVerdictLeft`), recovery
  puts back rows it read some awaits ago (`StrandedLeft`), which is only right because no transfer
  runs before it is done (`RecoversAlone`), and a new row starts untried (`AbsentUntried`).
- `ActiveBounded`: the map never exceeds `MaxConcurrent`. Between the look at the map and the
  registration the slot stays free, since only the tick registers (`ActiveInv`).
- `SingleSlotTracked`, `SingleSlotLimit`: with `MaxConcurrent = 1`, every run that has not settled
  is the one its job maps to, hence there is one (`SlotInv`). With two slots this is false; that
  is the first finding below.
- `SingleSlotSpoolHeld`: with one slot and nothing cleared, a transfer that reads or writes its
  spool has one (`SpoolInv`: what may be evicted is never active).

- `QueueIsLifecycle`: every behaviour of the queue is one of `JobLifecycle`. Assumed: nothing is
  cancelled (`NoCancels`; a cancel overwrites a row by id whatever it has become, and section 6 says
  what that does), and copies are counted at all (`Counted`). Retrying and asking again, late or
  not, clearing by any number of people, every fault, the sweep and any number of slots are in.
  `LifeInv` carries it: until a request for its row comes late (`OnTime`) a transfer and a claim
  have their job to themselves and its row is running or deleted (`OwnJob`, `ClaimAlone`), so an
  outcome is only written to a pending transfer; what recovery requeues was running and no transfer
  runs meanwhile; a delivered book is stored.
- `OneCopyEach`: under the same assumptions, and that the simultaneous runs are finitely many,
  `OneCopyPerFault`. The bound alone is not inductive: `CopyInv` says that the copies stored and
  those still owed are within it together. A row that is to be transferred owes one, so does a
  claim, and so does each run that has not stored its copy or takes it for not stored (`Owed`); a
  late request, which queues a row beside its run, adds one to both sides.
- `FinishedDownloadsKept`: under the same assumptions as the first, `DownloadKept`. Between a
  sweep's query and its removals a row could become one to keep; `KeptInv` says it cannot without
  a late request, as what is listed was a row that is completed or deleted.

`SlotSteps` is the lemma the slot proofs rest on: what each step does to the map and to the runs,
so that the invariants are proved over four kinds of step instead of thirty actions.

`HomeProofs` proves of the settings, for any keys, forms, environment, secrets, number of saves
at once and of faults (assumption: `SettingsAssumption`, of which it uses that the interval has a
default and that "none" and "malformed" are no values):

- `SettingsTyped`: `TypeOK`.
- `EnvironmentInForce`: `UsedInForce`. The timer and what is in force differ between a save's load
  and its re-arming, so it is inductive only as `TimerInv`: they agree, or a save is about to re-arm.
- `SuccessMeansInForce`: `SavedInForce`. `AloneInv` follows a save that has met no other: what it has
  written is in the table, what it has read is the table, what it has applied is the table. A save
  that meets another is out of it at once, which is why nothing else needs to be known of its steps.

And of the notifier, for any events, servers, browsers and changes of the configuration (assumption:
`NotifierAssumption`, the names are apart and the bound is a number):

- `NotifierTypesHold`: `NotifierTypeOK`. `DeliveryFine` adds that nothing is left over between two
  deliveries, that who looks up or posts has a server, and that what is deleted is gone.
- `FailuresContainedHolds`: `FailuresContained`. That refusals never outnumber the changes is not
  inductive; `RefusalInv` is: unless what is cached, looked up and posted to is what is configured
  (`InOrder`), a change has not been answered 404 yet. A refusal pays for it and puts everything in
  order; any other failure leaves both as they are.
- `OnceHolds`: `Once`, the safety half of `Told`. `OnceInv` says by positions what `Once` counts: an
  event has one position in one of the three places exactly while it waits, and no notification of
  the chain names an event twice, which is what a delivery inherits (`ChainAppend`, `ChainTail`).

And of the list of missing books, for any books, servers and copies and any number of changes of
the index and the filters (assumption: `ListAssumption`: the records are sequences of books, "no
copy" is no book and no place in a list):

- `PickKeptHolds`: `PickKept`. `PickInv` ties the page's state to what was meant: a choice is a
  place in a list of copies, and the one at that place is what was picked, among the copies the row
  had then (`PickedAt`); both go when the list goes, neither when it is rendered anew. A row that
  still has those copies therefore resolves to it. Where the copies are others the place may be
  another copy's, which is the finding of `bug_choice` and why the property has that premise.
- `SelectionAnsweredHolds`: `SelectionAnswered`. `BulkInv`: what was ticked and could be asked for has
  been answered or is still to do. That every such row is asked for at all is `RequestFacts`, which
  needs that the rows are finitely many (`IdsFinite`, `InSomeOrder`).

`ServersProofs` proves of the servers, for any number of servers, addresses, libraries, calls under
way and changes (assumption: `ServersAssumption`, "no row" is no row and the bound is a number):

- `ServersTypesHold`: `ServersTypeOK`. `Knows` says what a call has at each of its steps.
- `OneTargetAlways`: `OneTarget`. Every call writes a row as the target it was, or clears all and
  makes it the target (`TargetWritten`); both halves of the property follow from that.
- `LibrariesKept`: `LibraryKept`. `SteadyListed` says that whoever asks a server for its steady
  libraries asks where it is, so that they are in every listing that may still be written; a call
  that asks at an address that was changed meanwhile is covered, as nothing is steady there any more.

`ClientProofs` proves of the client, for any number of requests, retries, expiries and troubles,
and any server and account (assumptions: the ones `AbsClient` states of its constants):

- `ClientTypesHold`: `TypeOK`.
- `OneLoginHolds`: `OneLogin`, no two logins under way. Not inductive: `One` says that a login is
  under way exactly when `loginInFlight` names its request, and that there is no token meanwhile.
- `SurvivesExpiryHolds`: `SurvivesExpiry`, the first expiry of the tokens fails no JSON request. It
  needs what a request that was refused may still meet: no token is newer than the server's
  (`Issued`); once a request has been refused, the token from before the first expiry is not used
  again, and while such a token is still on its way from a login, no request is on the wire nor has
  any been refused (`Dropped`); and what a request holds and has been told goes with where it is
  (`AllFine`). So the second answer of whoever was refused once comes for a token from after the
  expiry.
- `DownloadFindsHolds`: `DownloadFinds`, a download is told that there is no such item only when
  there is none, unless it was asked for without the id of its library at a server whose address
  needs one. `AllFine` says which addresses are left: of those already refused none is one the
  server knows, and an answer of "missing" for the one it knows means that the item is not there.

Of an upload over node:http, whose events come in any order:

- `UploadTypesHold`: `UploadTypeOK`.
- `AnswerToldHolds`: `AnswerTold`. `HeadSettles` carries it: there is no head without a promise that
  is settled or collecting, so whatever else comes to an end has nothing left to reject.

And of the files of a transfer, for any items, changes, attempts and sizes (assumption:
`SpoolAssumption`, see section 2):

- `SpoolTypesHold`: `SpoolTypeOK`.
- `UploadWholeHolds`: `UploadWhole`. `SpoolInv`, which TLC confirmed first, follows an attempt
  through its listing: the parts are the listing up to some place and what is still to do is the rest
  (`Lists`); every part is on the disk with the bytes it was taken with, and from `Discard` on nothing
  is there that is not of the listing (`PartsFine`). What makes it inductive is that no two files of a
  listing share an ino, so that filling one never touches another's path (`NextFile`, `FilledFacts`).
- `ListingRightHolds`: `ListingRight`. `ListingFacts` is about the two lists alone, `AllParts` says
  that with nothing left to do the parts are the listing.
- `FetchedOnceHolds`: `FetchedOnce`. `WholeFine` says that what was fetched whole and listed ever
  since is on the disk as long as listed, so that `CompleteOnDisk` accepts it and `Open` does not
  meet it.

`Transferable`, which sifts the listing, is a recursive function; that it exists, and keeps the order
and every file of those kinds, follows from least counterexamples (`StepByStep`,
`TransferableFacts`).

`EnqueueProofs` proves of enqueueing, for any number of items, works, groups, requests, rows, slots
and late writes (assumption: `EnqueueAssumption`; requests and slots are finitely many, as they are
counted, and a slot is not a row):

- `EnqueueTypesHold`: `TypeOK`.
- `SurplusBoundedHolds`: `SurplusBounded`. A bound on the transfers there are is not inductive, as a
  request that has found none may still add one. What is: the transfers of a work, with the requests
  that have passed the look for it, are within the bound (`WorkBound`), and likewise those of an
  item (`ItemBound`) and the rows of an item the list has (`ListBound`). A request that looks joins
  them only if it finds no transfer on record, and then all that goes on are runs whose rows were
  taken from them: these are no more than the late writes (`HiddenBound`, for every set of rows).
  The proof showed that the bound for a work needs the premise `Together`: its copies must be in one
  group of the list, or each group has a retry of its own (section 6).

`IndexerProofs` proves of the index, for any library, page and chunk size and page limit, any number
of calls, changes and faults (assumption: `IndexerAssumption`):

- `IndexTypesHold`: `TypeOK`, with any number of overlapping runs. The stamp that stands for "later
  than every stamp" is within the bounds because the clock is a step ahead of the changes at most.
- `NoFalseRemovalHolds`, `NoGhostsHolds`: `NoFalseRemoval` and `NoGhosts`, of behaviours in which no
  run overlaps another (`[]Alone`) and nothing is removed from the library during a full run.
  Both are needed: TLC refutes `NoFalseRemoval` without either (section 6). There may be any number
  of calls, one after the other, that fail, crash, are cancelled or turn from incremental to full.
  `Fine(r)` follows a crawl: a row that a prune would delete now, of an item the library has, is on
  a page still to come (`Ahead`), and there is none once the last page is written (`Found`); the row
  of an item the library has not is one the run has not seen (`Unseen`), so the prune takes it.
  `Ahead` rests on lemmas about positions: pages of a set in title order hold `PageSize` items until
  nothing comes after (`PageFull`, `LastPage`), and an item added in front only moves others back
  (`PositionFacts`), which is why additions lose nothing and removals would.
- `FindableHolds`: `Findable` (the run's `FindableAtRest` is the same in one of its two parts), of
  behaviours in which no run overlaps another, fails or is cancelled (`[]Alone`, `[]Calm`), the
  library rests during full runs and loses nothing during incremental ones. Each of these is needed:
  without it TLC finds an item that is wrong in the index and older than the baseline, since what
  an interrupted run leaves undone is the older part. `Findable` itself says nothing of a run's
  middle. The invariant (`Sound`, `Ready`) says that an item which the run, were it to write now,
  would leave or make wrong is either as new as anything held or read so far (`Late`: it changed
  after the run had passed it) or on a page to come (`ToCome`), and that the baseline is between
  what is held and what is wrong (`Divides`). An older item ends the walk; what is wrong is not
  older than the baseline, so it stands before that item and has been read. The order newest first
  changes under the walk: a changed item goes to the front and moves the others back
  (`AgePlaceGrows`). That strictly older items end the walk matters: with "older or equal" the
  proof of `IncPageSound` does not go through, and the run refutes the property.

`CompareCacheProofs` proves of the comparison cache, for any items on any servers, any number of
comparisons, index runs, switches and entries (assumption: `CacheAssumption`, the bounds are numbers
and the items finitely many):

- `ComparisonsTyped`: `CacheTypeOK`.
- `ServedCurrentHolds`: `ServedCurrent`. That an entry was computed from the rows the index has is
  not inductive, and false as soon as a run writes. What is (`CacheInv`): the key of an entry that
  is not `Mixed` is the fingerprint of its own rows, and each row of the index is among them or
  newer than the key says (`Sound`). On a hit the index's fingerprint is the key: so no row is newer,
  all of the index's rows are among the entry's, and there are as many. It rests on the clock
  (`Clocked`, no row and no run is of a time to come): a run that the entry did not overlap writes
  later than its key. `ReadSound` is what holds of a comparison before it has its key.
  It fails, as it should, for a fingerprint of the count alone, for a switch that leaves an entry
  undoubted, and for a run that begins during the reads and is not noted.

`MatchingProofs` proves of the diff and the watches, for any books and any similarities, any number
of sources, watches, servers, requests and changes (assumptions: `MatchingAssumption`, similarities
are percentages and runtimes numbers; `DiffAssumption`, `WatchesAssumption`, the bounds are numbers
and the books finitely many):

- `DiffTypes`, `WatchesTypes`: `DiffTypeOK` and `WatchesTypeOK`.
- `AccountedHolds`, `QueuedSafelyHolds`: `Accounted` and `QueuedSafely`. Their core is `MissingFacts`,
  about what `Missing` returns for any input: `Sorted` says that the rows hold the pending books, each
  in one row, and what resembles a book of the target in an uncertain row only. `JoinFacts` is the
  step: if `best` matches, the row joined exists, and its doubt is the old one or the new. It rests
  on `BestFacts`, that `FindBest` returns a match if there is one, which needs that whatever makes a
  tier scores more than nothing (`ScoreFacts`; for an "exact" match nothing else says so).
  The recursion is resolved without an induction theorem: there is such a function, since a least
  length without one would have a predecessor (`StepByStep`), and a shortest part of it that is not
  `Sorted` would follow one that is.
- `UnownedHolds`: `Unowned`. `Grounded` says what a pass compares with, by how it was begun: while
  the target stays, the books of the target as it was when all watches were begun with, else those of
  the watch's server; and that what is left in its queue matches none of them (`Doubtless`).
  `ComparedFacts` hands `MissingFacts` over. The proof does not need that the index is what it was:
  that is what `seen` is for.

Least elements and least counterexamples, which the induction theorems cannot give here, come from
the well-founded order of finite sets of numbers (`Least`, in five of the proof modules).

Only model-checked: everything temporal beyond safety (of `Told` that an event is told in the end),
and of the compare page its types. Liveness under fairness and `ENABLED` are outside what the prover
does; so are the induction theorems, whose argument is an operator, and recursive operators, of
which these modules have none.

## 5. What the models leave out

Not modelled: the activity log (rows appended, pruned by time, read by nobody but a person),
encryption beyond "this secret can read it", the database driver, string normalisation and
similarity (data, no control), most pages (each action is one call of a component above), the
listings of the mock server, the diagnosis script, tests and deployment files.

Within the modelled components:

- Progress, phases shown to a person, and all wording.
- More than `MaxLate` late writes, and in `catalog` more than one call of `clearFinishedJobs` at a
  time; restarts in `Enqueue`, and in `worker_retry` cancellations (`worker_single` and `worker_live`
  have these).
- `openDownload` without a library's id at a server whose download address needs it: nothing in
  the application asks so, the transfers use `openFileDownload`. `DownloadFinds` exempts it.
- Several libraries of a server, fallback sort keys and the detection of a server that disregards
  them, items without a time stamp, records of runs (a crash leaves one at `running` for ever).
- Creating watches and suggesting series; the optional author of a watch.
- The encoding of uploads (`multipart.ts`) and the mapping of fields (`map.ts`).
- `NoFalseRemoval` is checked for a library from which nothing is removed during a full run: a
  removal shifts later pages by one, an item that is there is skipped and its row pruned until the
  next run. `Converges` covers the repair.

## 6. Divergences

Kept as runs, each quoted in `PROJECT.json`:

- `bug_limit`: with two slots a run that failed has its row queued again before its map entry is
  deleted *by job id*; the entry deleted may be that of the job's next run, and a third transfer
  starts.
- `bug_index_cancel`: a full run cancelled while it writes a chunk takes the silent end of the
  listing for the end of the library and prunes what it has not listed.
- `bug_volumes`: a cluster is compared by its founder; one without a volume number takes in both
  the first part and the second, which "never merge".
- `bug_choice`: the compare page keeps a choice as a place in a list; an index run that drops a
  copy makes it another recording, and that one is queued.

Seen as counterexamples of the same modules while building them, or named as exceptions in the
properties that would otherwise fail, and not kept as runs:

- Transfers: `cancelJob` reads `queued`, awaits, and writes `canceled` over a row the worker has
  claimed in between; the transfer goes on and overwrites it, and a request made meanwhile starts a
  second one of the same work (`SurplusBounded` counts such a write). Two requests that both read a
  row as stopped (`retryJob`, or `enqueueSync` asked again) write it by id one after the other: if
  the first was claimed in between, the second queues the row beside its run or after its success,
  and the book is stored once more (`OneCopyPerFault` counts it as late); the row may be deleted
  from the list by a clear that had read it before, and the download goes with a sweep that had
  listed it as completed, or with the run that succeeded (`DownloadKept` names both). Two requests
  of `enqueueSync` at once, or a retry from an outdated list, queue one work twice. Copies of a work
  whose author normalises to nothing (one written in another script than the Latin,
  normalize.ts:224) and who is written differently are one work to `enqueueSync`
  (sync-worker.ts:105-113, which compares the normalised names) and two groups to the list
  (job-groups.ts:49-52, which falls back on the raw ones), so that each group can be retried
  (`SurplusBounded` bounds the transfers of the works in `WorksTogether`). `clearFinishedJobs`
  deletes a row that was retried meanwhile. A cancelled run's cleanup removes the spool of the retry
  another slot has started (`SpoolHeld` with two slots). A database error while a failure is
  recorded makes `finally` delete the finished download; one during recovery means that recovery is
  never tried again. `spoolPath` is set by failures that fetched nothing.
- Files: a partial file as large as a version that replaces it is reused as complete
  (`UploadWhole` compares sizes); a file of untold size is neither verified nor
  reused; a chapter that `libraryFiles` has as kind "other" under another ino than `media.*` is
  taken for a stale duplicate and not transferred (`ListingRight` exempts it); two files of one
  name in different folders are uploaded under one name.
- Client: an upload does not refresh a refused token, so one that expires during the download fails
  the attempt. A download without the id of its library has one address to try, and is told that
  the item is missing by a server that knows the other only. A request that is aborted as its
  refusal is read logs in all the same.
- Index: a person's full run and a scheduled one prune each other's rows; a run that fails between
  two chunks raises the baseline above rows it never wrote; calls of `Scheduler.runNow` do not
  collapse during the very first pass.
- Comparison: one that was computed across the end of an index run is stored after the
  invalidation and served; a run that fails after it has written rows does not invalidate; two
  switches of libraries that leave count and newest time as they were leave the fingerprint, too
  (README 425-426 says it "moves on any add, removal or re-index").
- Diff: copies that share an ASIN, which "means the same edition outright", may be reported as
  different recordings; `findBest` compares scores and not tiers; `pickBestCopy`'s tolerance is not
  transitive, so the copy it picks may depend on the order. The reason a row gives for its copy is
  that of the representative, though another may be preferred.
- Compare page: with no server chosen all boxes are ticked and unticking one does nothing; the
  selection is emptied when a bulk returns, with what was ticked meanwhile.
- Watches: a pass compares all watches with the target's records although each has a server of its
  own; a target that changes in the middle makes that matter (`Unowned` exempts it). A pass revives
  transfers that a person canceled.
- Servers: a token got with an old credential may be saved after it was changed; a verification
  begun before an address change commits the old server's libraries and rights; nothing keeps two
  creations under way at once, or an edit, from making two servers of one address and account.
- Settings: of a load and a save that overlap the older rows may win in memory (`SavedInForce` is
  about saves that meet no other); rows written before a failure come into force with the next
  load. A failure at boot leaves the scheduler stopped.
- Notifications: only a 404 makes the notifier forget a channel's id: a server that refuses a
  channel which was replaced with another answer (401, 403, 5xx, or none at all) costs every
  notification until it says 404 or the process restarts (`FailuresContained` counts the 404s). Web
  push counts as configured while the public key is the same; the test button reports success for
  deliveries that failed, because `deliver` swallows errors.

## 7. Plan

Done since the first plan: the refinement, watches, the cache, the client and its uploads,
settings and notifications, the spool, the diff, the compare page, servers. What is left, the most
important first:

1. `Indexer` with records of runs and with a server that disregards the sort key.
2. `Watches` with the creation of watches and suggestions; the activity log.
3. The listings of the mock server as the environment of `Indexer`.
