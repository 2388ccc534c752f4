---------------------------- MODULE CompareCache ----------------------------
(***************************************************************************)
(* The cache of comparisons (apps/web/lib/compare.ts) and the index runs   *)
(* that rewrite what a comparison reads (lib/indexer.ts, finishRun).       *)
(*                                                                         *)
(* A comparison reads the rows of the target, those of the sources, and    *)
(* then their fingerprint, which is the key; the cache is looked up in the *)
(* turn in which the database, which is synchronous, answers; the          *)
(* difference is computed with yields in between.  What a comparison       *)
(* holds, and what an entry holds, is the rows that it was computed from:  *)
(* the difference is a function of them (Diff.tla).  Index runs start at   *)
(* different times, and a row that is written says something new: it is    *)
(* known by its seenAt.                                                    *)
(***************************************************************************)
EXTENDS Naturals, FiniteSets, FiniteSetsExt, Sequences

CONSTANTS
    ItemIds,      \* bound
    ServerOfItem, \* the server of each item; it has one library
    Target,       \* the server that is the target
    Comparers,    \* bound: comparisons under way at once
    MaxRuns,      \* bound: index runs
    MaxSwitches,  \* bound: libraries switched or dropped
    MaxEntries,   \* MAX_CACHE_ENTRIES
    NoRun         \* no run

ASSUME CacheAssumption ==
    /\ IsFiniteSet(ItemIds)
    /\ NoRun \notin [start : 1..MaxRuns, wrote : BOOLEAN, pruned : BOOLEAN]
    /\ MaxRuns \in Nat /\ MaxSwitches \in Nat /\ MaxEntries \in Nat \ {0}

VARIABLES
    held,      \* IndexedItem.seenAt of each item, 0 without a row
    included,  \* the servers whose library is included
    run,       \* the index run of each server under way
    clock,     \* when the newest run started
    switches,  \* libraries switched or dropped so far
    cache,     \* diffCache, oldest first
    comparer   \* each call of compare

cacheVars == <<held, included, run, clock, switches, cache, comparer>>

IndexedServers == {ServerOfItem[i] : i \in ItemIds}
Held == {i \in ItemIds : held[i] # 0}
Of(S) == {i \in Held : ServerOfItem[i] \in S \cap included}
RowsIn(S) == {<<i, held[i]>> : i \in Of(S)}

\* Count and newest seenAt.  (Variant: the count alone.)
FingerprintByCount == <<Cardinality(Of(IndexedServers)), 0>>
Fingerprint == <<Cardinality(Of(IndexedServers)),
                 Max({held[i] : i \in Of(IndexedServers)} \cup {0})>>

AllRows == SUBSET (ItemIds \X (1..MaxRuns))
Keys == (0..Cardinality(ItemIds)) \X (0..MaxRuns)
Entries == [key : Keys, rows : AllRows, over : SUBSET IndexedServers, doubt : BOOLEAN]
IdleComparer == [pc |-> "idle", rows |-> {}, key |-> <<0, 0>>, over |-> {}, doubt |-> FALSE]

CacheTypeOK ==
    /\ held \in [ItemIds -> 0..MaxRuns]
    /\ included \in SUBSET IndexedServers
    /\ run \in [IndexedServers -> [start : 1..MaxRuns, wrote : BOOLEAN, pruned : BOOLEAN]
                                  \cup {NoRun}]
    /\ clock \in 0..MaxRuns
    /\ switches \in 0..MaxSwitches
    /\ cache \in Seq(Entries) /\ Len(cache) <= MaxEntries
    /\ comparer \in [Comparers ->
           [pc : {"idle", "target", "sources", "fingerprint", "diff"},
            rows : AllRows, key : Keys,
            over : SUBSET IndexedServers, doubt : BOOLEAN]]    \* history

CacheInit ==
    /\ held = [i \in ItemIds |-> 0]
    /\ included = IndexedServers
    /\ run = [x \in IndexedServers |-> NoRun]
    /\ clock = 0
    /\ switches = 0
    /\ cache = <<>>
    /\ comparer = [c \in Comparers |-> IdleComparer]

Running == {x \in IndexedServers : run[x] # NoRun}
Reading(c) == comparer[c].pc \in {"target", "sources", "fingerprint"}

\* History.  Over: the runs under way while a comparison reads, until they end.  In doubt:
\* one of them wrote and is over, or something else changed what was read.
Ended(x, k) ==
    IF x \notin k.over THEN k
    ELSE IF run[x].wrote THEN [k EXCEPT !.doubt = TRUE] ELSE [k EXCEPT !.over = @ \ {x}]
ComparersAfter(x) == [c \in Comparers |-> Ended(x, comparer[c])]
EntriesAfter(x) == [n \in DOMAIN cache |-> Ended(x, cache[n])]

\* What a comparison holds is the index no more, and nor is it what its key says.
Mixed(k) == k.doubt \/ \E x \in k.over : run[x].wrote

-----------------------------------------------------------------------------
\* The index.
RunBegins(x) ==
    /\ x \notin Running /\ clock < MaxRuns
    /\ clock' = clock + 1
    /\ run' = [run EXCEPT ![x] = [start |-> clock + 1, wrote |-> FALSE, pruned |-> FALSE]]
    /\ comparer' = [c \in Comparers |-> IF Reading(c)
           THEN [comparer[c] EXCEPT !.over = @ \cup {x}] ELSE comparer[c]]
    /\ UNCHANGED <<held, included, switches, cache>>

Write(i) ==
    LET x == ServerOfItem[i] IN
    /\ x \in Running \cap included /\ ~run[x].pruned
    /\ held' = [held EXCEPT ![i] = run[x].start]
    /\ run' = [run EXCEPT ![x].wrote = TRUE]
    /\ UNCHANGED <<included, clock, switches, cache, comparer>>

\* A full run, once it has listed the library.
Prune(x) ==
    LET stale == {i \in Held : ServerOfItem[i] = x /\ held[i] < run[x].start} IN
    /\ x \in Running \cap included /\ ~run[x].pruned
    /\ held' = [i \in ItemIds |-> IF i \in stale THEN 0 ELSE held[i]]
    /\ run' = [run EXCEPT ![x].pruned = TRUE, ![x].wrote = @ \/ stale # {}]
    /\ UNCHANGED <<included, clock, switches, cache, comparer>>

\* A run that ends well empties the cache if it wrote or removed a row.
Invalidate(x) == IF run[x].wrote THEN <<>> ELSE EntriesAfter(x)

Complete(x) ==
    /\ x \in Running
    /\ run' = [run EXCEPT ![x] = NoRun]
    /\ cache' = Invalidate(x)
    /\ comparer' = ComparersAfter(x)
    /\ UNCHANGED <<held, included, clock, switches>>

\* One that throws or is cancelled does not: what it has counted is lost with it.
RunFails(x) ==
    /\ x \in Running
    /\ run' = [run EXCEPT ![x] = NoRun]
    /\ cache' = EntriesAfter(x)
    /\ comparer' = ComparersAfter(x)
    /\ UNCHANGED <<held, included, clock, switches>>

\* setLibraryIncluded (lib/servers.ts).  The rows stay.
Toggle(x) ==
    /\ switches < MaxSwitches
    /\ switches' = switches + 1
    /\ included' = (IF x \in included THEN included \ {x} ELSE included \cup {x})
    /\ cache' = [n \in DOMAIN cache |-> [cache[n] EXCEPT !.doubt = TRUE]]
    /\ comparer' = [c \in Comparers |-> IF comparer[c].pc # "idle"
           THEN [comparer[c] EXCEPT !.doubt = TRUE] ELSE comparer[c]]
    /\ UNCHANGED <<held, run, clock>>

\* A verification drops the library, and its rows with it; it is listed again later.
Drop(x) ==
    /\ switches < MaxSwitches
    /\ switches' = switches + 1
    /\ \E i \in Held : ServerOfItem[i] = x
    /\ held' = [i \in ItemIds |-> IF ServerOfItem[i] = x THEN 0 ELSE held[i]]
    /\ comparer' = [c \in Comparers |-> IF Reading(c)
           THEN [comparer[c] EXCEPT !.doubt = TRUE] ELSE comparer[c]]
    /\ UNCHANGED <<included, run, clock, cache>>

-----------------------------------------------------------------------------
\* compare.
CompareBegins(c) ==
    /\ comparer[c].pc = "idle"
    /\ comparer' = [comparer EXCEPT ![c] = [IdleComparer EXCEPT !.pc = "target", !.over = Running]]
    /\ UNCHANGED <<held, included, run, clock, switches, cache>>

\* An empty target is a problem to report, and not compared.
LoadTarget(c) ==
    /\ comparer[c].pc = "target"
    /\ comparer' = [comparer EXCEPT ![c].pc = "sources", ![c].rows = RowsIn({Target})]
    /\ UNCHANGED <<held, included, run, clock, switches, cache>>

LoadSources(c) ==
    /\ comparer[c].pc = "sources"
    /\ comparer' = IF comparer[c].rows = {} THEN [comparer EXCEPT ![c] = IdleComparer]
                   ELSE [comparer EXCEPT ![c].pc = "fingerprint",
                                         ![c].rows = @ \cup RowsIn(IndexedServers \ {Target})]
    /\ UNCHANGED <<held, included, run, clock, switches, cache>>

Hit(c, n) ==
    /\ comparer[c].pc = "fingerprint" /\ cache[n].key = Fingerprint
    /\ comparer' = [comparer EXCEPT ![c] = IdleComparer]
    /\ UNCHANGED <<held, included, run, clock, switches, cache>>

Miss(c) ==
    /\ comparer[c].pc = "fingerprint"
    /\ \A n \in DOMAIN cache : cache[n].key # Fingerprint
    /\ comparer' = [comparer EXCEPT ![c].pc = "diff", ![c].key = Fingerprint]
    /\ UNCHANGED <<held, included, run, clock, switches, cache>>

\* An entry of the same key keeps its place; the oldest goes.
Stored(entry) ==
    LET all == IF \E n \in DOMAIN cache : cache[n].key = entry.key
               THEN [n \in DOMAIN cache |-> IF cache[n].key = entry.key THEN entry ELSE cache[n]]
               ELSE Append(cache, entry)
    IN  IF Len(all) > MaxEntries THEN Tail(all) ELSE all

Store(c) ==
    LET k == comparer[c] IN
    /\ k.pc = "diff"
    /\ cache' = Stored([key |-> k.key, rows |-> k.rows, over |-> k.over, doubt |-> k.doubt])
    /\ comparer' = [comparer EXCEPT ![c] = IdleComparer]
    /\ UNCHANGED <<held, included, run, clock, switches>>

IndexStep(x) == RunBegins(x) \/ Prune(x) \/ Complete(x) \/ RunFails(x) \/ Toggle(x) \/ Drop(x)

CompareStep(c) ==
    \/ CompareBegins(c) \/ LoadTarget(c) \/ LoadSources(c)
    \/ (\E n \in DOMAIN cache : Hit(c, n)) \/ Miss(c) \/ Store(c)

CacheNext ==
    \/ \E x \in IndexedServers : IndexStep(x)
    \/ \E i \in ItemIds : Write(i)
    \/ \E c \in Comparers : CompareStep(c)

CacheSpec == CacheInit /\ [][CacheNext]_cacheVars

-----------------------------------------------------------------------------
\* A comparison answered from the cache says what the index says: unless a run that wrote
\* while the entry was being read is still under way, or is over and did not empty the cache
\* or did so too early for it; or a library was switched since, or dropped while it was read.
ServedCurrent ==
    [][\A c \in Comparers, n \in DOMAIN cache :
         Hit(c, n) /\ ~Mixed(cache[n]) => cache[n].rows = RowsIn(IndexedServers)]_cacheVars
=============================================================================
