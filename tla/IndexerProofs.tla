----------------------------- MODULE IndexerProofs -----------------------------
(***************************************************************************)
(* What holds of Indexer for any library, page, chunk and page limit, and  *)
(* any number of calls, changes and faults: its types; and, as long as no  *)
(* run overlaps another, that a crawl removes and leaves the right rows    *)
(* and that what it gets wrong is left for the next run to find.           *)
(***************************************************************************)
EXTENDS Indexer, FiniteSetTheorems, WellFoundedInduction, TLAPS

RunRecord ==
    [pc : RunPcs, mode : {"full", "incremental"}, aborted : BOOLEAN, page : Nat,
     last : BOOLEAN, loaded : Nat, since : Stamps, oldest : Stamps,
     records : [Items -> Stamps], later : SUBSET Runs]

\* The clock is a step ahead of the changes at most.
Typed == TypeOK /\ clock \in 1..1 + changes

-----------------------------------------------------------------------------
(***************************************************************************)
(* Numbers and sets.                                                       *)
(***************************************************************************)
LEMMA Least ==
    ASSUME NEW T \in SUBSET Nat, T # {}
    PROVE  \E m \in T : \A n \in T : m <= n
<1> DEFINE R == StrictSubsetOrdering(Nat)
           F == FiniteSubsetsOf(Nat)
           Below == {0..n : n \in T}
<1>1. IsWellFoundedOn(R, F)
  BY FS_StrictSubsetOrderingWellFounded
<1>2. \A n \in Nat : 0..n \in F
  <2>1. ASSUME NEW n \in Nat PROVE IsFiniteSet(0..n)
    <3>1. 0 \in Int /\ n \in Int
      OBVIOUS
    <3> QED
      BY <3>1, FS_Interval
  <2> QED
    BY <2>1 DEF FiniteSubsetsOf
<1>3. Below \subseteq F /\ Below # {}
  <2> HIDE DEF F
  <2> QED
    BY <1>2
<1>4. \A m, n \in Nat : n < m => <<0..n, 0..m>> \in R
  <2> SUFFICES ASSUME NEW m \in Nat, NEW n \in Nat, n < m PROVE <<0..n, 0..m>> \in R
    OBVIOUS
  <2>1. 0..n \subseteq 0..m /\ 0..n # 0..m /\ 0..m \subseteq Nat
    <3>1. m \in 0..m /\ m \notin 0..n
      OBVIOUS
    <3> QED
      BY <3>1
  <2> QED
    BY <2>1 DEF StrictSubsetOrdering
<1> HIDE DEF R, F
<1>5. PICK x \in Below : \A y \in Below : ~ (<<y, x>> \in R)
  <2> HIDE DEF Below
  <2> QED
    BY <1>1, <1>3, WFMin
<1>6. PICK m \in T : x = 0..m
  BY <1>5
<1>7. \A n \in T : m <= n
  <2>1. ASSUME NEW n \in T PROVE m <= n
    <3>1. 0..n \in Below
      OBVIOUS
    <3>2. ~ (<<0..n, 0..m>> \in R)
      BY <3>1, <1>5, <1>6
    <3> QED
      BY <3>2, <1>4
  <2> QED
    BY <2>1
<1> QED
  BY <1>7

LEMMA StampFacts ==
    /\ Infinity \in Nat /\ Infinity \in Stamps /\ 0 \in Stamps /\ 1 \in Stamps
    /\ \A s \in Stamps : s \in Nat /\ s <= Infinity
    /\ Gone \notin Stamps /\ ~(Gone > 0) /\ Gone # 0
  BY IndexerAssumption DEF Infinity, Stamps, Gone

LEMMA ItemsFinite ==
    ASSUME NEW S \in SUBSET Items
    PROVE  IsFiniteSet(S) /\ Cardinality(S) \in Nat
<1>1. IsFiniteSet(Items)
  <2>1. 1 \in Int /\ NumItems \in Int
    BY IndexerAssumption
  <2> QED
    BY <2>1, FS_Interval DEF Items
<1> QED
  BY <1>1, FS_Subset, FS_CardinalityType

\* The newest stamp of a set of stamps.
LEMMA NewestStamp ==
    ASSUME NEW S \in SUBSET Stamps, S # {}
    PROVE  \E s \in S : \A t \in S : t <= s
<1> DEFINE T == {Infinity - s : s \in S}
<1>1. \A s \in S : s \in Nat /\ s <= Infinity /\ Infinity - s \in Nat
  BY StampFacts
<1>2. T \in SUBSET Nat /\ T # {}
  BY <1>1
<1>3. \A s \in S : Infinity - s \in T
  OBVIOUS
<1>4. \A m \in T : \E s \in S : m = Infinity - s
  OBVIOUS
<1> HIDE DEF T
<1>5. PICK m \in T : \A n \in T : m <= n
  BY <1>2, Least
<1>6. PICK s \in S : m = Infinity - s
  BY <1>4
<1>7. \A t \in S : t <= s
  BY <1>1, <1>3, <1>5, <1>6, StampFacts
<1> QED
  BY <1>7

LEMMA BaselineStamp ==
    ASSUME held \in [Items -> Stamps]
    PROVE  /\ Baseline \in Stamps /\ \A i \in Items : held[i] <= Baseline
           /\ Baseline = 0 \/ \E i \in Items : Baseline = held[i]
<1> DEFINE S == {held[i] : i \in Items} \cup {0}
<1>1. S \in SUBSET Stamps /\ S # {} /\ \A i \in Items : held[i] \in S
  BY StampFacts
<1> HIDE DEF S
<1>2. PICK s \in S : \A t \in S : t <= s
  BY <1>1, NewestStamp
<1>3. \A i \in Items : held[i] <= s
  BY <1>1, <1>2
<1>4. Baseline = CHOOSE t \in S : \A i \in Items : held[i] <= t
  BY DEF Baseline, S
<1>5. Baseline \in S /\ \A i \in Items : held[i] <= Baseline
  BY <1>2, <1>3, <1>4
<1>6. \A t \in S : t = 0 \/ \E i \in Items : t = held[i]
  BY DEF S
<1> QED
  BY <1>1, <1>5, <1>6

-----------------------------------------------------------------------------
(***************************************************************************)
(* Records of a run.                                                       *)
(***************************************************************************)
LEMMA IdleRecord ==
    /\ IdleRun \in RunRecord /\ NoRecords \in [Items -> Stamps]
    /\ IdleRun.pc = "idle" /\ IdleRun.mode = "full" /\ ~IdleRun.aborted /\ IdleRun.page = 0
    /\ ~IdleRun.last /\ IdleRun.loaded = 0 /\ IdleRun.records = NoRecords
    /\ IdleRun.later = {}
<1>1. NoRecords \in [Items -> Stamps]
  BY StampFacts DEF NoRecords
<1> QED
  BY <1>1, StampFacts DEF IdleRun, RunRecord, RunPcs

LEMMA Fields ==
    ASSUME NEW x \in RunRecord
    PROVE  /\ x.pc \in RunPcs /\ x.mode \in {"full", "incremental"} /\ x.aborted \in BOOLEAN
           /\ x.page \in Nat /\ x.last \in BOOLEAN /\ x.loaded \in Nat
           /\ x.since \in Stamps /\ x.oldest \in Stamps
           /\ x.records \in [Items -> Stamps] /\ x.later \in SUBSET Runs
  BY DEF RunRecord

LEMMA Typing ==
    ASSUME Typed
    PROVE  /\ run \in [Runs -> RunRecord] /\ \A r \in Runs : run[r] \in RunRecord
           /\ lib \in [Items -> Stamps \cup {Gone}] /\ held \in [Items -> Stamps]
           /\ old \in [Items -> SUBSET Runs] /\ clock \in Nat /\ changes \in 0..MaxChanges
  BY StampFacts DEF Typed, TypeOK, RunRecord

\* The parts of the state an action changes.
LibraryTyped == /\ lib \in [Items -> Stamps \cup {Gone}] /\ clock \in Stamps
                /\ changes \in 0..MaxChanges /\ clock \in 1..1 + changes
IndexTyped == held \in [Items -> Stamps] /\ old \in [Items -> SUBSET Runs]
RunsTyped == run \in [Runs -> RunRecord]
OwnersTyped == /\ running \in Runs \cup {None} /\ passes \subseteq Runs
               /\ passing \in BOOLEAN /\ passed \in BOOLEAN

LEMMA TypedParts ==
    Typed <=> /\ LibraryTyped /\ IndexTyped /\ RunsTyped /\ OwnersTyped
              /\ lastFull \in {"never", "fresh", "stale"} /\ faults \in 0..MaxFaults
<1>1. RunsTyped <=> run \in [Runs -> [pc : RunPcs, mode : {"full", "incremental"},
                         aborted : BOOLEAN, page : Nat, last : BOOLEAN, loaded : Nat,
                         since : Stamps, oldest : Stamps, records : [Items -> Stamps],
                         later : SUBSET Runs]]
  BY DEF RunsTyped, RunRecord
<1> HIDE DEF RunsTyped
<1> QED
  BY <1>1, Zenon DEF Typed, TypeOK, LibraryTyped, IndexTyped, OwnersTyped

LEMMA InitTyped == Init => Typed
<1> SUFFICES ASSUME Init PROVE Typed
  OBVIOUS
<1>1. RunsTyped
  BY IdleRecord DEF Init, RunsTyped
<1>2. LibraryTyped
  BY StampFacts, IndexerAssumption DEF Init, LibraryTyped
<1>3. IndexTyped /\ OwnersTyped
  BY StampFacts DEF Init, IndexTyped, OwnersTyped
<1>4. lastFull \in {"never", "fresh", "stale"} /\ faults \in 0..MaxFaults
  BY IndexerAssumption DEF Init
<1> QED
  BY <1>1, <1>2, <1>3, <1>4, TypedParts

-----------------------------------------------------------------------------
(***************************************************************************)
(* What a step makes of the runs.                                          *)
(***************************************************************************)
Others(r) == \A q \in Runs : q # r => run'[q] = run[q]

LEMMA RunsUpdate ==
    ASSUME RunsTyped, NEW r \in Runs, NEW x \in RunRecord, run' = [run EXCEPT ![r] = x]
    PROVE  RunsTyped' /\ run'[r] = x /\ Others(r)
  BY DEF RunsTyped, Others

LEMMA BeginRun ==
    ASSUME RunsTyped, NEW r \in Runs, NEW requested, Begin(r, requested)
    PROVE  /\ RunsTyped' /\ Others(r)
           /\ run'[r].pc \in {"full", "baseline"}
           /\ run'[r].pc = "full" => run'[r].mode = "full"
           /\ run'[r].pc = "baseline" => run'[r].mode = "incremental"
           /\ run'[r].pc = "baseline" => lastFull \notin {"never", "stale"}
           /\ run'[r].records = run[r].records /\ run'[r].later = run[r].later
           /\ run'[r].page = run[r].page
<1> DEFINE m == Mode(requested)
           pc == IF m = "full" THEN "full" ELSE "baseline"
           x == [run[r] EXCEPT !.mode = m, !.pc = pc]
<1>1. run[r] \in RunRecord
  BY DEF RunsTyped
<1>2. run' = [run EXCEPT ![r] = x]
  BY DEF Begin
<1>3. m \in {"full", "incremental"} /\ pc \in RunPcs /\ pc \in {"full", "baseline"}
      /\ (pc = "full" <=> m = "full") /\ (pc = "baseline" => lastFull \notin {"never", "stale"})
  BY DEF Mode, RunPcs
<1> HIDE DEF m, pc
<1>4. x \in RunRecord /\ x.pc = pc /\ x.mode = m /\ x.records = run[r].records
      /\ x.later = run[r].later /\ x.page = run[r].page
  BY <1>1, <1>3 DEF RunRecord
<1> HIDE DEF x
<1> QED
  BY <1>2, <1>3, <1>4, RunsUpdate

LEMMA CancelRun ==
    ASSUME RunsTyped, OwnersTyped, Cancel
    PROVE  /\ RunsTyped' /\ running \in Runs /\ Others(running)
           /\ run'[running].pc = run[running].pc /\ run'[running].mode = run[running].mode
           /\ run'[running].aborted /\ run'[running].page = run[running].page
           /\ run'[running].last = run[running].last
           /\ run'[running].loaded = run[running].loaded
           /\ run'[running].since = run[running].since
           /\ run'[running].oldest = run[running].oldest
           /\ run'[running].records = run[running].records
           /\ run'[running].later = run[running].later
<1> DEFINE r == running
           x == [run[r] EXCEPT !.aborted = TRUE]
<1>1. r \in Runs
  BY DEF OwnersTyped, Cancel
<1>2. run[r] \in RunRecord
  BY <1>1 DEF RunsTyped
<1>3. run' = [run EXCEPT ![r] = x]
  BY DEF Cancel
<1>4. /\ x \in RunRecord /\ x.pc = run[r].pc /\ x.mode = run[r].mode /\ x.aborted
      /\ x.page = run[r].page /\ x.last = run[r].last /\ x.loaded = run[r].loaded
      /\ x.since = run[r].since /\ x.oldest = run[r].oldest
      /\ x.records = run[r].records /\ x.later = run[r].later
  BY <1>2 DEF RunRecord
<1> HIDE DEF x
<1> QED
  BY <1>1, <1>3, <1>4, RunsUpdate

LEMMA OverRun ==
    ASSUME RunsTyped, NEW r \in Runs, Over(r)
    PROVE  /\ RunsTyped' /\ run'[r] = IdleRun
           /\ \A q \in Runs : q # r =>
                /\ run'[q].pc = run[q].pc /\ run'[q].mode = run[q].mode
                /\ run'[q].aborted = run[q].aborted /\ run'[q].page = run[q].page
                /\ run'[q].last = run[q].last /\ run'[q].loaded = run[q].loaded
                /\ run'[q].since = run[q].since /\ run'[q].oldest = run[q].oldest
                /\ run'[q].records = run[q].records /\ run'[q].later = run[q].later \ {r}
<1>1. run' = [q \in Runs |-> IF q = r THEN IdleRun ELSE [run[q] EXCEPT !.later = @ \ {r}]]
  BY DEF Over
<1>2. ASSUME NEW q \in Runs, q # r
      PROVE  /\ run'[q] \in RunRecord
             /\ run'[q].pc = run[q].pc /\ run'[q].mode = run[q].mode
             /\ run'[q].aborted = run[q].aborted /\ run'[q].page = run[q].page
             /\ run'[q].last = run[q].last /\ run'[q].loaded = run[q].loaded
             /\ run'[q].since = run[q].since /\ run'[q].oldest = run[q].oldest
             /\ run'[q].records = run[q].records /\ run'[q].later = run[q].later \ {r}
  <2>1. run[q] \in RunRecord
    BY DEF RunsTyped
  <2>2. run'[q] = [run[q] EXCEPT !.later = @ \ {r}]
    BY <1>1, <1>2
  <2> QED
    BY <2>1, <2>2 DEF RunRecord
<1>3. run'[r] = IdleRun
  BY <1>1
<1>4. RunsTyped'
  <2>1. \A q \in Runs : run'[q] \in RunRecord
    BY <1>2, <1>3, IdleRecord
  <2> QED
    BY <1>1, <2>1 DEF RunsTyped
<1> QED
  BY <1>2, <1>3, <1>4

LEMMA CrashRun ==
    ASSUME Crash
    PROVE  RunsTyped' /\ \A r \in Runs : run'[r] = IdleRun
<1>1. run' = [r \in Runs |-> IdleRun]
  BY DEF Crash
<1> QED
  BY <1>1, IdleRecord DEF RunsTyped

LEMMA FullBeginRun ==
    ASSUME RunsTyped, NEW r \in Runs, FullBegin(r)
    PROVE  /\ RunsTyped'
           /\ run'[r].pc = "page" /\ run'[r].mode = "full" /\ ~run'[r].aborted
           /\ run'[r].page = 0 /\ ~run'[r].last /\ run'[r].loaded = 0
           /\ run'[r].records = NoRecords /\ run'[r].later = {}
           /\ \A q \in Runs : q # r =>
                /\ run'[q].pc = run[q].pc /\ run'[q].page = run[q].page
                /\ run'[q].since = run[q].since /\ run'[q].oldest = run[q].oldest
                /\ run'[q].records = run[q].records
                /\ run'[q].later \subseteq run[q].later \cup {r}
<1> DEFINE x == [IdleRun EXCEPT !.pc = "page"]
<1>1. run' = [q \in Runs |->
                 IF q = r THEN x
                 ELSE IF q \in Active THEN [run[q] EXCEPT !.later = @ \cup {r}] ELSE run[q]]
  BY DEF FullBegin
<1>2. /\ x \in RunRecord /\ x.pc = "page" /\ x.mode = "full" /\ ~x.aborted
      /\ x.page = 0 /\ ~x.last /\ x.loaded = 0
      /\ x.records = NoRecords /\ x.later = {}
  BY IdleRecord DEF RunRecord, RunPcs
<1> HIDE DEF x
<1>3. ASSUME NEW q \in Runs, q # r
      PROVE  /\ run'[q] \in RunRecord /\ run'[q].pc = run[q].pc
             /\ run'[q].page = run[q].page /\ run'[q].since = run[q].since
             /\ run'[q].oldest = run[q].oldest /\ run'[q].records = run[q].records
             /\ run'[q].later \subseteq run[q].later \cup {r}
  <2>1. run[q] \in RunRecord
    BY DEF RunsTyped
  <2>2. CASE q \in Active
    <3>1. run'[q] = [run[q] EXCEPT !.later = @ \cup {r}]
      BY <1>1, <1>3, <2>2
    <3> QED
      BY <2>1, <3>1 DEF RunRecord
  <2>3. CASE q \notin Active
    <3>1. run'[q] = run[q]
      BY <1>1, <1>3, <2>3
    <3> QED
      BY <2>1, <3>1
  <2> QED
    BY <2>2, <2>3
<1>4. run'[r] = x
  BY <1>1
<1>5. RunsTyped'
  <2>1. \A q \in Runs : run'[q] \in RunRecord
    BY <1>2, <1>3, <1>4
  <2> QED
    BY <1>1, <2>1 DEF RunsTyped
<1> QED
  BY <1>2, <1>3, <1>4, <1>5

LEMMA FullPageRun ==
    ASSUME RunsTyped, LibraryTyped, NEW r \in Runs, FullPage(r)
    PROVE  LET batch == TitlePage(run[r].page)
               loaded == run[r].loaded + Cardinality(batch)
               last == Cardinality(batch) < PageSize \/ loaded >= Cardinality(Listed)
           IN
           /\ RunsTyped' /\ Others(r) /\ Cardinality(batch) \in Nat
           /\ run'[r].pc = IF batch # {} /\ loaded % WriteChunk = 0 THEN "flush"
                           ELSE IF last THEN "rest" ELSE "page"
           /\ run'[r].page = run[r].page + 1 /\ run'[r].loaded = loaded
           /\ run'[r].last = last
           /\ run'[r].records =
                [i \in Items |-> IF i \in batch THEN lib[i] ELSE run[r].records[i]]
           /\ run'[r].mode = run[r].mode /\ run'[r].aborted = run[r].aborted
           /\ run'[r].later = run[r].later
<1> DEFINE batch == TitlePage(run[r].page)
           loaded == run[r].loaded + Cardinality(batch)
           last == Cardinality(batch) < PageSize \/ loaded >= Cardinality(Listed)
           pc == IF batch # {} /\ loaded % WriteChunk = 0 THEN "flush"
                   ELSE IF last THEN "rest" ELSE "page"
           records == [i \in Items |-> IF i \in batch THEN lib[i] ELSE run[r].records[i]]
           x == [run[r] EXCEPT !.pc = pc, !.page = @ + 1, !.loaded = loaded, !.last = last,
                               !.records = records]
<1>1. run[r] \in RunRecord
  BY DEF RunsTyped
<1>2. run' = [run EXCEPT ![r] = x]
  BY DEF FullPage
<1>3. batch \subseteq Items /\ \A i \in batch : lib[i] > 0
  BY DEF TitlePage, Listed
<1>4. Cardinality(batch) \in Nat
  BY <1>3, ItemsFinite
<1>5. loaded \in Nat
  BY <1>1, <1>4, Fields
<1>6. records \in [Items -> Stamps]
  <2>1. run[r].records \in [Items -> Stamps]
    BY <1>1, Fields
  <2>2. \A i \in batch : lib[i] \in Stamps
    BY <1>3, StampFacts DEF LibraryTyped
  <2> QED
    BY <2>1, <2>2
<1>7. last \in BOOLEAN /\ pc \in RunPcs
  BY DEF RunPcs
<1> HIDE DEF batch, loaded, last, pc, records
<1>8. /\ x \in RunRecord /\ x.pc = pc /\ x.page = run[r].page + 1 /\ x.loaded = loaded
      /\ x.last = last /\ x.records = records /\ x.mode = run[r].mode
      /\ x.aborted = run[r].aborted /\ x.later = run[r].later
  <2> DEFINE page == run[r].page + 1
  <2>1. page \in Nat
    BY <1>1, Fields
  <2>2. x = [run[r] EXCEPT !.pc = pc, !.page = page, !.loaded = loaded, !.last = last,
                           !.records = records]
    OBVIOUS
  <2> HIDE DEF page, x
  <2>3. x \in RunRecord
    BY <1>1, <1>5, <1>6, <1>7, <2>1, <2>2 DEF RunRecord
  <2>4. x.pc = pc /\ x.page = page /\ x.loaded = loaded /\ x.records = records
    BY <1>1, <2>2 DEF RunRecord
  <2>5. x.last = last
    BY <1>1, <2>2 DEF RunRecord
  <2>6. x.mode = run[r].mode /\ x.aborted = run[r].aborted /\ x.later = run[r].later
    BY <1>1, <2>2 DEF RunRecord
  <2> USE DEF page
  <2> QED
    BY <2>3, <2>4, <2>5, <2>6
<1> HIDE DEF x
<1>9. /\ RunsTyped' /\ Others(r) /\ run'[r] = x
  BY <1>2, <1>8, RunsUpdate
<1> USE DEF batch, loaded, last, pc, records
<1> QED
  BY <1>4, <1>8, <1>9

LEMMA FullFlushRun ==
    ASSUME RunsTyped, NEW r \in Runs, FullFlush(r)
    PROVE  /\ RunsTyped' /\ Others(r)
           /\ run'[r].pc = IF run[r].last \/ run[r].aborted THEN "rest" ELSE "page"
           /\ run'[r].records = NoRecords
           /\ run'[r].mode = run[r].mode /\ run'[r].aborted = run[r].aborted
           /\ run'[r].page = run[r].page /\ run'[r].last = run[r].last
           /\ run'[r].loaded = run[r].loaded /\ run'[r].later = run[r].later
<1> DEFINE pc == IF run[r].last \/ run[r].aborted THEN "rest" ELSE "page"
           x == [run[r] EXCEPT !.records = NoRecords, !.pc = pc]
<1>1. run[r] \in RunRecord
  BY DEF RunsTyped
<1>2. run' = [run EXCEPT ![r] = x]
  BY DEF FullFlush
<1>3. pc \in RunPcs
  BY DEF RunPcs
<1> HIDE DEF pc
<1>4. /\ x \in RunRecord /\ x.pc = pc /\ x.records = NoRecords /\ x.mode = run[r].mode
      /\ x.aborted = run[r].aborted /\ x.page = run[r].page /\ x.last = run[r].last
      /\ x.loaded = run[r].loaded /\ x.later = run[r].later
  BY <1>1, <1>3, IdleRecord DEF RunRecord
<1> HIDE DEF x
<1>5. RunsTyped' /\ Others(r) /\ run'[r] = x
  BY <1>2, <1>4, RunsUpdate
<1> USE DEF pc
<1> QED
  BY <1>4, <1>5

LEMMA FullRestRun ==
    ASSUME RunsTyped, NEW r \in Runs, FullRest(r)
    PROVE  /\ RunsTyped' /\ Others(r)
           /\ run'[r].pc = "prune" /\ run'[r].records = NoRecords
           /\ run'[r].mode = run[r].mode /\ run'[r].aborted = run[r].aborted
           /\ run'[r].page = run[r].page /\ run'[r].last = run[r].last
           /\ run'[r].loaded = run[r].loaded /\ run'[r].later = run[r].later
<1> DEFINE x == [run[r] EXCEPT !.records = NoRecords, !.pc = "prune"]
<1>1. run[r] \in RunRecord
  BY DEF RunsTyped
<1>2. run' = [run EXCEPT ![r] = x]
  BY DEF FullRest
<1>3. /\ x \in RunRecord /\ x.pc = "prune" /\ x.records = NoRecords /\ x.mode = run[r].mode
      /\ x.aborted = run[r].aborted /\ x.page = run[r].page /\ x.last = run[r].last
      /\ x.loaded = run[r].loaded /\ x.later = run[r].later
  BY <1>1, IdleRecord DEF RunRecord, RunPcs
<1> HIDE DEF x
<1> QED
  BY <1>2, <1>3, RunsUpdate

LEMMA FullPruneRun ==
    ASSUME RunsTyped, NEW r \in Runs, FullPrune(r)
    PROVE  /\ RunsTyped' /\ Others(r)
           /\ run'[r].pc = "finish" /\ run'[r].mode = run[r].mode
           /\ run'[r].records = run[r].records /\ run'[r].later = run[r].later
<1> DEFINE x == [run[r] EXCEPT !.pc = "finish"]
<1>1. run[r] \in RunRecord
  BY DEF RunsTyped
<1>2. run' = [run EXCEPT ![r] = x]
  BY DEF FullPrune
<1>3. /\ x \in RunRecord /\ x.pc = "finish" /\ x.mode = run[r].mode
      /\ x.records = run[r].records /\ x.later = run[r].later
  BY <1>1 DEF RunRecord, RunPcs
<1> HIDE DEF x
<1> QED
  BY <1>2, <1>3, RunsUpdate

LEMMA EscalateRun ==
    ASSUME RunsTyped, NEW r \in Runs, Escalate(r)
    PROVE  /\ RunsTyped' /\ Others(r)
           /\ run'[r].pc = "full" /\ run'[r].mode = "full"
           /\ run'[r].records = NoRecords /\ run'[r].later = {}
<1> DEFINE aborted == run[r].aborted
           x == [IdleRun EXCEPT !.pc = "full", !.aborted = aborted]
<1>1. aborted \in BOOLEAN
  BY DEF RunsTyped, RunRecord
<1>2. run' = [run EXCEPT ![r] = x]
  BY DEF Escalate
<1> HIDE DEF aborted
<1>3. /\ x \in RunRecord /\ x.pc = "full" /\ x.mode = "full"
      /\ x.records = NoRecords /\ x.later = {}
  BY <1>1, IdleRecord DEF RunRecord, RunPcs
<1> HIDE DEF x
<1> QED
  BY <1>2, <1>3, RunsUpdate

\* An incremental run goes on, becomes a full one or has found what there is; what it
\* holds is in the library or was held before.
IncRun(r) ==
    /\ RunsTyped' /\ Others(r)
    /\ run'[r].pc \in {"full", "incPage", "filter", "write", "finish"}
    /\ run'[r].mode = IF run'[r].pc = "full" THEN "full" ELSE run[r].mode
    /\ \A i \in Items : run'[r].records[i] \in {0, run[r].records[i], lib[i]}
    /\ run'[r].later = {} \/ run'[r].later = run[r].later

\* What an incremental run begins with, and what a page makes of it.
IncBegins(r) ==
    /\ run'[r].pc = "incPage" /\ run'[r].since = Baseline
    /\ run'[r].page = run[r].page /\ run'[r].records = run[r].records

Newer(r) == {i \in NewestPage(run[r].page) : ~Older(lib[i], run[r].since)}
Complete(r) ==
    \/ \E i \in NewestPage(run[r].page) : Older(lib[i], run[r].since)
    \/ Cardinality(NewestPage(run[r].page)) < PageSize

IncReads(r) ==
    /\ \A i \in NewestPage(run[r].page) : lib[i] <= run[r].oldest
    /\ run'[r].records =
         [i \in Items |-> IF i \in Newer(r) THEN lib[i] ELSE run[r].records[i]]
    /\ \/ run'[r].pc = "filter" /\ Complete(r)
       \/ /\ run'[r].pc = "incPage" /\ ~Complete(r)
          /\ run'[r].page = run[r].page + 1 /\ run'[r].since = run[r].since
          /\ \E i \in NewestPage(run[r].page) : run'[r].oldest = lib[i]

LEMMA EscalateInc ==
    ASSUME RunsTyped, NEW r \in Runs, Escalate(r)
    PROVE  IncRun(r)
<1>1. \A i \in Items : NoRecords[i] = 0
  BY DEF NoRecords
<1> QED
  BY <1>1, EscalateRun DEF IncRun

LEMMA IncBaselineRun ==
    ASSUME RunsTyped, IndexTyped, NEW r \in Runs, IncBaseline(r)
    PROVE  IncRun(r) /\ (run'[r].pc = "full" \/ IncBegins(r))
<1>1. CASE Escalate(r)
  BY <1>1, EscalateInc, EscalateRun
<1>2. CASE run' = [run EXCEPT ![r].pc = "incPage", ![r].since = Baseline,
                              ![r].oldest = Infinity]
  <2> DEFINE base == Baseline
             x == [run[r] EXCEPT !.pc = "incPage", !.since = base, !.oldest = Infinity]
  <2>1. base \in Stamps /\ Infinity \in Stamps
    BY BaselineStamp, StampFacts DEF IndexTyped
  <2>2. run' = [run EXCEPT ![r] = x]
    BY <1>2
  <2> HIDE DEF base
  <2>3. run[r] \in RunRecord
    BY DEF RunsTyped
  <2>4. /\ x \in RunRecord /\ x.pc = "incPage" /\ x.mode = run[r].mode
        /\ x.since = base /\ x.page = run[r].page
        /\ x.records = run[r].records /\ x.later = run[r].later
    BY <2>1, <2>3 DEF RunRecord, RunPcs
  <2> HIDE DEF x
  <2>5. RunsTyped' /\ Others(r) /\ run'[r] = x
    BY <2>2, <2>4, RunsUpdate
  <2> QED
    BY <2>4, <2>5 DEF IncRun, IncBegins, base
<1> QED
  BY <1>1, <1>2 DEF IncBaseline

LEMMA IncPageRun ==
    ASSUME RunsTyped, LibraryTyped, NEW r \in Runs, IncPage(r)
    PROVE  IncRun(r) /\ (run'[r].pc = "full" \/ IncReads(r))
<1> DEFINE batch == NewestPage(run[r].page)
           newer == Newer(r)
           complete == Complete(r)
           ordered == \A i \in batch : lib[i] <= run[r].oldest
           records == [i \in Items |-> IF i \in newer THEN lib[i] ELSE run[r].records[i]]
<1>1. run[r] \in RunRecord
  BY DEF RunsTyped
<1>2. \A i \in batch : i \in Items /\ lib[i] > 0 /\ lib[i] \in Stamps
  BY StampFacts DEF NewestPage, Listed, LibraryTyped
<1>3. newer \subseteq batch
  BY DEF Newer
<1>4. records \in [Items -> Stamps]
  <2>1. run[r].records \in [Items -> Stamps]
    BY <1>1, Fields
  <2> QED
    BY <1>2, <1>3, <2>1
<1>5. \A i \in Items : records[i] \in {0, run[r].records[i], lib[i]}
  OBVIOUS
<1>6. records = [i \in Items |-> IF i \in batch /\ ~Older(lib[i], run[r].since)
                                 THEN lib[i] ELSE run[r].records[i]]
  BY DEF Newer
<1>7. \/ Escalate(r)
      \/ /\ ordered /\ complete
         /\ run' = [run EXCEPT ![r].pc = "filter", ![r].records = records]
      \/ /\ run[r].pc = "incPage" /\ ordered /\ ~complete
         /\ \E oldest \in {lib[i] : i \in batch} :
              run' = [run EXCEPT ![r].page = @ + 1, ![r].records = records,
                                 ![r].oldest = oldest]
  BY <1>6 DEF IncPage, Complete
<1> HIDE DEF batch, newer, complete, ordered, records
<1>8. CASE Escalate(r)
  BY <1>8, EscalateInc, EscalateRun
<1>9. CASE ordered /\ complete
           /\ run' = [run EXCEPT ![r].pc = "filter", ![r].records = records]
  <2> DEFINE x == [run[r] EXCEPT !.pc = "filter", !.records = records]
  <2>1. run' = [run EXCEPT ![r] = x]
    BY <1>9
  <2>2. /\ x \in RunRecord /\ x.pc = "filter" /\ x.mode = run[r].mode
        /\ x.records = records /\ x.later = run[r].later
    BY <1>1, <1>4 DEF RunRecord, RunPcs
  <2> HIDE DEF x
  <2>3. RunsTyped' /\ Others(r) /\ run'[r] = x
    BY <2>1, <2>2, RunsUpdate
  <2>4. IncRun(r)
    BY <1>5, <2>2, <2>3 DEF IncRun
  <2>5. IncReads(r)
    BY <1>9, <2>2, <2>3 DEF IncReads, ordered, complete, records, newer, batch
  <2> QED
    BY <2>4, <2>5
<1>10. ASSUME run[r].pc = "incPage", ordered, ~complete, NEW oldest \in {lib[i] : i \in batch},
              run' = [run EXCEPT ![r].page = @ + 1, ![r].records = records,
                                 ![r].oldest = oldest]
       PROVE  IncRun(r) /\ IncReads(r)
  <2> DEFINE page == run[r].page + 1
             x == [run[r] EXCEPT !.page = page, !.records = records, !.oldest = oldest]
  <2>1. run' = [run EXCEPT ![r] = x]
    BY <1>10
  <2>2. page \in Nat /\ oldest \in Stamps
    BY <1>1, <1>2, Fields
  <2> HIDE DEF page
  <2>3. /\ x \in RunRecord /\ x.pc = run[r].pc /\ x.mode = run[r].mode
        /\ x.page = page /\ x.since = run[r].since /\ x.oldest = oldest
        /\ x.records = records /\ x.later = run[r].later
    BY <1>1, <1>4, <2>2 DEF RunRecord, RunPcs
  <2> HIDE DEF x
  <2>4. RunsTyped' /\ Others(r) /\ run'[r] = x
    BY <2>1, <2>3, RunsUpdate
  <2>5. IncRun(r)
    BY <1>5, <1>10, <2>3, <2>4 DEF IncRun
  <2>6. \E i \in batch : run'[r].oldest = lib[i]
    BY <2>3, <2>4
  <2>7. IncReads(r)
    BY <1>10, <2>3, <2>4, <2>6 DEF IncReads, ordered, complete, records, newer, batch, page
  <2> QED
    BY <2>5, <2>7
<1> QED
  BY <1>7, <1>8, <1>9, <1>10

LEMMA IncFilterRun ==
    ASSUME RunsTyped, NEW r \in Runs, IncFilter(r)
    PROVE  /\ IncRun(r) /\ run'[r].pc = "write"
           /\ run'[r].records = [i \in Items |-> IF run[r].records[i] = held[i] THEN 0
                                                ELSE run[r].records[i]]
<1> DEFINE records == [i \in Items |-> IF run[r].records[i] = held[i] THEN 0
                                       ELSE run[r].records[i]]
           x == [run[r] EXCEPT !.pc = "write", !.records = records]
<1>1. run[r] \in RunRecord
  BY DEF RunsTyped
<1>2. run' = [run EXCEPT ![r] = x]
  BY DEF IncFilter
<1>3. records \in [Items -> Stamps] /\ \A i \in Items : records[i] \in {0, run[r].records[i]}
  <2>1. run[r].records \in [Items -> Stamps]
    BY <1>1, Fields
  <2> QED
    BY <2>1, StampFacts
<1> HIDE DEF records
<1>4. /\ x \in RunRecord /\ x.pc = "write" /\ x.mode = run[r].mode
      /\ x.records = records /\ x.later = run[r].later
  BY <1>1, <1>3 DEF RunRecord, RunPcs
<1> HIDE DEF x
<1>5. RunsTyped' /\ Others(r) /\ run'[r] = x
  BY <1>2, <1>4, RunsUpdate
<1>6. IncRun(r)
  BY <1>3, <1>4, <1>5 DEF IncRun
<1> QED
  BY <1>4, <1>5, <1>6 DEF records

LEMMA IncWriteRun ==
    ASSUME RunsTyped, NEW r \in Runs, IncWrite(r)
    PROVE  /\ IncRun(r)
           /\ \E chunk \in SUBSET Items :
                /\ Upsert(r, [i \in Items |-> IF i \in chunk THEN run[r].records[i] ELSE 0])
                /\ run'[r].records =
                     [i \in Items |-> IF i \in chunk THEN 0 ELSE run[r].records[i]]
                /\ run'[r].pc = "finish" => \A i \in Items : run'[r].records[i] = 0
                /\ run'[r].pc \in {"write", "finish"}
<1> DEFINE left == {i \in Items : run[r].records[i] > 0}
           chunk == {i \in left :
                       Cardinality({k \in left :
                          \/ run[r].records[k] > run[r].records[i]
                          \/ run[r].records[k] = run[r].records[i] /\ k < i}) < WriteChunk}
           records == [i \in Items |-> IF i \in chunk THEN 0 ELSE run[r].records[i]]
           pc == IF chunk = left THEN "finish" ELSE "write"
           x == [run[r] EXCEPT !.records = records, !.pc = pc]
<1>1. run[r] \in RunRecord
  BY DEF RunsTyped
<1>2. run' = [run EXCEPT ![r] = x]
  BY DEF IncWrite
<1>3. Upsert(r, [i \in Items |-> IF i \in chunk THEN run[r].records[i] ELSE 0])
      /\ chunk \in SUBSET Items
  BY DEF IncWrite
<1> HIDE DEF chunk
<1>4. records \in [Items -> Stamps] /\ \A i \in Items : records[i] \in {0, run[r].records[i]}
  <2>1. run[r].records \in [Items -> Stamps]
    BY <1>1, Fields
  <2> QED
    BY <2>1, StampFacts
<1>5. pc \in {"finish", "write"} /\ pc \in RunPcs /\ (pc = "finish" => chunk = left)
  BY DEF RunPcs
<1>6. chunk = left => \A i \in Items : records[i] = 0
  <2>1. \A i \in Items : run[r].records[i] \in Stamps
    BY <1>1, Fields
  <2>2. \A stamp \in Stamps : ~(stamp > 0) => stamp = 0
    BY StampFacts
  <2> QED
    BY <2>1, <2>2
<1> HIDE DEF records, pc, left
<1>7. /\ x \in RunRecord /\ x.pc = pc /\ x.mode = run[r].mode
      /\ x.records = records /\ x.later = run[r].later
  BY <1>1, <1>4, <1>5 DEF RunRecord
<1> HIDE DEF x
<1>8. RunsTyped' /\ Others(r) /\ run'[r] = x
  BY <1>2, <1>7, RunsUpdate
<1>9. IncRun(r)
  BY <1>4, <1>5, <1>7, <1>8 DEF IncRun
<1>10. run'[r].pc = "finish" => \A i \in Items : run'[r].records[i] = 0
  BY <1>5, <1>6, <1>7, <1>8
<1>11. run'[r].records = [i \in Items |-> IF i \in chunk THEN 0 ELSE run[r].records[i]]
  BY <1>7, <1>8 DEF records
<1> QED
  BY <1>3, <1>5, <1>7, <1>8, <1>9, <1>10, <1>11

-----------------------------------------------------------------------------
(***************************************************************************)
(* Types, for any number of runs.                                          *)
(***************************************************************************)
OwnersKept == UNCHANGED owners /\ UNCHANGED lastFull /\ UNCHANGED faults

LEMMA UpsertTyped ==
    ASSUME RunsTyped, IndexTyped, NEW r \in Runs, NEW records \in [Items -> Stamps],
           Upsert(r, records)
    PROVE  IndexTyped'
<1>1. run[r].later \in SUBSET Runs
  BY Fields DEF RunsTyped
<1> QED
  BY <1>1 DEF IndexTyped, Upsert

LEMMA ChangeTyped ==
    ASSUME LibraryTyped, NEW kind, NEW i \in Items, NEW stamp,
           stamp \in {clock, clock + 1} \/ stamp = Gone, Change(kind, i, stamp)
    PROVE  LibraryTyped'
<1>1. clock \in Nat /\ changes \in Nat /\ clock >= 1 /\ clock <= 1 + changes
      /\ changes + 1 <= MaxChanges /\ MaxChanges \in Nat
  BY IndexerAssumption, StampFacts DEF LibraryTyped, Change
<1>2. clock' = IF stamp > clock THEN stamp ELSE clock
  BY DEF Change
<1>3. changes' = changes + 1 /\ changes' \in 0..MaxChanges
  BY <1>1 DEF Change
<1>4. clock' \in 1..1 + changes' /\ clock' \in Stamps
  <2>1. clock' \in Nat /\ clock' >= 1 /\ clock' <= 1 + changes'
    BY <1>1, <1>2, <1>3 DEF Gone
  <2> QED
    BY <1>1, <1>3, <2>1 DEF Stamps, Infinity
<1>5. stamp \in Stamps \cup {Gone}
  BY <1>1 DEF Stamps, Infinity
<1>6. lib' \in [Items -> Stamps \cup {Gone}]
  BY <1>5 DEF Change, LibraryTyped
<1> QED
  BY <1>3, <1>4, <1>6 DEF LibraryTyped

LEMMA OverTyped ==
    ASSUME RunsTyped, OwnersTyped, IndexTyped, NEW r \in Runs, Over(r), held' = held
    PROVE  RunsTyped' /\ OwnersTyped' /\ IndexTyped'
<1>1. RunsTyped'
  BY OverRun
<1>2. OwnersTyped'
  <2>1. running' \in Runs \cup {None} /\ passes' \subseteq Runs
    BY DEF OwnersTyped, Over
  <2>2. passing' \in BOOLEAN /\ passed' \in BOOLEAN
    BY DEF OwnersTyped, Over
  <2> QED
    BY <2>1, <2>2 DEF OwnersTyped
<1>3. IndexTyped'
  BY DEF IndexTyped, Over
<1> QED
  BY <1>1, <1>2, <1>3

LEMMA TypedStep == Typed /\ [Next]_vars => Typed'
<1> SUFFICES ASSUME Typed, [Next]_vars PROVE Typed'
  OBVIOUS
<1>1. /\ LibraryTyped /\ IndexTyped /\ RunsTyped /\ OwnersTyped
      /\ lastFull \in {"never", "fresh", "stale"} /\ faults \in 0..MaxFaults
  BY TypedParts
<1> DEFINE Rest == /\ LibraryTyped /\ IndexTyped /\ RunsTyped /\ OwnersTyped
                   /\ lastFull \in {"never", "fresh", "stale"} /\ faults \in 0..MaxFaults
<1>2. SUFFICES Rest'
  BY TypedParts, PTL
<1>3. UNCHANGED library => LibraryTyped'
  BY <1>1 DEF library, LibraryTyped
<1>4. UNCHANGED index => IndexTyped'
  BY <1>1 DEF index, IndexTyped
<1>5. UNCHANGED run => RunsTyped'
  BY <1>1 DEF RunsTyped
<1>6. UNCHANGED owners => OwnersTyped'
  BY <1>1 DEF owners, OwnersTyped
<1>7. UNCHANGED lastFull => (lastFull \in {"never", "fresh", "stale"})'
  BY <1>1
<1>8. UNCHANGED faults => (faults \in 0..MaxFaults)'
  BY <1>1
<1>9. ASSUME faults < MaxFaults, faults' = faults + 1 PROVE faults' \in 0..MaxFaults
  BY <1>1, <1>9, IndexerAssumption
<1>10. CASE UNCHANGED vars
  BY <1>3, <1>4, <1>5, <1>6, <1>7, <1>8, <1>10 DEF vars
<1>11. CASE LibraryStep
  <2>1. PICK i \in Items, stamp \in {clock, clock + 1} :
           \/ Change("add", i, stamp) \/ Change("modify", i, stamp)
           \/ Change("remove", i, Gone)
    BY <1>11 DEF LibraryStep
  <2>2. LibraryTyped'
    BY <1>1, <2>1, ChangeTyped
  <2>3. UNCHANGED <<index, lastFull, run, owners, faults>>
    BY <2>1 DEF Change
  <2> QED
    BY <1>4, <1>5, <1>6, <1>7, <1>8, <2>2, <2>3
<1>12. CASE GoStale
  BY <1>3, <1>4, <1>5, <1>6, <1>8, <1>12 DEF GoStale
<1>13. CASE Cancel
  <2>1. RunsTyped'
    BY <1>1, <1>13, CancelRun
  <2> QED
    BY <1>3, <1>4, <1>6, <1>7, <1>8, <1>13, <2>1 DEF Cancel
<1>14. CASE Crash
  <2>1. RunsTyped'
    BY <1>14, CrashRun
  <2>2. OwnersTyped' /\ IndexTyped'
    BY <1>1, <1>14 DEF Crash, OwnersTyped, IndexTyped
  <2> QED
    BY <1>3, <1>7, <1>9, <1>14, <2>1, <2>2 DEF Crash
<1>15. ASSUME NEW r \in Runs, NEW requested \in {"auto", "full"}, Start(r, requested)
       PROVE  Rest'
  <2>1. Begin(r, requested) /\ running' = r /\ UNCHANGED <<passes, passing, passed>>
    BY <1>15 DEF Start
  <2>2. RunsTyped'
    BY <1>1, <2>1, BeginRun
  <2>3. OwnersTyped'
    BY <1>1, <2>1 DEF OwnersTyped
  <2> QED
    BY <1>3, <1>4, <1>7, <1>8, <2>1, <2>2, <2>3 DEF Begin
<1>16. ASSUME NEW r \in Runs, Pass(r) PROVE Rest'
  <2>1. /\ Begin(r, "auto") /\ passing' = TRUE /\ passes' = passes \cup {r}
        /\ UNCHANGED <<running, passed>>
    BY <1>16 DEF Pass
  <2>2. RunsTyped'
    BY <1>1, <2>1, BeginRun
  <2>3. OwnersTyped'
    BY <1>1, <2>1 DEF OwnersTyped
  <2> QED
    BY <1>3, <1>4, <1>7, <1>8, <2>1, <2>2, <2>3 DEF Begin
<1>17. ASSUME NEW r \in Runs, Fails(r) PROVE Rest'
  <2>1. Over(r) /\ UNCHANGED <<library, held, lastFull>>
        /\ faults < MaxFaults /\ faults' = faults + 1
    BY <1>17 DEF Fails
  <2>2. RunsTyped' /\ OwnersTyped' /\ IndexTyped'
    BY <1>1, <2>1, OverTyped
  <2> QED
    BY <1>3, <1>7, <1>9, <2>1, <2>2
<1>18. ASSUME NEW r \in Runs, Aborts(r) PROVE Rest'
  <2>1. Over(r) /\ UNCHANGED <<library, held, lastFull, faults>>
    BY <1>18 DEF Aborts
  <2>2. RunsTyped' /\ OwnersTyped' /\ IndexTyped'
    BY <1>1, <2>1, OverTyped
  <2> QED
    BY <1>3, <1>7, <1>8, <2>1, <2>2
<1>19. ASSUME NEW r \in Runs, Finish(r) PROVE Rest'
  <2>1. Over(r) /\ UNCHANGED <<library, held, faults>>
        /\ lastFull' = IF run[r].mode = "full" THEN "fresh" ELSE lastFull
    BY <1>19 DEF Finish
  <2>2. RunsTyped' /\ OwnersTyped' /\ IndexTyped'
    BY <1>1, <2>1, OverTyped
  <2>3. lastFull' \in {"never", "fresh", "stale"}
    BY <1>1, <2>1
  <2> QED
    BY <1>3, <1>8, <2>1, <2>2, <2>3
<1>20. ASSUME NEW r \in Runs, FullBegin(r) PROVE Rest'
  <2>1. RunsTyped'
    BY <1>1, <1>20, FullBeginRun
  <2>2. IndexTyped'
    BY <1>1, <1>20 DEF FullBegin, IndexTyped
  <2> QED
    BY <1>3, <1>6, <1>7, <1>8, <1>20, <2>1, <2>2 DEF FullBegin
<1>21. ASSUME NEW r \in Runs, FullPage(r) PROVE Rest'
  <2>1. RunsTyped'
    BY <1>1, <1>21, FullPageRun
  <2> QED
    BY <1>3, <1>4, <1>6, <1>7, <1>8, <1>21, <2>1 DEF FullPage
<1>22. ASSUME NEW r \in Runs, FullFlush(r) PROVE Rest'
  <2>1. RunsTyped'
    BY <1>1, <1>22, FullFlushRun
  <2>2. run[r].records \in [Items -> Stamps]
    BY <1>1, Fields DEF RunsTyped
  <2>3. IndexTyped'
    BY <1>1, <1>22, <2>2, UpsertTyped DEF FullFlush
  <2> QED
    BY <1>3, <1>6, <1>7, <1>8, <1>22, <2>1, <2>3 DEF FullFlush
<1>23. ASSUME NEW r \in Runs, FullRest(r) PROVE Rest'
  <2>1. RunsTyped'
    BY <1>1, <1>23, FullRestRun
  <2>2. run[r].records \in [Items -> Stamps]
    BY <1>1, Fields DEF RunsTyped
  <2>3. IndexTyped'
    BY <1>1, <1>23, <2>2, UpsertTyped DEF FullRest
  <2> QED
    BY <1>3, <1>6, <1>7, <1>8, <1>23, <2>1, <2>3 DEF FullRest
<1>24. ASSUME NEW r \in Runs, FullPrune(r) PROVE Rest'
  <2>1. RunsTyped'
    BY <1>1, <1>24, FullPruneRun
  <2>2. IndexTyped'
    BY <1>1, <1>24, StampFacts DEF FullPrune, IndexTyped
  <2> QED
    BY <1>3, <1>6, <1>7, <1>8, <1>24, <2>1, <2>2 DEF FullPrune
<1>25. ASSUME NEW r \in Runs, IncBaseline(r) PROVE Rest'
  <2>1. RunsTyped'
    BY <1>1, <1>25, IncBaselineRun DEF IncRun
  <2> QED
    BY <1>3, <1>4, <1>6, <1>7, <1>8, <1>25, <2>1 DEF IncBaseline
<1>26. ASSUME NEW r \in Runs, IncPage(r) PROVE Rest'
  <2>1. RunsTyped'
    BY <1>1, <1>26, IncPageRun DEF IncRun
  <2> QED
    BY <1>3, <1>4, <1>6, <1>7, <1>8, <1>26, <2>1 DEF IncPage
<1>27. ASSUME NEW r \in Runs, IncFilter(r) PROVE Rest'
  <2>1. RunsTyped'
    BY <1>1, <1>27, IncFilterRun DEF IncRun
  <2> QED
    BY <1>3, <1>4, <1>6, <1>7, <1>8, <1>27, <2>1 DEF IncFilter
<1>28. ASSUME NEW r \in Runs, IncWrite(r) PROVE Rest'
  <2>1. RunsTyped'
    BY <1>1, <1>28, IncWriteRun DEF IncRun
  <2>2. PICK chunk \in SUBSET Items :
          Upsert(r, [i \in Items |-> IF i \in chunk THEN run[r].records[i] ELSE 0])
    BY <1>1, <1>28, IncWriteRun
  <2>3. run[r].records \in [Items -> Stamps]
    BY <1>1, Fields DEF RunsTyped
  <2> DEFINE records == [i \in Items |-> IF i \in chunk THEN run[r].records[i] ELSE 0]
  <2>4. records \in [Items -> Stamps]
    BY <2>3, StampFacts
  <2>5. Upsert(r, records)
    BY <2>2
  <2> HIDE DEF records
  <2>6. IndexTyped'
    BY <1>1, <2>4, <2>5, UpsertTyped
  <2> QED
    BY <1>3, <1>6, <1>7, <1>8, <1>28, <2>1, <2>6 DEF IncWrite
<1> QED
  BY <1>10, <1>11, <1>12, <1>13, <1>14, <1>15, <1>16, <1>17, <1>18, <1>19, <1>20, <1>21,
     <1>22, <1>23, <1>24, <1>25, <1>26, <1>27, <1>28 DEF Next, RunStep

-----------------------------------------------------------------------------
(***************************************************************************)
(* Pages of a set of items in some order: what is before an item, and on   *)
(* which page that puts it.                                                *)
(***************************************************************************)
StrictOrder(R) ==
    /\ \A i \in Items : <<i, i>> \notin R
    /\ \A i, j \in Items : i # j => <<i, j>> \in R \/ <<j, i>> \in R
    /\ \A i, j, k \in Items : <<i, j>> \in R /\ <<j, k>> \in R => <<i, k>> \in R

Position(S, R, i) == Cardinality({k \in S : <<k, i>> \in R})
Page(S, R, n) == {i \in S : OnPage(Position(S, R, i), n)}

LEMMA PageBounds ==
    ASSUME NEW n \in Nat
    PROVE  /\ n * PageSize \in Nat /\ (n + 1) * PageSize = n * PageSize + PageSize
           /\ 0 * PageSize = 0
  BY IndexerAssumption

LEMMA PositionFacts ==
    ASSUME NEW S \in SUBSET Items, NEW R, StrictOrder(R), NEW i \in Items
    PROVE  /\ Position(S, R, i) \in Nat
           /\ i \in S => Position(S, R, i) < Cardinality(S)
           /\ \A j \in S : <<j, i>> \in R => Position(S, R, j) < Position(S, R, i)
<1> DEFINE Before(j) == {k \in S : <<k, j>> \in R}
<1>1. \A U \in SUBSET Items : IsFiniteSet(U) /\ Cardinality(U) \in Nat
  BY ItemsFinite
<1>2. Before(i) \in SUBSET Items /\ \A j \in S : Before(j) \in SUBSET Items
  OBVIOUS
<1>3. ASSUME i \in S PROVE Cardinality(Before(i)) < Cardinality(S)
  <2>1. Before(i) \in SUBSET S /\ Before(i) # S
    <3>1. i \notin Before(i)
      BY DEF StrictOrder
    <3> QED
      BY <1>3, <3>1
  <2>2. IsFiniteSet(S)
    BY <1>1
  <2> HIDE DEF Before
  <2>3. Cardinality(Before(i)) <= Cardinality(S) /\ Cardinality(S) # Cardinality(Before(i))
    BY <2>1, <2>2, FS_Subset
  <2> QED
    BY <1>1, <1>2, <2>3
<1>4. ASSUME NEW j \in S, <<j, i>> \in R PROVE Cardinality(Before(j)) < Cardinality(Before(i))
  <2>1. Before(j) \in SUBSET Before(i) /\ Before(j) # Before(i)
    <3>1. \A k \in S : <<k, j>> \in R => <<k, i>> \in R
      BY <1>4 DEF StrictOrder
    <3>2. j \in Before(i) /\ j \notin Before(j)
      BY <1>4 DEF StrictOrder
    <3> QED
      BY <3>1, <3>2
  <2>2. IsFiniteSet(Before(i))
    BY <1>1, <1>2
  <2> HIDE DEF Before
  <2>3. /\ Cardinality(Before(j)) <= Cardinality(Before(i))
        /\ Cardinality(Before(i)) # Cardinality(Before(j))
    BY <2>1, <2>2, FS_Subset
  <2> QED
    BY <1>1, <1>2, <2>3
<1>5. Cardinality(Before(i)) \in Nat
  BY <1>1, <1>2
<1> QED
  BY <1>3, <1>4, <1>5 DEF Position

\* An item that has no less before it is no nearer to the front.
LEMMA MoreBefore ==
    ASSUME NEW S \in SUBSET Items, NEW T \in SUBSET Items, NEW R, NEW Q, NEW i,
           \A k \in S : <<k, i>> \in R => k \in T /\ <<k, i>> \in Q
    PROVE  Position(S, R, i) <= Position(T, Q, i)
<1> DEFINE A == {k \in S : <<k, i>> \in R}
           B == {k \in T : <<k, i>> \in Q}
<1>1. A \in SUBSET B /\ B \in SUBSET Items
  OBVIOUS
<1>2. IsFiniteSet(B)
  BY <1>1, ItemsFinite
<1> HIDE DEF A, B
<1>3. Cardinality(A) <= Cardinality(B)
  BY <1>1, <1>2, FS_Subset
<1> QED
  BY <1>3 DEF Position, A, B

\* Different items have different positions.
LEMMA PositionsDiffer ==
    ASSUME NEW S \in SUBSET Items, NEW R, StrictOrder(R), NEW i \in S, NEW j \in S,
           Position(S, R, i) = Position(S, R, j)
    PROVE  i = j
<1>1. Position(S, R, i) \in Nat /\ Position(S, R, j) \in Nat
  BY PositionFacts
<1>2. ~(<<i, j>> \in R) /\ ~(<<j, i>> \in R)
  <2>1. <<i, j>> \in R => Position(S, R, i) < Position(S, R, j)
    BY PositionFacts
  <2>2. <<j, i>> \in R => Position(S, R, j) < Position(S, R, i)
    BY PositionFacts
  <2> QED
    BY <1>1, <2>1, <2>2
<1> QED
  BY <1>2 DEF StrictOrder

\* Items whose positions are within m of one another are m at most.
LEMMA WithinBound ==
    ASSUME NEW S \in SUBSET Items, NEW R, StrictOrder(R), NEW U \in SUBSET S,
           NEW b \in Nat, NEW m \in Nat,
           \A i \in U : b <= Position(S, R, i) /\ Position(S, R, i) < b + m
    PROVE  Cardinality(U) <= m
<1> DEFINE V == 0..m - 1
           f == [i \in U |-> Position(S, R, i) - b]
<1>1. IsFiniteSet(U) /\ Cardinality(U) \in Nat
  BY ItemsFinite
<1>2. IsFiniteSet(V) /\ Cardinality(V) = m
  <2>1. 0 \in Int /\ m - 1 \in Int
    OBVIOUS
  <2>2. IsFiniteSet(0..m - 1) /\ Cardinality(0..m - 1) = IF 0 > m - 1 THEN 0 ELSE m - 1 - 0 + 1
    BY <2>1, FS_Interval
  <2> QED
    BY <2>2
<1>3. \A i \in U : Position(S, R, i) \in Nat
  BY PositionFacts
<1>4. f \in [U -> V]
  BY <1>3
<1>5. \A i, j \in U : f[i] = f[j] => i = j
  <2> SUFFICES ASSUME NEW i \in U, NEW j \in U, f[i] = f[j] PROVE i = j
    OBVIOUS
  <2>1. Position(S, R, i) = Position(S, R, j)
    BY <1>3
  <2> QED
    BY <2>1, PositionsDiffer
<1> HIDE DEF V, f
<1>6. ~(Cardinality(V) < Cardinality(U))
  BY <1>1, <1>2, <1>4, <1>5, FS_PigeonHole
<1> QED
  BY <1>1, <1>2, <1>6

LEMMA PageAtMost ==
    ASSUME NEW S \in SUBSET Items, NEW R, StrictOrder(R), NEW n \in Nat
    PROVE  Cardinality(Page(S, R, n)) \in Nat /\ Cardinality(Page(S, R, n)) <= PageSize
<1> DEFINE U == Page(S, R, n)
           b == n * PageSize
<1>1. U \in SUBSET S /\ U \in SUBSET Items
  BY DEF Page
<1>2. b \in Nat /\ PageSize \in Nat
  BY PageBounds, IndexerAssumption
<1>3. \A i \in U : b <= Position(S, R, i) /\ Position(S, R, i) < b + PageSize
  BY PageBounds DEF Page, OnPage
<1> HIDE DEF U, b
<1>4. Cardinality(U) <= PageSize
  BY <1>1, <1>2, <1>3, WithinBound
<1>5. Cardinality(U) \in Nat
  BY <1>1, ItemsFinite
<1> QED
  BY <1>4, <1>5 DEF U

\* A page is full when there are items after it.
LEMMA PageFull ==
    ASSUME NEW S \in SUBSET Items, NEW R, StrictOrder(R), NEW n \in Nat,
           NEW j \in S, Position(S, R, j) >= (n + 1) * PageSize
    PROVE  Cardinality(Page(S, R, n)) = PageSize
<1> DEFINE b == n * PageSize
           c == (n + 1) * PageSize
           After == {k \in S : Position(S, R, k) >= c}
           Places == {Position(S, R, k) : k \in After}
<1>1. b \in Nat /\ c \in Nat /\ c = b + PageSize /\ PageSize \in Nat
  BY PageBounds, IndexerAssumption
<1>2. \A k \in S : Position(S, R, k) \in Nat
  BY PositionFacts
<1>3. Places \in SUBSET Nat /\ Places # {}
  <2>1. j \in After
    OBVIOUS
  <2> QED
    BY <1>2, <2>1
<1>4. PICK least \in Places : \A m \in Places : least <= m
  <2> HIDE DEF Places
  <2> QED
    BY <1>3, Least
<1>5. PICK i \in After : least = Position(S, R, i)
  BY <1>4
<1> DEFINE T == {k \in S : <<k, i>> \in R}
           U == {k \in S : Position(S, R, k) < b}
           P == Page(S, R, n)
<1>6. i \in S /\ i \in Items /\ Cardinality(T) >= c
  BY <1>5 DEF Position
<1>7. \A k \in T : Position(S, R, k) < c
  <2> SUFFICES ASSUME NEW k \in T PROVE Position(S, R, k) < c
    OBVIOUS
  <2>1. Position(S, R, k) < Position(S, R, i)
    BY <1>6, PositionFacts
  <2>2. Position(S, R, k) \in Nat /\ Position(S, R, i) \in Nat
    BY <1>2, <1>6
  <2>3. ~(Position(S, R, i) <= Position(S, R, k))
    BY <2>1, <2>2
  <2>4. Position(S, R, k) \notin Places
    BY <1>4, <1>5, <2>3
  <2>5. k \notin After
    BY <2>4
  <2> HIDE DEF c
  <2> QED
    BY <1>1, <2>2, <2>5
<1>8. T \subseteq U \cup P
  <2> SUFFICES ASSUME NEW k \in T, k \notin U PROVE k \in P
    OBVIOUS
  <2>1. Position(S, R, k) \in Nat
    BY <1>2
  <2>2. b <= Position(S, R, k) /\ Position(S, R, k) < c
    BY <1>1, <1>7, <2>1
  <2> QED
    BY <2>2 DEF Page, OnPage
<1>9. U \in SUBSET S /\ P \in SUBSET S /\ T \in SUBSET S
  BY DEF Page
<1>10. Cardinality(U) <= b
  <2>1. \A k \in U : 0 <= Position(S, R, k) /\ Position(S, R, k) < 0 + b
    <3>1. \A k \in U : k \in S /\ Position(S, R, k) < b
      OBVIOUS
    <3>2. b = 0 + b
      BY <1>1
    <3> HIDE DEF b, U
    <3> QED
      BY <1>1, <1>2, <3>1, <3>2
  <2>2. 0 \in Nat
    OBVIOUS
  <2> HIDE DEF U, b
  <2> QED
    BY <1>1, <1>9, <2>1, <2>2, WithinBound
<1>11. /\ IsFiniteSet(U) /\ IsFiniteSet(P) /\ Cardinality(U) \in Nat /\ Cardinality(P) \in Nat
       /\ Cardinality(T) \in Nat
  BY <1>9, ItemsFinite
<1> HIDE DEF T, U, P, b, c
<1>12. /\ IsFiniteSet(U \cup P) /\ Cardinality(U \cup P) <= Cardinality(U) + Cardinality(P)
  <2>1. /\ IsFiniteSet(U \cup P) /\ IsFiniteSet(U \cap P)
        /\ Cardinality(U \cup P) = Cardinality(U) + Cardinality(P) - Cardinality(U \cap P)
    BY <1>11, FS_Union, FS_Intersection
  <2>2. Cardinality(U \cap P) \in Nat
    BY <2>1, FS_CardinalityType
  <2> QED
    BY <1>11, <2>1, <2>2
<1>13. Cardinality(T) <= Cardinality(U \cup P) /\ Cardinality(U \cup P) \in Nat
  BY <1>8, <1>12, FS_Subset, FS_CardinalityType
<1>14. Cardinality(P) >= PageSize
  BY <1>1, <1>6, <1>10, <1>11, <1>12, <1>13
<1>15. Cardinality(P) <= PageSize
  BY PageAtMost DEF P
<1> QED
  BY <1>1, <1>11, <1>14, <1>15 DEF P

\* When a page is not full, or the items seen so far are as many as there are, no item
\* is on a later page.
LEMMA LastPage ==
    ASSUME NEW S \in SUBSET Items, NEW R, StrictOrder(R), NEW n \in Nat, NEW loaded \in Nat,
           loaded <= (n + 1) * PageSize,
           Cardinality(Page(S, R, n)) < PageSize \/ loaded >= Cardinality(S),
           NEW i \in S
    PROVE  ~(Position(S, R, i) >= (n + 1) * PageSize)
<1>1. SUFFICES ASSUME Position(S, R, i) >= (n + 1) * PageSize PROVE FALSE
  OBVIOUS
<1> DEFINE c == (n + 1) * PageSize
<1>2. Cardinality(Page(S, R, n)) = PageSize
  BY <1>1, PageFull
<1>3. /\ Position(S, R, i) \in Nat /\ Position(S, R, i) < Cardinality(S)
      /\ Cardinality(S) \in Nat /\ PageSize \in Nat /\ c \in Nat
  <2>1. i \in Items
    OBVIOUS
  <2>2. Position(S, R, i) \in Nat /\ Position(S, R, i) < Cardinality(S)
    BY <2>1, PositionFacts
  <2> QED
    BY <2>2, ItemsFinite, PageBounds, IndexerAssumption
<1>4. loaded <= c /\ Position(S, R, i) >= c
  BY <1>1
<1> HIDE DEF c
<1> QED
  BY <1>2, <1>3, <1>4

\* The two orders in which the library is listed.
ByTitle == {p \in Items \X Items : p[1] < p[2]}
ByAge == {p \in Items \X Items : NewestFirst(p[1], p[2])}

LEMMA TitleOrder == StrictOrder(ByTitle)
  BY DEF StrictOrder, ByTitle, Items

LEMMA AgeOrder ==
    ASSUME lib \in [Items -> Stamps \cup {Gone}]
    PROVE  StrictOrder(ByAge)
<1>1. \A i \in Items : lib[i] \in Int /\ i \in Int
  <2>1. \A x \in Stamps \cup {Gone} : x \in Int
    BY StampFacts DEF Gone
  <2> QED
    BY <2>1 DEF Items
<1> QED
  BY <1>1 DEF StrictOrder, ByAge, NewestFirst

LEMMA TitlePages ==
    \A n : TitlePage(n) = Page(Listed, ByTitle, n)
<1>1. \A i \in Listed : {k \in Listed : k < i} = {k \in Listed : <<k, i>> \in ByTitle}
  BY DEF ByTitle, Listed
<1> QED
  BY <1>1 DEF TitlePage, Page, Position

LEMMA AgePages ==
    \A n : NewestPage(n) = Page(Listed, ByAge, n)
<1>1. \A i \in Listed : {k \in Listed : NewestFirst(k, i)} = {k \in Listed : <<k, i>> \in ByAge}
  BY DEF ByAge, Listed
<1> QED
  BY <1>1 DEF NewestPage, Page, Position

-----------------------------------------------------------------------------
(***************************************************************************)
(* The steps, by what they do to the library, the index and the runs.      *)
(***************************************************************************)
Quiet == UNCHANGED <<library, index, run>> /\ lastFull' \in {lastFull, "stale"}
Ending(r) ==
    /\ Aborts(r) \/ Fails(r) \/ Finish(r)
    /\ run[r].pc # "idle" /\ Over(r) /\ UNCHANGED <<library, held>>
IncStep(r) ==
    /\ IncBaseline(r) \/ IncPage(r) \/ IncFilter(r) \/ IncWrite(r)
    /\ run[r].pc \in {"baseline", "incPage", "filter", "write"}
    /\ IncRun(r)
    /\ UNCHANGED library
    /\ \/ UNCHANGED index
       \/ \E chunk \in SUBSET Items :
            Upsert(r, [i \in Items |-> IF i \in chunk THEN run[r].records[i] ELSE 0])

RunMoves(r) ==
    \/ \E requested \in {"auto", "full"} : Begin(r, requested)
    \/ Ending(r)
    \/ FullBegin(r) \/ FullPage(r) \/ FullFlush(r) \/ FullRest(r) \/ FullPrune(r)
    \/ IncStep(r)

LEMMA Steps ==
    ASSUME Typed, [Next]_vars
    PROVE  Quiet \/ LibraryStep \/ Cancel \/ Crash \/ \E r \in Runs : RunMoves(r)
<1>1. LibraryTyped /\ IndexTyped /\ RunsTyped
  BY TypedParts
<1>2. CASE UNCHANGED vars
  BY <1>2 DEF vars, Quiet
<1>3. CASE GoStale
  BY <1>3 DEF GoStale, Quiet
<1>4. ASSUME NEW r \in Runs, Pass(r) \/ \E requested \in {"auto", "full"} : Start(r, requested)
      PROVE  RunMoves(r)
  BY <1>4 DEF Pass, Start, RunMoves
<1>5. ASSUME NEW r \in Runs, Aborts(r) \/ Fails(r) \/ Finish(r)
      PROVE  RunMoves(r)
  <2>1. Ending(r)
    BY <1>5 DEF Aborts, Fails, Finish, Ending
  <2> QED
    BY <2>1 DEF RunMoves
<1>6. ASSUME NEW r \in Runs, IncBaseline(r) \/ IncPage(r) \/ IncFilter(r) \/ IncWrite(r)
      PROVE  RunMoves(r)
  <2>1. IncRun(r)
    BY <1>1, <1>6, IncBaselineRun, IncPageRun, IncFilterRun, IncWriteRun
  <2>2. run[r].pc \in {"baseline", "incPage", "filter", "write"} /\ UNCHANGED library
    BY <1>6 DEF IncBaseline, IncPage, IncFilter, IncWrite
  <2>3. \/ UNCHANGED index
        \/ \E chunk \in SUBSET Items :
             Upsert(r, [i \in Items |-> IF i \in chunk THEN run[r].records[i] ELSE 0])
    <3>1. CASE IncBaseline(r) \/ IncPage(r) \/ IncFilter(r)
      BY <3>1 DEF IncBaseline, IncPage, IncFilter
    <3>2. CASE IncWrite(r)
      BY <1>1, <3>2, IncWriteRun
    <3> QED
      BY <1>6, <3>1, <3>2
  <2>4. IncStep(r)
    BY <1>6, <2>1, <2>2, <2>3 DEF IncStep
  <2> QED
    BY <2>4 DEF RunMoves
<1>7. ASSUME NEW r \in Runs,
             FullBegin(r) \/ FullPage(r) \/ FullFlush(r) \/ FullRest(r) \/ FullPrune(r)
      PROVE  RunMoves(r)
  BY <1>7 DEF RunMoves
<1> QED
  BY <1>2, <1>3, <1>4, <1>5, <1>6, <1>7 DEF Next, RunStep

\* The library changes to a later stamp or to Gone, and no run changes with it.
LEMMA ChangeFacts ==
    ASSUME Typed, LibraryStep
    PROVE  /\ UNCHANGED <<index, run>>
           /\ \A i \in Items : lib[i] # 0 => lib'[i] # 0
           /\ (\E r \in Active : run[r].mode = "full") /\ "remove" \notin DuringFull =>
                \A i \in Items : /\ lib[i] > 0 => lib'[i] > 0
                                 /\ lib'[i] > 0 => lib[i] >= 0
                                 /\ lib[i] = Gone => lib'[i] = Gone
<1>1. LibraryTyped
  BY TypedParts
<1>2. clock \in Nat /\ clock >= 1 /\ lib \in [Items -> Stamps \cup {Gone}]
  BY <1>1, StampFacts DEF LibraryTyped
<1>3. PICK i \in Items, stamp \in {clock, clock + 1} :
         \/ lib[i] = 0 /\ Change("add", i, stamp)
         \/ lib[i] > 0 /\ Change("modify", i, stamp)
         \/ lib[i] > 0 /\ Change("remove", i, Gone)
  BY DEF LibraryStep
<1>4. UNCHANGED <<index, run>>
  BY <1>3 DEF Change
<1>5. CASE (lib[i] = 0 \/ lib[i] > 0) /\ lib' = [lib EXCEPT ![i] = stamp]
  <2>1. \A j \in Items : lib'[j] = IF j = i THEN stamp ELSE lib[j]
    BY <1>2, <1>5
  <2>2. stamp > 0 /\ stamp # 0
    BY <1>2
  <2>3. ~(Gone > 0) /\ Gone # 0
    BY StampFacts
  <2>4. \A j \in Items : lib[j] = Gone => j # i
    BY <1>5, <2>3
  <2>5. \A j \in Items : lib[j] > 0 => lib[j] >= 0
    BY <1>2 DEF Stamps, Gone
  <2> QED
    BY <1>2, <1>4, <1>5, <2>1, <2>2, <2>4, <2>5
<1>6. CASE lib[i] > 0 /\ Change("remove", i, Gone)
  <2>1. \A r \in Active : run[r].mode = "full" => "remove" \in DuringFull
    BY <1>6 DEF Change
  <2>2. \A j \in Items : lib'[j] = IF j = i THEN Gone ELSE lib[j]
    BY <1>2, <1>6 DEF Change
  <2> QED
    BY <1>4, <2>1, <2>2, StampFacts
<1> QED
  BY <1>3, <1>5, <1>6 DEF Change

-----------------------------------------------------------------------------
(***************************************************************************)
(* The invariant.  For any number of runs: what is held or about to be     *)
(* written is known to the library, and no run started after itself.       *)
(***************************************************************************)
Known ==
    /\ \A i \in Items : held[i] > 0 => lib[i] # 0
    /\ \A r \in Runs, i \in Items : run[r].records[i] > 0 => lib[i] # 0
    /\ \A r \in Runs : r \notin run[r].later

\* What upserting some of the records of a run makes of the rows.
LEMMA UpsertFacts ==
    ASSUME RunsTyped, IndexTyped, NEW r \in Runs, NEW records \in [Items -> Stamps],
           Upsert(r, records)
    PROVE  \A i \in Items :
             /\ records[i] > 0 => held'[i] = records[i] /\ old'[i] = run[r].later
             /\ ~(records[i] > 0) => held'[i] = held[i] /\ old'[i] = old[i]
  BY DEF Upsert

LEMMA ChunkFacts ==
    ASSUME RunsTyped, IndexTyped, NEW r \in Runs, NEW chunk \in SUBSET Items,
           Upsert(r, [i \in Items |-> IF i \in chunk THEN run[r].records[i] ELSE 0])
    PROVE  \A i \in Items :
             held'[i] = held[i] \/ (held'[i] = run[r].records[i] /\ held'[i] > 0)
  BY DEF Upsert

LEMMA NoRecordsFact == \A i \in Items : ~(NoRecords[i] > 0) /\ NoRecords[i] = 0
  BY DEF NoRecords

LEMMA KnownInit == Init => Known
<1> SUFFICES ASSUME Init PROVE Known
  OBVIOUS
<1>1. \A i \in Items : ~(held[i] > 0)
  BY DEF Init
<1>2. \A r \in Runs : run[r] = IdleRun
  BY DEF Init
<1> QED
  BY <1>1, <1>2, IdleRecord, NoRecordsFact DEF Known

\* Rows and records as they are after a step that writes nothing that was not there.
LEMMA KnownKept ==
    ASSUME Known,
           \A i \in Items : lib[i] # 0 => lib'[i] # 0,
           \A i \in Items : held'[i] > 0 => held[i] > 0 \/ \E r \in Runs : run[r].records[i] > 0,
           \A r \in Runs, i \in Items :
             run'[r].records[i] > 0 => run[r].records[i] > 0 \/ lib[i] # 0,
           \A r \in Runs : r \notin run'[r].later
    PROVE  Known'
  BY DEF Known

LEMMA KnownStep == Typed /\ Known /\ [Next]_vars => Known'
<1> SUFFICES ASSUME Typed, Known, [Next]_vars PROVE Known'
  OBVIOUS
<1>1. LibraryTyped /\ IndexTyped /\ RunsTyped /\ OwnersTyped
  BY TypedParts
<1>2. CASE Quiet
  BY <1>2, KnownKept DEF Quiet, library, index, Known
<1>3. CASE LibraryStep
  <2>1. UNCHANGED <<index, run>> /\ \A i \in Items : lib[i] # 0 => lib'[i] # 0
    BY <1>3, ChangeFacts
  <2> QED
    BY <2>1, KnownKept DEF index, Known
<1>4. CASE Cancel
  <2>1. \A r \in Runs : run'[r].records = run[r].records /\ run'[r].later = run[r].later
    BY <1>1, <1>4, CancelRun DEF Others
  <2>2. UNCHANGED <<library, index>>
    BY <1>4 DEF Cancel
  <2> QED
    BY <2>1, <2>2, KnownKept DEF library, index, Known
<1>5. CASE Crash
  <2>1. \A r \in Runs : run'[r] = IdleRun
    BY <1>5, CrashRun
  <2>2. UNCHANGED <<library, held>>
    BY <1>5 DEF Crash
  <2>3. \A r \in Runs : run'[r].records = NoRecords /\ run'[r].later = {}
    BY <2>1, IdleRecord
  <2> QED
    BY <2>2, <2>3, KnownKept, NoRecordsFact DEF library
<1>6. ASSUME NEW r \in Runs, RunMoves(r) PROVE Known'
  <2>1. ASSUME NEW requested, Begin(r, requested) PROVE Known'
    <3>1. \A q \in Runs : run'[q].records = run[q].records /\ run'[q].later = run[q].later
      BY <1>1, <2>1, BeginRun DEF Others
    <3>2. UNCHANGED <<library, index>>
      BY <2>1 DEF Begin
    <3> QED
      BY <3>1, <3>2, KnownKept DEF library, index, Known
  <2>2. CASE Ending(r)
    <3>1. /\ run'[r] = IdleRun
          /\ \A q \in Runs : q # r => /\ run'[q].records = run[q].records
                                      /\ run'[q].later = run[q].later \ {r}
      BY <1>1, <2>2, OverRun DEF Ending
    <3>2. run'[r].records = NoRecords /\ run'[r].later = {}
      BY <3>1, IdleRecord
    <3>3. UNCHANGED <<library, held>>
      BY <2>2 DEF Ending
    <3> QED
      BY <3>1, <3>2, <3>3, KnownKept, NoRecordsFact DEF library, Known
  <2>3. CASE FullBegin(r)
    <3>1. /\ run'[r].records = NoRecords /\ run'[r].later = {}
          /\ \A q \in Runs : q # r => /\ run'[q].records = run[q].records
                                      /\ run'[q].later \subseteq run[q].later \cup {r}
      BY <1>1, <2>3, FullBeginRun
    <3>2. UNCHANGED <<library, held>>
      BY <2>3 DEF FullBegin
    <3> QED
      BY <3>1, <3>2, KnownKept, NoRecordsFact DEF library, Known
  <2>4. CASE FullPage(r)
    <3>1. /\ Others(r) /\ run'[r].later = run[r].later
          /\ run'[r].records = [i \in Items |-> IF i \in TitlePage(run[r].page)
                                                THEN lib[i] ELSE run[r].records[i]]
      BY <1>1, <2>4, FullPageRun
    <3>2. \A i \in TitlePage(run[r].page) : i \in Items /\ lib[i] > 0 /\ lib[i] # 0
      BY <1>1 DEF TitlePage, Listed, LibraryTyped, Stamps, Gone
    <3>3. UNCHANGED <<library, index>>
      BY <2>4 DEF FullPage
    <3>4. \A i \in Items : run'[r].records[i] > 0 => run[r].records[i] > 0 \/ lib[i] # 0
      BY <3>1, <3>2
    <3> QED
      BY <3>1, <3>3, <3>4, KnownKept DEF library, index, Known, Others
  <2>5. CASE FullFlush(r) \/ FullRest(r)
    <3>1. /\ Others(r) /\ run'[r].later = run[r].later /\ run'[r].records = NoRecords
      BY <1>1, <2>5, FullFlushRun, FullRestRun
    <3>2. Upsert(r, run[r].records) /\ UNCHANGED library
      BY <2>5 DEF FullFlush, FullRest
    <3>3. run[r].records \in [Items -> Stamps]
      BY <1>1, Fields DEF RunsTyped
    <3>4. \A i \in Items : held'[i] > 0 => held[i] > 0 \/ run[r].records[i] > 0
      BY <1>1, <3>2, <3>3, UpsertFacts
    <3> QED
      BY <3>1, <3>2, <3>4, KnownKept, NoRecordsFact DEF library, Known, Others
  <2>6. CASE FullPrune(r)
    <3>1. /\ Others(r) /\ run'[r].later = run[r].later /\ run'[r].records = run[r].records
      BY <1>1, <2>6, FullPruneRun
    <3>2. UNCHANGED library /\ \A i \in Items : held'[i] > 0 => held[i] > 0
      BY <2>6 DEF FullPrune
    <3> QED
      BY <3>1, <3>2, KnownKept DEF library, Known, Others
  <2>7. CASE IncStep(r)
    <3>1. /\ Others(r)
          /\ run'[r].later = {} \/ run'[r].later = run[r].later
          /\ \A i \in Items : run'[r].records[i] > 0 => run[r].records[i] > 0 \/ lib[i] > 0
      BY <2>7, StampFacts DEF IncStep, IncRun
    <3>2. UNCHANGED library /\ \A i \in Items : lib[i] > 0 => lib[i] # 0
      BY <1>1, <2>7 DEF IncStep, LibraryTyped, Stamps, Gone
    <3>3. \A i \in Items : held'[i] > 0 => held[i] > 0 \/ run[r].records[i] > 0
      <4>1. CASE UNCHANGED index
        BY <4>1 DEF index
      <4>2. CASE ~UNCHANGED index
        <5>1. PICK chunk \in SUBSET Items :
                Upsert(r, [i \in Items |-> IF i \in chunk THEN run[r].records[i] ELSE 0])
          BY <2>7, <4>2 DEF IncStep
        <5> QED
          BY <1>1, <5>1, ChunkFacts
      <4> QED
        BY <4>1, <4>2
    <3> QED
      BY <3>1, <3>2, <3>3, KnownKept DEF library, Known, Others
  <2> QED
    BY <1>6, <2>1, <2>2, <2>3, <2>4, <2>5, <2>6, <2>7 DEF RunMoves
<1> QED
  BY <1>2, <1>3, <1>4, <1>5, <1>6, Steps

-----------------------------------------------------------------------------
(***************************************************************************)
(* The invariant of a full crawl that no other run overlaps.               *)
(***************************************************************************)
Alone == \A q, r \in Active : q = r

Crawling == {"page", "flush", "rest", "prune"}
Place(i) == Position(Listed, ByTitle, i)

\* Rows of listed items that run r, were it to prune now, would delete.
Missed(r) == {i \in Listed : held[i] > 0 /\ r \in old[i] /\ run[r].records[i] = 0}

\* The mode of a run goes with where it is.
ModeKnown(r) ==
    /\ run[r].pc \in {"baseline", "incPage", "filter", "write"} => run[r].mode = "incremental"
    /\ run[r].pc \in Crawling => run[r].mode = "full"
\* A page brings a page of records at most; the last ends the paging; what is pruned
\* has been written.
Counting(r) ==
    /\ run[r].loaded <= run[r].page * PageSize
    /\ run[r].pc = "page" => ~run[r].last
    /\ run[r].pc = "prune" => run[r].records = NoRecords
\* While there are pages to come, what is missed is on them; then nothing is.
Ahead(r) ==
    run[r].pc \in {"page", "flush"} /\ ~run[r].last =>
        \A i \in Missed(r) : Place(i) >= run[r].page * PageSize
Found(r) ==
    (\/ run[r].pc = "flush" /\ run[r].last
     \/ run[r].pc \in {"rest", "prune"} /\ ~run[r].aborted) => Missed(r) = {}
\* A row of an item that is not listed has not been seen by the run.
Unseen(r) ==
    \A i \in Items : /\ held[i] > 0 => lib[i] > 0 \/ r \in old[i]
                     /\ run[r].records[i] > 0 => lib[i] > 0
Pruned(r) ==
    run[r].pc = "finish" /\ run[r].mode = "full" => \A i \in Items : held[i] > 0 => lib[i] > 0

Fine(r) ==
    /\ ModeKnown(r)
    /\ run[r].pc \in Crawling => Counting(r) /\ Ahead(r) /\ Found(r) /\ Unseen(r)
    /\ Pruned(r)
AllFine == \A r \in Runs : Fine(r)

LEMMA IdleFine ==
    ASSUME NEW r \in Runs, run'[r].pc = "idle"
    PROVE  Fine(r)'
  BY DEF Fine, ModeKnown, Crawling, Pruned

LEMMA PlaceFacts ==
    /\ \A i \in Items : Place(i) \in Nat
    /\ UNCHANGED library => Listed' = Listed /\ \A i \in Items : Place(i)' = Place(i)
    /\ Listed \subseteq Listed' => \A i \in Items : Place(i)' \in Nat /\ Place(i) <= Place(i)'
<1>1. Listed \in SUBSET Items /\ Listed' \in SUBSET Items
  BY DEF Listed
<1>2. UNCHANGED library => Listed' = Listed
  BY DEF library, Listed
<1>3. \A i \in Items : Place(i) = Position(Listed, ByTitle, i)
  BY DEF Place
<1>4. \A i \in Items : Place(i)' = Cardinality({k \in Listed' : <<k, i>> \in ByTitle})
  BY DEF Place, Position, ByTitle
<1>5. \A i \in Items : Place(i)' = Position(Listed', ByTitle, i)
  BY <1>4 DEF Position
<1>6. \A i \in Items :
        Position(Listed, ByTitle, i) \in Nat /\ Position(Listed', ByTitle, i) \in Nat
  BY <1>1, TitleOrder, PositionFacts
<1>7. Listed \subseteq Listed' =>
        \A i \in Items : Position(Listed, ByTitle, i) <= Position(Listed', ByTitle, i)
  BY <1>1, MoreBefore
<1> QED
  BY <1>2, <1>3, <1>5, <1>6, <1>7

\* A run that stays where it is, while its rows and the library do not get worse.
LEMMA FineKept ==
    ASSUME Typed, NEW r \in Runs, Fine(r),
           run'[r].pc = run[r].pc, run'[r].mode = run[r].mode,
           run'[r].aborted = run[r].aborted \/ run'[r].aborted,
           run'[r].page = run[r].page, run'[r].last = run[r].last,
           run'[r].loaded = run[r].loaded, run'[r].records = run[r].records,
           Missed(r)' \subseteq Missed(r),
           \A i \in Items : Place(i)' \in Nat /\ Place(i) <= Place(i)',
           Unseen(r) => Unseen(r)', Pruned(r)'
    PROVE  Fine(r)'
<1> DEFINE c == run[r].page * PageSize
<1>1. run[r].page \in Nat /\ c \in Nat
  <2>1. run[r].page \in Nat
    BY Typing, Fields
  <2> QED
    BY <2>1, PageBounds
<1>2. \A i \in Missed(r) : i \in Items /\ Place(i) \in Nat
  BY PlaceFacts DEF Missed, Listed
<1>3. run'[r].page * PageSize = c
  OBVIOUS
<1>4. CASE run[r].pc \notin Crawling
  BY <1>4 DEF Fine, ModeKnown
<1>5. CASE run[r].pc \in Crawling
  <2>1. Counting(r) /\ Ahead(r) /\ Found(r) /\ Unseen(r)
    BY <1>5 DEF Fine
  <2>2. Counting(r)'
    BY <2>1 DEF Counting
  <2>3. Found(r)'
    BY <2>1 DEF Found
  <2>4. Ahead(r)'
    <3>1. SUFFICES ASSUME run'[r].pc \in {"page", "flush"}, ~run'[r].last,
                          NEW i \in Missed(r)'
                   PROVE  Place(i)' >= run'[r].page * PageSize
      BY DEF Ahead
    <3>2. i \in Missed(r)
      OBVIOUS
    <3>3. Place(i) >= c
      BY <2>1, <3>1, <3>2 DEF Ahead
    <3> HIDE DEF c
    <3> QED
      BY <1>1, <1>2, <1>3, <3>2, <3>3
  <2> QED
    BY <2>1, <2>2, <2>3, <2>4 DEF Fine, ModeKnown
<1> QED
  BY <1>4, <1>5

LEMMA QuietFine ==
    ASSUME Typed, NEW r \in Runs, Fine(r), Quiet
    PROVE  Fine(r)'
<1>1. UNCHANGED <<lib, held, old, run>> /\ UNCHANGED library
  BY DEF Quiet, library, index
<1>2. Listed' = Listed /\ \A i \in Items : Place(i)' \in Nat /\ Place(i) <= Place(i)'
  BY <1>1, PlaceFacts
<1>3. Missed(r)' \subseteq Missed(r) /\ (Unseen(r) => Unseen(r)') /\ Pruned(r)'
  BY <1>1, <1>2 DEF Missed, Unseen, Pruned, Fine
<1> QED
  BY <1>1, <1>2, <1>3, FineKept

LEMMA LibraryFine ==
    ASSUME Typed, Known, NEW r \in Runs, Fine(r), LibraryStep, "remove" \notin DuringFull
    PROVE  Fine(r)'
<1>1. UNCHANGED <<held, old, run>>
  BY ChangeFacts DEF index
<1>2. CASE run[r].mode = "full" /\ run[r].pc # "idle"
  <2>1. r \in Active
    BY <1>2 DEF Active
  <2>2. \A i \in Items : /\ lib[i] > 0 => lib'[i] > 0
                         /\ lib'[i] > 0 => lib[i] >= 0
                         /\ lib[i] = Gone => lib'[i] = Gone
    BY <1>2, <2>1, ChangeFacts
  <2>3. Listed \subseteq Listed'
    BY <2>2 DEF Listed
  <2>4. \A i \in Items : Place(i)' \in Nat /\ Place(i) <= Place(i)'
    BY <2>3, PlaceFacts
  <2>5. \A i \in Items : lib[i] \in Int
    <3>1. \A i \in Items : lib[i] \in Stamps \cup {Gone}
      BY Typing
    <3>2. \A x \in Stamps \cup {Gone} : x \in Int
      BY StampFacts DEF Gone
    <3> QED
      BY <3>1, <3>2
  <2>6. Missed(r)' \subseteq Missed(r)
    <3> SUFFICES ASSUME NEW i \in Missed(r)' PROVE i \in Missed(r)
      OBVIOUS
    <3>1. i \in Items /\ lib'[i] > 0 /\ held[i] > 0 /\ r \in old[i] /\ run[r].records[i] = 0
      BY <1>1 DEF Missed, Listed
    <3>2. lib[i] # 0 /\ lib[i] >= 0
      BY <2>2, <3>1 DEF Known
    <3> QED
      BY <2>5, <3>1, <3>2 DEF Missed, Listed
  <2>7. (Unseen(r) => Unseen(r)') /\ Pruned(r)'
    BY <1>1, <1>2, <2>2 DEF Unseen, Pruned, Fine
  <2> QED
    BY <1>1, <2>4, <2>6, <2>7, FineKept
<1>3. CASE run[r].mode # "full" \/ run[r].pc = "idle"
  <2>1. run[r].pc \notin Crawling
    BY <1>3 DEF Fine, ModeKnown, Crawling
  <2> QED
    BY <1>1, <1>3, <2>1 DEF Fine, ModeKnown, Pruned
<1> QED
  BY <1>2, <1>3

LEMMA CancelFine ==
    ASSUME Typed, NEW r \in Runs, Fine(r), Cancel
    PROVE  Fine(r)'
<1>1. RunsTyped /\ OwnersTyped
  BY TypedParts
<1>2. UNCHANGED <<lib, held, old>> /\ UNCHANGED library
  BY DEF Cancel, library, index
<1>3. /\ run'[r].pc = run[r].pc /\ run'[r].mode = run[r].mode
      /\ run'[r].aborted = run[r].aborted \/ run'[r].aborted
      /\ run'[r].page = run[r].page /\ run'[r].last = run[r].last
      /\ run'[r].loaded = run[r].loaded /\ run'[r].records = run[r].records
  <2>1. CASE r = running
    BY <1>1, <2>1, CancelRun
  <2>2. CASE r # running
    <3>1. run'[r] = run[r]
      BY <1>1, <2>2, CancelRun DEF Others
    <3> QED
      BY <3>1
  <2> QED
    BY <2>1, <2>2
<1>4. Listed' = Listed /\ \A i \in Items : Place(i)' \in Nat /\ Place(i) <= Place(i)'
  BY <1>2, PlaceFacts
<1>5. Missed(r)' \subseteq Missed(r) /\ (Unseen(r) => Unseen(r)') /\ Pruned(r)'
  BY <1>2, <1>3, <1>4 DEF Missed, Unseen, Pruned, Fine
<1> QED
  BY <1>3, <1>4, <1>5, FineKept

LEMMA FullBeginFine ==
    ASSUME Typed, NEW r \in Runs, FullBegin(r)
    PROVE  Fine(r)'
<1>1. RunsTyped /\ IndexTyped
  BY TypedParts
<1>2. /\ run'[r].pc = "page" /\ run'[r].mode = "full" /\ run'[r].page = 0 /\ ~run'[r].last
      /\ run'[r].loaded = 0 /\ run'[r].records = NoRecords
  BY <1>1, FullBeginRun
<1>3. /\ UNCHANGED library /\ held' = held
      /\ old' = [i \in Items |-> IF held[i] > 0 THEN old[i] \cup {r} ELSE {}]
  BY DEF FullBegin
<1>4. \A i \in Items : Place(i)' \in Nat
  BY <1>3, PlaceFacts
<1>5. Counting(r)'
  BY <1>2, PageBounds DEF Counting
<1>6. Ahead(r)'
  <2>1. \A i \in Missed(r)' : Place(i)' >= 0 * PageSize
    <3>1. \A i \in Missed(r)' : i \in Items
      BY DEF Missed, Listed
    <3>2. 0 * PageSize = 0 /\ 0 \in Nat
      BY PageBounds
    <3> QED
      BY <1>4, <3>1, <3>2
  <2> QED
    BY <1>2, <2>1 DEF Ahead
<1>7. Unseen(r)'
  BY <1>2, <1>3, NoRecordsFact DEF Unseen
<1> QED
  BY <1>2, <1>5, <1>6, <1>7 DEF Fine, ModeKnown, Found, Pruned

LEMMA FullPageFine ==
    ASSUME Typed, NEW r \in Runs, Fine(r), FullPage(r)
    PROVE  Fine(r)'
<1> DEFINE n == run[r].page
           batch == TitlePage(n)
           loaded == run[r].loaded + Cardinality(batch)
           last == Cardinality(batch) < PageSize \/ loaded >= Cardinality(Listed)
           b == n * PageSize
           c == (n + 1) * PageSize
<1>1. RunsTyped /\ LibraryTyped /\ IndexTyped
  BY TypedParts
<1>2. /\ run'[r].pc = IF batch # {} /\ loaded % WriteChunk = 0 THEN "flush"
                      ELSE IF last THEN "rest" ELSE "page"
      /\ run'[r].page = n + 1 /\ run'[r].loaded = loaded /\ run'[r].last = last
      /\ run'[r].records = [i \in Items |-> IF i \in batch THEN lib[i] ELSE run[r].records[i]]
      /\ run'[r].mode = run[r].mode
  BY <1>1, FullPageRun
<1>3. run[r].pc = "page" /\ UNCHANGED <<library, index>> /\ UNCHANGED <<lib, held, old>>
  BY DEF FullPage, library, index
<1>4. /\ run[r].mode = "full" /\ run[r].loaded <= b /\ Unseen(r)
      /\ \A i \in Missed(r) : Place(i) >= b
  BY <1>3 DEF Fine, ModeKnown, Crawling, Counting, Ahead
<1>5. /\ n \in Nat /\ n + 1 \in Nat /\ run[r].loaded \in Nat
      /\ run[r].records \in [Items -> Stamps]
  BY Typing, Fields
<1>6. b \in Nat /\ c \in Nat /\ c = b + PageSize /\ PageSize \in Nat
  BY <1>5, PageBounds, IndexerAssumption
<1>7. Listed \in SUBSET Items
  BY DEF Listed
<1>8. batch = Page(Listed, ByTitle, n)
  BY TitlePages
<1>9. Cardinality(batch) \in Nat /\ Cardinality(batch) <= PageSize
  BY <1>5, <1>7, <1>8, TitleOrder, PageAtMost
<1>10. /\ \A i \in Items : Place(i) \in Nat /\ Place(i)' = Place(i)
       /\ Listed' = Listed
  BY <1>3, PlaceFacts
<1>11. \A i \in batch : lib[i] > 0 /\ lib[i] # 0
  BY <1>1, <1>8 DEF Page, Listed, LibraryTyped, Stamps, Gone
<1>12. \A i \in Missed(r)' : i \in Listed /\ i \in Missed(r) /\ Place(i) >= c
  <2> SUFFICES ASSUME NEW i \in Missed(r)' PROVE i \in Listed /\ i \in Missed(r) /\ Place(i) >= c
    OBVIOUS
  <2>1. i \in Listed /\ held[i] > 0 /\ r \in old[i] /\ run'[r].records[i] = 0
    BY <1>3, <1>10 DEF Missed
  <2>2. i \in Items
    BY <1>7, <2>1
  <2>3. i \notin batch /\ run[r].records[i] = 0
    BY <1>2, <1>11, <2>1, <2>2
  <2>4. i \in Missed(r)
    BY <2>1, <2>3 DEF Missed
  <2>5. ~(b <= Place(i) /\ Place(i) < c)
    BY <1>8, <2>1, <2>3 DEF Page, OnPage, Place
  <2>6. Place(i) >= b /\ Place(i) \in Nat
    BY <1>4, <1>10, <2>2, <2>4
  <2> HIDE DEF b, c
  <2> QED
    BY <1>6, <2>1, <2>4, <2>5, <2>6
<1>13. loaded \in Nat /\ loaded <= c
  <2> HIDE DEF batch, b, c, n
  <2> QED
    BY <1>4, <1>5, <1>6, <1>9
<1>14. last => Missed(r)' = {}
  <2> SUFFICES ASSUME last, NEW i \in Missed(r)' PROVE FALSE
    OBVIOUS
  <2>1. i \in Listed /\ Place(i) >= c
    BY <1>12
  <2>2. loaded <= (n + 1) * PageSize
    BY <1>13
  <2>3. Cardinality(Page(Listed, ByTitle, n)) < PageSize \/ loaded >= Cardinality(Listed)
    BY <1>8
  <2> HIDE DEF loaded, n
  <2>4. ~(Position(Listed, ByTitle, i) >= (n + 1) * PageSize)
    BY <1>5, <1>7, <1>13, <2>1, <2>2, <2>3, TitleOrder, LastPage
  <2> QED
    BY <2>1, <2>4 DEF Place
<1>15. Ahead(r)'
  BY <1>2, <1>7, <1>10, <1>12 DEF Ahead
<1>16. Unseen(r)'
  BY <1>2, <1>3, <1>4, <1>11 DEF Unseen
<1>17. Counting(r)' /\ Found(r)'
  <2>1. run'[r].pc = "page" => ~run'[r].last
    BY <1>2
  <2>2. run'[r].loaded <= run'[r].page * PageSize
    BY <1>2, <1>13
  <2>3. run'[r].pc # "prune" /\ (run'[r].pc = "rest" => last)
    BY <1>2
  <2> QED
    BY <1>2, <1>14, <2>1, <2>2, <2>3 DEF Counting, Found
<1>18. run'[r].pc \in {"page", "flush", "rest"}
  BY <1>2
<1> QED
  BY <1>2, <1>4, <1>15, <1>16, <1>17, <1>18 DEF Fine, ModeKnown, Pruned, Crawling

\* Writing what a run holds leaves no row missed that was not, and shows what it wrote.
LEMMA WrittenFacts ==
    ASSUME Typed, Known, NEW r \in Runs, UNCHANGED library, Upsert(r, run[r].records),
           run'[r].records = NoRecords
    PROVE  /\ Missed(r)' \subseteq Missed(r)
           /\ Unseen(r) => Unseen(r)'
<1>1. RunsTyped /\ IndexTyped /\ run[r].records \in [Items -> Stamps]
  BY TypedParts, Typing, Fields
<1>2. \A i \in Items :
        /\ run[r].records[i] > 0 => held'[i] = run[r].records[i] /\ old'[i] = run[r].later
        /\ ~(run[r].records[i] > 0) => held'[i] = held[i] /\ old'[i] = old[i]
  BY <1>1, UpsertFacts
<1>3. r \notin run[r].later /\ lib' = lib /\ Listed' = Listed
  BY PlaceFacts DEF Known, library
<1>4. \A i \in Items : ~(run[r].records[i] > 0) => run[r].records[i] = 0
  <2>1. \A i \in Items : run[r].records[i] \in Stamps
    BY <1>1
  <2>2. \A stamp \in Stamps : ~(stamp > 0) => stamp = 0
    BY StampFacts
  <2> QED
    BY <2>1, <2>2
<1>5. Missed(r)' \subseteq Missed(r)
  <2> SUFFICES ASSUME NEW i \in Missed(r)' PROVE i \in Missed(r)
    OBVIOUS
  <2>1. i \in Listed /\ held'[i] > 0 /\ r \in old'[i] /\ i \in Items
    BY <1>3 DEF Missed, Listed
  <2> QED
    BY <1>2, <1>3, <1>4, <2>1 DEF Missed
<1>6. ASSUME Unseen(r) PROVE Unseen(r)'
  <2> SUFFICES ASSUME NEW i \in Items
               PROVE  /\ held'[i] > 0 => lib'[i] > 0 \/ r \in old'[i]
                      /\ run'[r].records[i] > 0 => lib'[i] > 0
    BY DEF Unseen
  <2>1. CASE run[r].records[i] > 0
    BY <1>3, <1>6, <2>1, NoRecordsFact DEF Unseen
  <2>2. CASE ~(run[r].records[i] > 0)
    BY <1>2, <1>3, <1>6, <2>2, NoRecordsFact DEF Unseen
  <2> QED
    BY <2>1, <2>2
<1> QED
  BY <1>5, <1>6

LEMMA FullFlushFine ==
    ASSUME Typed, Known, NEW r \in Runs, Fine(r), FullFlush(r)
    PROVE  Fine(r)'
<1>1. RunsTyped
  BY TypedParts
<1>2. /\ run'[r].pc = IF run[r].last \/ run[r].aborted THEN "rest" ELSE "page"
      /\ run'[r].records = NoRecords /\ run'[r].mode = run[r].mode
      /\ run'[r].aborted = run[r].aborted /\ run'[r].page = run[r].page
      /\ run'[r].last = run[r].last /\ run'[r].loaded = run[r].loaded
  BY <1>1, FullFlushRun
<1>3. run[r].pc = "flush" /\ UNCHANGED library /\ Upsert(r, run[r].records)
  BY DEF FullFlush
<1>4. run[r].mode = "full" /\ Counting(r) /\ Ahead(r) /\ Found(r) /\ Unseen(r)
  BY <1>3 DEF Fine, ModeKnown, Crawling
<1>5. Missed(r)' \subseteq Missed(r) /\ Unseen(r)'
  BY <1>2, <1>3, <1>4, WrittenFacts
<1>6. \A i \in Items : Place(i)' = Place(i)
  BY <1>3, PlaceFacts
<1>7. Counting(r)'
  BY <1>2, <1>4 DEF Counting
<1>8. Ahead(r)'
  <2> SUFFICES ASSUME ~run[r].last, NEW i \in Missed(r)'
               PROVE  Place(i)' >= run[r].page * PageSize
    BY <1>2 DEF Ahead
  <2>1. i \in Missed(r) /\ i \in Items
    BY <1>5 DEF Missed, Listed
  <2> QED
    BY <1>3, <1>4, <1>6, <2>1 DEF Ahead
<1>9. Found(r)'
  BY <1>2, <1>3, <1>4, <1>5 DEF Found
<1> QED
  BY <1>2, <1>4, <1>5, <1>7, <1>8, <1>9 DEF Fine, ModeKnown, Pruned

LEMMA FullRestFine ==
    ASSUME Typed, Known, NEW r \in Runs, Fine(r), FullRest(r)
    PROVE  Fine(r)'
<1>1. RunsTyped
  BY TypedParts
<1>2. /\ run'[r].pc = "prune"
      /\ run'[r].records = NoRecords /\ run'[r].mode = run[r].mode
      /\ run'[r].aborted = run[r].aborted /\ run'[r].page = run[r].page
      /\ run'[r].last = run[r].last /\ run'[r].loaded = run[r].loaded
  BY <1>1, FullRestRun
<1>3. run[r].pc = "rest" /\ UNCHANGED library /\ Upsert(r, run[r].records)
  BY DEF FullRest
<1>4. run[r].mode = "full" /\ Counting(r) /\ Found(r) /\ Unseen(r)
  BY <1>3 DEF Fine, ModeKnown, Crawling
<1>5. Missed(r)' \subseteq Missed(r) /\ Unseen(r)'
  BY <1>2, <1>3, <1>4, WrittenFacts
<1>6. Counting(r)' /\ Ahead(r)' /\ Found(r)'
  BY <1>2, <1>3, <1>4, <1>5 DEF Counting, Ahead, Found
<1> QED
  BY <1>2, <1>4, <1>5, <1>6 DEF Fine, ModeKnown, Pruned

LEMMA FullPruneFine ==
    ASSUME Typed, NEW r \in Runs, Fine(r), FullPrune(r)
    PROVE  Fine(r)'
<1>1. RunsTyped
  BY TypedParts
<1>2. run'[r].pc = "finish"
  BY <1>1, FullPruneRun
<1>3. /\ run[r].pc = "prune" /\ UNCHANGED library
      /\ held' = [i \in Items |-> IF i \in Prunable(r) THEN 0 ELSE held[i]]
  BY DEF FullPrune
<1>4. Unseen(r)
  BY <1>3 DEF Fine, Crawling
<1>5. \A i \in Items : held'[i] > 0 => lib'[i] > 0
  BY <1>3, <1>4 DEF Unseen, Prunable, library
<1> QED
  BY <1>2, <1>5 DEF Fine, ModeKnown, Crawling, Pruned

LEMMA IncStepFine ==
    ASSUME NEW r \in Runs, Fine(r), IncStep(r)
    PROVE  Fine(r)'
  BY DEF Fine, ModeKnown, IncStep, IncRun, Crawling, Pruned

LEMMA BeginFine ==
    ASSUME Typed, NEW r \in Runs, NEW requested, Begin(r, requested)
    PROVE  Fine(r)' /\ run'[r].pc # "idle" /\ Others(r)
<1>1. RunsTyped
  BY TypedParts
<1> QED
  BY <1>1, BeginRun DEF Fine, ModeKnown, Crawling, Pruned

-----------------------------------------------------------------------------
LEMMA AllFineInit == Init => AllFine
<1> SUFFICES ASSUME Init, NEW r \in Runs PROVE Fine(r)
  BY DEF AllFine
<1>1. run[r].pc = "idle"
  BY IdleRecord DEF Init
<1> QED
  BY <1>1 DEF Fine, ModeKnown, Crawling, Pruned

LEMMA AllFineStep ==
    ASSUME "remove" \notin DuringFull
    PROVE  Typed /\ Known /\ AllFine /\ Alone /\ Alone' /\ [Next]_vars => AllFine'
<1> SUFFICES ASSUME Typed, Known, AllFine, Alone, Alone', [Next]_vars, NEW q \in Runs
             PROVE  Fine(q)'
  BY DEF AllFine
<1>1. RunsTyped /\ Fine(q)
  BY TypedParts DEF AllFine
<1>2. CASE Quiet
  BY <1>1, <1>2, QuietFine
<1>3. CASE LibraryStep
  BY <1>1, <1>3, LibraryFine
<1>4. CASE Cancel
  BY <1>1, <1>4, CancelFine
<1>5. CASE Crash
  <2>1. run'[q].pc = "idle"
    BY <1>5, CrashRun, IdleRecord
  <2> QED
    BY <2>1, IdleFine
<1>6. ASSUME NEW r \in Runs, RunMoves(r) PROVE Fine(q)'
  <2>1. ASSUME NEW requested, Begin(r, requested) PROVE Fine(q)'
    <3>1. Fine(r)' /\ run'[r].pc # "idle"
      BY <2>1, BeginFine
    <3>2. CASE q # r
      <4>1. run'[q].pc = "idle"
        BY <3>1, <3>2 DEF Alone, Active
      <4> QED
        BY <4>1, IdleFine
    <3> QED
      BY <3>1, <3>2
  <2>2. CASE \A requested \in {"auto", "full"} : ~Begin(r, requested)
    <3>1. run[r].pc # "idle"
      BY <1>6, <2>2 DEF RunMoves, Ending, FullBegin, FullPage, FullFlush, FullRest,
                        FullPrune, IncStep
    <3>2. CASE q # r
      <4>1. run[q].pc = "idle"
        BY <3>1, <3>2 DEF Alone, Active
      <4>2. run'[q].pc = run[q].pc
        <5>1. CASE Ending(r)
          BY <1>1, <3>2, <5>1, OverRun DEF Ending
        <5>2. CASE FullBegin(r)
          BY <1>1, <3>2, <5>2, FullBeginRun
        <5>3. CASE FullPage(r)
          <6>1. LibraryTyped
            BY TypedParts
          <6>2. Others(r)
            BY <1>1, <5>3, <6>1, FullPageRun
          <6> QED
            BY <3>2, <6>2 DEF Others
        <5>4. CASE FullFlush(r) \/ FullRest(r) \/ FullPrune(r) \/ IncStep(r)
          <6>1. Others(r)
            BY <1>1, <5>4, FullFlushRun, FullRestRun, FullPruneRun DEF IncStep, IncRun
          <6> QED
            BY <3>2, <6>1 DEF Others
        <5> QED
          BY <1>6, <2>2, <5>1, <5>2, <5>3, <5>4 DEF RunMoves
      <4> QED
        BY <4>1, <4>2, IdleFine
    <3>3. CASE q = r
      <4>1. CASE Ending(r)
        <5>1. run'[r].pc = "idle"
          BY <1>1, <4>1, OverRun, IdleRecord DEF Ending
        <5> QED
          BY <3>3, <5>1, IdleFine
      <4> QED
        BY <1>1, <1>6, <2>2, <3>3, <4>1, FullBeginFine, FullPageFine, FullFlushFine,
           FullRestFine, FullPruneFine, IncStepFine DEF RunMoves
    <3> QED
      BY <3>2, <3>3
  <2> QED
    BY <2>1, <2>2
<1> QED
  BY <1>2, <1>3, <1>4, <1>5, <1>6, Steps

\* A step that makes a row go is the prune of a full run.
LEMMA RemovalIsPrune ==
    ASSUME Typed, [Next]_vars, NEW i \in Items, held[i] > 0, held'[i] = 0
    PROVE  \E r \in Runs : FullPrune(r) /\ r \in old[i]
<1>1. RunsTyped /\ IndexTyped
  BY TypedParts
<1>2. held'[i] # held[i] /\ ~(held'[i] > 0)
  OBVIOUS
<1>3. ~UNCHANGED index /\ ~UNCHANGED held
  BY <1>2 DEF index
<1>4. ~Quiet /\ ~Cancel /\ ~Crash
  BY <1>3 DEF Quiet, Cancel, Crash
<1>5. ~LibraryStep
  BY <1>3, ChangeFacts
<1>6. PICK r \in Runs : RunMoves(r)
  BY <1>4, <1>5, Steps
<1>7. ~\E requested \in {"auto", "full"} : Begin(r, requested)
  BY <1>3 DEF Begin
<1>8. ~Ending(r) /\ ~FullBegin(r) /\ ~FullPage(r)
  BY <1>3 DEF Ending, FullBegin, FullPage
<1>9. ~FullFlush(r) /\ ~FullRest(r)
  <2>1. run[r].records \in [Items -> Stamps]
    BY <1>1, Fields DEF RunsTyped
  <2>2. ~Upsert(r, run[r].records)
    BY <1>1, <1>2, <2>1, UpsertFacts
  <2> QED
    BY <2>2 DEF FullFlush, FullRest
<1>10. ~IncStep(r)
  <2>1. ASSUME NEW chunk \in SUBSET Items
        PROVE  ~Upsert(r, [k \in Items |-> IF k \in chunk THEN run[r].records[k] ELSE 0])
    BY <1>1, <1>2, ChunkFacts
  <2> QED
    BY <1>3, <2>1 DEF IncStep
<1>11. FullPrune(r)
  BY <1>6, <1>7, <1>8, <1>9, <1>10 DEF RunMoves
<1>12. r \in old[i]
  BY <1>2, <1>11 DEF FullPrune, Prunable
<1> QED
  BY <1>11, <1>12

LEMMA RemovalStep ==
    ASSUME Typed, Known, AllFine, [Next]_vars, NEW i \in Items, held[i] > 0, held'[i] = 0
    PROVE  lib[i] \notin Stamps \/ \E r \in Runs : FullPrune(r) /\ run[r].aborted
<1>1. PICK r \in Runs : FullPrune(r) /\ r \in old[i]
  BY RemovalIsPrune
<1>2. SUFFICES ASSUME ~run[r].aborted PROVE lib[i] \notin Stamps
  BY <1>1
<1>3. run[r].pc = "prune"
  BY <1>1 DEF FullPrune
<1>4. Missed(r) = {} /\ run[r].records = NoRecords
  BY <1>2, <1>3 DEF AllFine, Fine, Crawling, Found, Counting
<1>5. i \notin Listed
  BY <1>1, <1>4, NoRecordsFact DEF Missed
<1>6. ~(lib[i] > 0) /\ lib[i] # 0
  BY <1>5 DEF Listed, Known
<1>7. \A stamp \in Stamps : stamp > 0 \/ stamp = 0
  BY StampFacts
<1> QED
  BY <1>6, <1>7

LEMMA GhostStep ==
    ASSUME AllFine, NEW r \in Runs, Finish(r), run[r].mode = "full"
    PROVE  \A i \in Items : held[i] > 0 => lib[i] > 0
  BY DEF AllFine, Fine, Pruned, Finish

-----------------------------------------------------------------------------
(***************************************************************************)
(* Stamps and the clock, for any number of runs: nothing is newer than the *)
(* clock, and a run that has not begun to read holds nothing.              *)
(***************************************************************************)
Dated ==
    /\ \A i \in Items : lib[i] <= clock /\ held[i] <= clock
    /\ \A r \in Runs :
         /\ \A i \in Items : run[r].records[i] <= clock
         /\ run[r].pc = "incPage" => /\ run[r].since <= clock
                                     /\ run[r].page > 0 => run[r].oldest <= clock
Blank ==
    \A r \in Runs : run[r].pc \in {"idle", "baseline"} =>
        run[r].records = NoRecords /\ run[r].page = 0

Same(q) ==
    /\ run'[q].pc = run[q].pc /\ run'[q].page = run[q].page /\ run'[q].since = run[q].since
    /\ run'[q].oldest = run[q].oldest /\ run'[q].records = run[q].records

LEMMA OthersSame ==
    ASSUME Typed, NEW r \in Runs, RunMoves(r), NEW q \in Runs, q # r
    PROVE  Same(q)
<1>1. RunsTyped /\ LibraryTyped
  BY TypedParts
<1>2. CASE Others(r)
  BY <1>2 DEF Others, Same
<1>3. CASE Ending(r)
  BY <1>1, <1>3, OverRun DEF Ending, Same
<1>4. CASE FullBegin(r)
  BY <1>1, <1>4, FullBeginRun DEF Same
<1>5. CASE FullPage(r)
  <2>1. Others(r)
    BY <1>1, <1>5, FullPageRun
  <2> QED
    BY <1>2, <2>1
<1>6. ASSUME NEW requested, Begin(r, requested) PROVE Others(r)
  BY <1>1, <1>6, BeginRun
<1>7. CASE FullFlush(r) \/ FullRest(r) \/ FullPrune(r) \/ IncStep(r)
  <2>1. Others(r)
    BY <1>1, <1>7, FullFlushRun, FullRestRun, FullPruneRun DEF IncStep, IncRun
  <2> QED
    BY <1>2, <2>1
<1> QED
  BY <1>2, <1>3, <1>4, <1>5, <1>6, <1>7 DEF RunMoves

\* Numbers that the types make integers.
LEMMA StampTypes ==
    ASSUME Typed
    PROVE  /\ clock \in Nat
           /\ \A i \in Items : lib[i] \in Int /\ held[i] \in Nat
           /\ \A r \in Runs : /\ run[r].since \in Nat /\ run[r].oldest \in Nat
                              /\ run[r].page \in Nat
                              /\ \A i \in Items : run[r].records[i] \in Nat
<1>1. \A x \in Stamps \cup {Gone} : x \in Int
  BY StampFacts DEF Gone
<1>2. \A x \in Stamps : x \in Nat
  BY StampFacts
<1>3. clock \in Nat /\ \A i \in Items : lib[i] \in Int /\ held[i] \in Nat
  BY <1>1, <1>2, Typing
<1>4. ASSUME NEW r \in Runs
      PROVE  /\ run[r].since \in Stamps /\ run[r].oldest \in Stamps /\ run[r].page \in Nat
             /\ run[r].records \in [Items -> Stamps]
  BY Typing, Fields
<1> QED
  BY <1>2, <1>3, <1>4

\* What a change of the library is.
LEMMA LibraryChange ==
    ASSUME Typed, LibraryStep
    PROVE  \E i \in Items, stamp \in Int :
             /\ \A k \in Items : lib'[k] = IF k = i THEN stamp ELSE lib[k]
             /\ UNCHANGED <<index, lastFull, run, owners, faults>>
             /\ \A r \in Active : run[r].mode = "full" => DuringFull # {}
             /\ \/ /\ stamp = Gone /\ clock' = clock
                   /\ \A r \in Active : run[r].mode # "full" => "remove" \in DuringNewest
                \/ stamp >= clock /\ clock' = stamp
<1>1. clock \in Nat /\ lib \in [Items -> Stamps \cup {Gone}]
  BY Typing
<1>2. PICK i \in Items, stamp \in {clock, clock + 1} :
         \/ lib[i] = 0 /\ Change("add", i, stamp)
         \/ lib[i] > 0 /\ Change("modify", i, stamp)
         \/ lib[i] > 0 /\ Change("remove", i, Gone)
  BY DEF LibraryStep
<1>3. ASSUME NEW kind, NEW x \in Int, Change(kind, i, x)
      PROVE  /\ \A k \in Items : lib'[k] = IF k = i THEN x ELSE lib[k]
             /\ UNCHANGED <<index, lastFull, run, owners, faults>>
             /\ \A r \in Active : run[r].mode = "full" => DuringFull # {}
             /\ \A r \in Active : run[r].mode # "full" => kind \in DuringNewest
             /\ clock' = IF x > clock THEN x ELSE clock
  BY <1>1, <1>3 DEF Change
<1>4. Gone \in Int /\ ~(Gone > clock) /\ stamp \in Int /\ stamp >= clock
  BY <1>1, <1>2 DEF Gone
<1>5. CASE Change("remove", i, Gone)
  <2>1. clock' = clock
    BY <1>1, <1>3, <1>4, <1>5
  <2> QED
    BY <1>3, <1>4, <1>5, <2>1
<1>6. CASE Change("add", i, stamp) \/ Change("modify", i, stamp)
  <2>1. clock' = stamp
    BY <1>1, <1>3, <1>4, <1>6
  <2> QED
    BY <1>3, <1>4, <1>6, <2>1
<1> QED
  BY <1>2, <1>5, <1>6

\* What a step of a run does to rows and records, as far as stamps go.
LEMMA OwnDated ==
    ASSUME Typed, Dated, Blank, NEW r \in Runs, RunMoves(r)
    PROVE  /\ UNCHANGED library
           /\ \A i \in Items : held'[i] \in {0, held[i], run[r].records[i]}
           /\ \A i \in Items : run'[r].records[i] \in {0, run[r].records[i], lib[i]}
           /\ run'[r].pc = "incPage" => /\ run'[r].since <= clock
                                        /\ run'[r].page > 0 => run'[r].oldest <= clock
           /\ run'[r].pc \in {"idle", "baseline"} =>
                run'[r].records = NoRecords /\ run'[r].page = 0
<1> DEFINE Goal == /\ UNCHANGED library
                   /\ \A i \in Items : held'[i] \in {0, held[i], run[r].records[i]}
                   /\ \A i \in Items : run'[r].records[i] \in {0, run[r].records[i], lib[i]}
                   /\ run'[r].pc = "incPage" =>
                        /\ run'[r].since <= clock
                        /\ run'[r].page > 0 => run'[r].oldest <= clock
                   /\ run'[r].pc \in {"idle", "baseline"} =>
                        run'[r].records = NoRecords /\ run'[r].page = 0
<1> SUFFICES Goal
  OBVIOUS
<1>1. RunsTyped /\ LibraryTyped /\ IndexTyped
  BY TypedParts
<1>2. ASSUME NEW requested, Begin(r, requested) PROVE Goal
  <2>1. /\ run'[r].pc \in {"full", "baseline"} /\ run'[r].records = run[r].records
        /\ run'[r].page = run[r].page
    BY <1>1, <1>2, BeginRun
  <2>2. run[r].pc = "idle" /\ UNCHANGED library /\ held' = held
    BY <1>2 DEF Begin, index
  <2>3. run[r].records = NoRecords /\ run[r].page = 0
    BY <2>2 DEF Blank
  <2> QED
    BY <2>1, <2>2, <2>3
<1>3. CASE Ending(r)
  <2>1. run'[r] = IdleRun
    BY <1>1, <1>3, OverRun DEF Ending
  <2> QED
    BY <1>3, <2>1, IdleRecord, NoRecordsFact DEF Ending
<1>4. CASE FullBegin(r)
  <2>1. run'[r].pc = "page" /\ run'[r].records = NoRecords
    BY <1>1, <1>4, FullBeginRun
  <2> QED
    BY <1>4, <2>1, NoRecordsFact DEF FullBegin
<1>5. CASE FullPage(r)
  <2>1. run'[r].pc \in {"flush", "rest", "page"}
        /\ run'[r].records = [i \in Items |-> IF i \in TitlePage(run[r].page)
                                              THEN lib[i] ELSE run[r].records[i]]
    BY <1>1, <1>5, FullPageRun
  <2>2. \A i \in Items : run'[r].records[i] \in {0, run[r].records[i], lib[i]}
    BY <2>1
  <2> QED
    BY <1>5, <2>1, <2>2 DEF FullPage, index
<1>6. CASE FullFlush(r) \/ FullRest(r)
  <2>1. run'[r].pc \in {"rest", "page", "prune"} /\ run'[r].records = NoRecords
    BY <1>1, <1>6, FullFlushRun, FullRestRun
  <2>2. UNCHANGED library /\ Upsert(r, run[r].records)
    BY <1>6 DEF FullFlush, FullRest
  <2>3. run[r].records \in [Items -> Stamps]
    BY Typing, Fields
  <2>4. \A i \in Items : held'[i] \in {0, held[i], run[r].records[i]}
    BY <1>1, <2>2, <2>3, UpsertFacts
  <2> QED
    BY <2>1, <2>2, <2>4, NoRecordsFact
<1>7. CASE FullPrune(r)
  <2>1. run'[r].pc = "finish" /\ run'[r].records = run[r].records
    BY <1>1, <1>7, FullPruneRun
  <2>2. UNCHANGED library /\ \A i \in Items : held'[i] \in {0, held[i], run[r].records[i]}
    BY <1>7 DEF FullPrune
  <2> QED
    BY <2>1, <2>2
<1>8. CASE IncStep(r)
  <2>1. /\ UNCHANGED library
        /\ run'[r].pc \in {"full", "incPage", "filter", "write", "finish"}
        /\ \A i \in Items : run'[r].records[i] \in {0, run[r].records[i], lib[i]}
    BY <1>8 DEF IncStep, IncRun
  <2>2. \A i \in Items : held'[i] \in {0, held[i], run[r].records[i]}
    <3>1. CASE UNCHANGED index
      BY <3>1 DEF index
    <3>2. CASE ~UNCHANGED index
      <4>1. PICK chunk \in SUBSET Items :
              Upsert(r, [i \in Items |-> IF i \in chunk THEN run[r].records[i] ELSE 0])
        BY <1>8, <3>2 DEF IncStep
      <4> QED
        BY <1>1, <4>1, ChunkFacts
    <3> QED
      BY <3>1, <3>2
  <2>3. ASSUME run'[r].pc = "incPage"
        PROVE  run'[r].since <= clock /\ (run'[r].page > 0 => run'[r].oldest <= clock)
    <3>1. CASE IncBaseline(r)
      <4>1. run'[r].since = Baseline /\ run'[r].page = run[r].page
        BY <1>1, <2>3, <3>1, IncBaselineRun DEF IncBegins
      <4>2. run[r].page = 0
        BY <3>1 DEF IncBaseline, Blank
      <4>3. Baseline <= clock
        <5>1. Baseline = 0 \/ \E i \in Items : Baseline = held[i]
          BY <1>1, BaselineStamp DEF IndexTyped
        <5> QED
          BY <5>1, StampTypes DEF Dated
      <4> QED
        BY <4>1, <4>2, <4>3
    <3>2. CASE IncPage(r)
      <4>1. IncReads(r) /\ run[r].pc = "incPage"
        BY <1>1, <2>3, <3>2, IncPageRun DEF IncPage
      <4>2. run'[r].since = run[r].since
            /\ \E i \in NewestPage(run[r].page) : run'[r].oldest = lib[i]
        BY <2>3, <4>1 DEF IncReads
      <4>3. NewestPage(run[r].page) \subseteq Items
        BY DEF NewestPage, Listed
      <4> QED
        BY <4>1, <4>2, <4>3 DEF Dated
    <3>3. CASE IncFilter(r) \/ IncWrite(r)
      <4>1. run'[r].pc \in {"write", "finish"}
        BY <1>1, <3>3, IncFilterRun, IncWriteRun
      <4> QED
        BY <2>3, <4>1
    <3> QED
      BY <1>8, <3>1, <3>2, <3>3 DEF IncStep
  <2> QED
    BY <2>1, <2>2, <2>3
<1> HIDE DEF Goal
<1> QED
  BY <1>2, <1>3, <1>4, <1>5, <1>6, <1>7, <1>8 DEF RunMoves

LEMMA DatedInit == Init => Dated /\ Blank
<1> SUFFICES ASSUME Init PROVE Dated /\ Blank
  OBVIOUS
<1>1. /\ clock = 1 /\ \A i \in Items : lib[i] \in {0, 1} /\ held[i] = 0
      /\ \A r \in Runs : run[r] = IdleRun
  BY DEF Init
<1>2. \A r \in Runs : /\ run[r].pc = "idle" /\ run[r].page = 0 /\ run[r].records = NoRecords
                      /\ \A i \in Items : run[r].records[i] = 0
  BY <1>1, IdleRecord, NoRecordsFact
<1> QED
  BY <1>1, <1>2 DEF Dated, Blank

\* Runs and rows that do not change, while the clock does not go back.
LEMMA DatedKept ==
    ASSUME Typed, Dated, Blank, clock' \in Nat, clock <= clock',
           \A i \in Items : lib'[i] <= clock', held' = held,
           \A q \in Runs : Same(q) \/ run'[q] = IdleRun
    PROVE  Dated' /\ Blank'
<1>1. \A i \in Items : held'[i] <= clock'
  <2>1. \A n \in Nat : n <= clock => n <= clock'
    BY StampTypes
  <2> QED
    BY <2>1, StampTypes DEF Dated
<1>2. ASSUME NEW q \in Runs
      PROVE  /\ \A i \in Items : run'[q].records[i] <= clock'
             /\ run'[q].pc = "incPage" => /\ run'[q].since <= clock'
                                          /\ run'[q].page > 0 => run'[q].oldest <= clock'
             /\ run'[q].pc \in {"idle", "baseline"} =>
                  run'[q].records = NoRecords /\ run'[q].page = 0
  <2>1. clock \in Nat /\ clock' \in Nat
    BY StampTypes
  <2>2. CASE Same(q)
    <3>1. /\ \A i \in Items : run[q].records[i] \in Nat
          /\ run[q].since \in Nat /\ run[q].oldest \in Nat
      BY StampTypes
    <3>2. /\ \A i \in Items : run[q].records[i] <= clock
          /\ run[q].pc = "incPage" => /\ run[q].since <= clock
                                      /\ run[q].page > 0 => run[q].oldest <= clock
      BY DEF Dated
    <3>3. \A n \in Nat : n <= clock => n <= clock'
      BY <2>1
    <3>4. \A i \in Items : run[q].records[i] <= clock'
      BY <3>1, <3>2, <3>3
    <3>5. run[q].pc = "incPage" => /\ run[q].since <= clock'
                                   /\ run[q].page > 0 => run[q].oldest <= clock'
      BY <3>1, <3>2, <3>3
    <3> QED
      BY <2>2, <3>4, <3>5 DEF Same, Blank
  <2>3. CASE run'[q] = IdleRun
    BY <2>1, <2>3, IdleRecord, NoRecordsFact
  <2> QED
    BY <2>2, <2>3
<1> QED
  BY <1>1, <1>2 DEF Dated, Blank

LEMMA DatedStep == Typed /\ Dated /\ Blank /\ [Next]_vars => Dated' /\ Blank'
<1> SUFFICES ASSUME Typed, Dated, Blank, [Next]_vars PROVE Dated' /\ Blank'
  OBVIOUS
<1>1. RunsTyped /\ OwnersTyped
  BY TypedParts
<1>2. clock \in Nat /\ \A i \in Items : lib[i] \in Int /\ lib[i] <= clock
  BY StampTypes DEF Dated
<1>3. ASSUME UNCHANGED <<library, held>>, \A q \in Runs : Same(q) \/ run'[q] = IdleRun
      PROVE  Dated' /\ Blank'
  BY <1>2, <1>3, DatedKept DEF library
<1>4. CASE Quiet
  BY <1>3, <1>4 DEF Quiet, index, Same
<1>5. CASE LibraryStep
  <2>1. PICK i \in Items, stamp \in Int :
          /\ \A k \in Items : lib'[k] = IF k = i THEN stamp ELSE lib[k]
          /\ UNCHANGED <<index, lastFull, run, owners, faults>>
          /\ (stamp = Gone /\ clock' = clock) \/ (stamp >= clock /\ clock' = stamp)
    BY <1>5, LibraryChange
  <2>2. clock <= clock' /\ stamp <= clock'
    BY <1>2, <2>1 DEF Gone
  <2>3. clock' \in Nat
    BY <1>2, <2>1, <2>2
  <2>4. \A k \in Items : lib'[k] <= clock'
    BY <1>2, <2>1, <2>2, <2>3
  <2>5. held' = held /\ \A q \in Runs : Same(q)
    BY <2>1 DEF index, Same
  <2> QED
    BY <2>2, <2>3, <2>4, <2>5, DatedKept
<1>6. CASE Cancel
  <2>1. \A q \in Runs : Same(q)
    BY <1>1, <1>6, CancelRun DEF Others, Same
  <2> QED
    BY <1>3, <1>6, <2>1 DEF Cancel, index
<1>7. CASE Crash
  BY <1>3, <1>7, CrashRun DEF Crash
<1>8. ASSUME NEW r \in Runs, RunMoves(r) PROVE Dated' /\ Blank'
  <2>1. /\ UNCHANGED library
        /\ \A i \in Items : held'[i] \in {0, held[i], run[r].records[i]}
        /\ \A i \in Items : run'[r].records[i] \in {0, run[r].records[i], lib[i]}
        /\ run'[r].pc = "incPage" => /\ run'[r].since <= clock
                                     /\ run'[r].page > 0 => run'[r].oldest <= clock
        /\ run'[r].pc \in {"idle", "baseline"} =>
             run'[r].records = NoRecords /\ run'[r].page = 0
    BY <1>8, OwnDated
  <2>2. lib' = lib /\ clock' = clock
    BY <2>1 DEF library
  <2>3. \A i \in Items : held[i] <= clock /\ run[r].records[i] <= clock
    BY DEF Dated
  <2>4. \A i \in Items : lib'[i] <= clock' /\ held'[i] <= clock'
    BY <1>2, <2>1, <2>2, <2>3
  <2>5. \A i \in Items : run'[r].records[i] <= clock'
    BY <1>2, <2>1, <2>2, <2>3
  <2>6. \A q \in Runs : q # r => Same(q)
    BY <1>8, OthersSame
  <2>7. Dated'
    <3>1. ASSUME NEW q \in Runs
          PROVE  /\ \A i \in Items : run'[q].records[i] <= clock'
                 /\ run'[q].pc = "incPage" => /\ run'[q].since <= clock'
                                              /\ run'[q].page > 0 => run'[q].oldest <= clock'
      <4>1. CASE q = r
        BY <2>1, <2>2, <2>5, <4>1
      <4>2. CASE q # r
        BY <2>2, <2>6, <4>2 DEF Same, Dated
      <4> QED
        BY <4>1, <4>2
    <3> QED
      BY <2>4, <3>1 DEF Dated
  <2>8. Blank'
    <3>1. ASSUME NEW q \in Runs, run'[q].pc \in {"idle", "baseline"}
          PROVE  run'[q].records = NoRecords /\ run'[q].page = 0
      <4>1. CASE q = r
        BY <2>1, <3>1, <4>1
      <4>2. CASE q # r
        BY <2>6, <3>1, <4>2 DEF Same, Blank
      <4> QED
        BY <4>1, <4>2
    <3> QED
      BY <3>1 DEF Blank
  <2> QED
    BY <2>7, <2>8
<1> QED
  BY <1>4, <1>5, <1>6, <1>7, <1>8, Steps

-----------------------------------------------------------------------------
(***************************************************************************)
(* The invariant of runs that do not overlap, fail or get cancelled, over  *)
(* a library that rests during the full ones.  What the index has wrong is *)
(* as new as the newest row, or an incremental run has yet to list it.     *)
(***************************************************************************)
Calm == faults = 0 /\ \A r \in Runs : ~run[r].aborted

Recent == \A i \in Listed : held[i] # lib[i] => \A k \in Items : held[k] <= lib[i]

AgePlace(i) == Position(Listed, ByAge, i)
Walking == {"incPage", "filter", "write"}

\* Listed items that a run, were it to write now, would leave wrong or make wrong.
Unsure(r) == {i \in Listed : /\ run[r].records[i] # lib[i]
                             /\ held[i] # lib[i] \/ run[r].records[i] # 0}
\* It changed after the run had passed it, or it is on a page to come.
Late(r, i) ==
    /\ \A k \in Items : run[r].records[k] <= lib[i] /\ held[k] <= lib[i]
    /\ run[r].pc = "incPage" => run[r].page > 0 /\ run[r].oldest <= lib[i]
ToCome(r, i) == run[r].pc = "incPage" /\ AgePlace(i) >= run[r].page * PageSize
Walk(r) == run[r].pc \in Walking => \A i \in Unsure(r) : Late(r, i) \/ ToCome(r, i)

\* The baseline divides what a run may find from what it may not.
Divides(r) ==
    run[r].pc = "incPage" =>
        \A i \in Items :
            /\ held[i] <= run[r].since
            /\ i \in Listed /\ (held[i] # lib[i] \/ run[r].records[i] > 0) =>
                 run[r].since <= lib[i]
Settled(r) ==
    (run[r].pc = "baseline" \/ (run[r].pc = "finish" /\ run[r].mode = "incremental")) => Recent

\* A full run copies the library.
Copy(r) ==
    run[r].pc \in Crawling =>
        /\ \A i \in Items : run[r].records[i] > 0 => run[r].records[i] = lib[i]
        /\ \A i \in Listed : held[i] # lib[i] /\ run[r].records[i] = 0 =>
             /\ run[r].pc \in {"page", "flush"} /\ ~run[r].last
             /\ Place(i) >= run[r].page * PageSize
Copied(r) ==
    run[r].pc = "finish" /\ run[r].mode = "full" => \A i \in Listed : held[i] = lib[i]

Sound(r) == Walk(r) /\ Divides(r) /\ Settled(r) /\ Copy(r) /\ Copied(r)
Ready == Active = {} /\ lastFull = "fresh" => Recent

LEMMA NextPage ==
    ASSUME NEW S \in SUBSET Items, NEW R, StrictOrder(R), NEW n \in Nat, NEW i \in S,
           i \notin Page(S, R, n), Position(S, R, i) >= n * PageSize
    PROVE  Position(S, R, i) >= (n + 1) * PageSize
<1> DEFINE p == Position(S, R, i)
           b == n * PageSize
           c == (n + 1) * PageSize
<1>1. ~(b <= p /\ p < c)
  BY DEF Page, OnPage
<1>2. p \in Nat
  BY PositionFacts
<1>3. b \in Nat /\ c \in Nat /\ b <= p
  BY PageBounds, IndexerAssumption
<1> HIDE DEF p, b, c
<1> QED
  BY <1>1, <1>2, <1>3 DEF p, b, c

LEMMA AgePlaceFacts ==
    ASSUME Typed
    PROVE  /\ StrictOrder(ByAge) /\ Listed \in SUBSET Items
           /\ \A i \in Items : AgePlace(i) \in Nat
           /\ UNCHANGED lib => Listed' = Listed /\ \A i \in Items : AgePlace(i)' = AgePlace(i)
<1>1. StrictOrder(ByAge)
  BY Typing, AgeOrder
<1>2. Listed \in SUBSET Items
  BY DEF Listed
<1>3. ASSUME UNCHANGED lib PROVE Listed' = Listed /\ \A i \in Items : AgePlace(i)' = AgePlace(i)
  BY <1>3 DEF AgePlace, Position, ByAge, NewestFirst, Listed
<1>4. \A i \in Items : AgePlace(i) \in Nat
  BY <1>1, <1>2, PositionFacts DEF AgePlace
<1> QED
  BY <1>1, <1>2, <1>3, <1>4

\* A change takes an item to the front, and no other one nearer to it.
LEMMA AgePlaceGrows ==
    ASSUME Typed, Dated, NEW j \in Items, NEW stamp \in Int, clock <= stamp,
           \A k \in Items : lib'[k] = IF k = j THEN stamp ELSE lib[k],
           NEW i \in Items, i # j
    PROVE  AgePlace(i)' \in Nat /\ AgePlace(i) <= AgePlace(i)'
<1>1. Listed \in SUBSET Items /\ Listed' \in SUBSET Items
  BY DEF Listed
<1>2. clock \in Nat /\ \A k \in Items : lib[k] \in Int /\ lib[k] <= clock
  BY StampTypes DEF Dated
<1>3. lib'[i] = lib[i]
  OBVIOUS
<1>4. ASSUME NEW k \in Listed, <<k, i>> \in ByAge
      PROVE  k \in Listed' /\ <<k, i>> \in ByAge'
  <2>1. k \in Items /\ lib[k] > 0 /\ (lib[k] > lib[i] \/ (lib[k] = lib[i] /\ k < i))
    BY <1>4 DEF Listed, ByAge, NewestFirst
  <2>2. CASE k # j
    BY <1>3, <2>1, <2>2 DEF Listed, ByAge, NewestFirst
  <2>3. CASE k = j
    <3>1. lib'[k] = stamp /\ lib[k] <= stamp
      BY <1>2, <2>1, <2>3
    <3>2. lib'[k] > 0 /\ (lib'[k] > lib'[i] \/ (lib'[k] = lib'[i] /\ k < i))
      BY <1>2, <1>3, <2>1, <3>1
    <3> QED
      BY <2>1, <3>2 DEF Listed, ByAge, NewestFirst
  <2> QED
    BY <2>2, <2>3
<1>5. Position(Listed, ByAge, i) <= Position(Listed', ByAge', i)
  BY <1>1, <1>4, MoreBefore
<1>6. AgePlace(i)' = Position(Listed', ByAge', i)
  BY DEF AgePlace, Position
<1>7. Position(Listed', ByAge', i) \in Nat
  <2>1. {k \in Listed' : <<k, i>> \in ByAge'} \in SUBSET Items
    BY <1>1
  <2> QED
    BY <2>1, ItemsFinite DEF Position
<1> QED
  BY <1>5, <1>6, <1>7 DEF AgePlace

LEMMA IdleSound ==
    ASSUME NEW r \in Runs, run'[r].pc \in {"idle", "full"}
    PROVE  Sound(r)'
  BY DEF Sound, Walk, Walking, Divides, Settled, Copy, Crawling, Copied

\* Whatever the library changes into, the change is recent.
LEMMA RecentKept ==
    ASSUME Typed, Dated, LibraryStep, Recent
    PROVE  Recent'
<1>1. PICK j \in Items, stamp \in Int :
        /\ \A k \in Items : lib'[k] = IF k = j THEN stamp ELSE lib[k]
        /\ UNCHANGED <<index, lastFull, run, owners, faults>>
        /\ (stamp = Gone /\ clock' = clock) \/ (stamp >= clock /\ clock' = stamp)
  BY LibraryChange
<1>2. held' = held
  BY <1>1 DEF index
<1>3. clock \in Nat /\ \A k \in Items : held[k] \in Nat /\ held[k] <= clock
  BY StampTypes DEF Dated
<1> SUFFICES ASSUME NEW i \in Listed', held[i] # lib'[i], NEW k \in Items
             PROVE  held[k] <= lib'[i]
  BY <1>2 DEF Recent
<1>4. i \in Items /\ lib'[i] > 0
  BY DEF Listed
<1>5. CASE i = j
  <2>1. lib'[i] = stamp /\ stamp > 0
    BY <1>1, <1>4, <1>5
  <2>2. stamp >= clock
    BY <1>1, <2>1 DEF Gone
  <2> QED
    BY <1>3, <2>1, <2>2
<1>6. CASE i # j
  <2>1. lib'[i] = lib[i]
    BY <1>1, <1>4, <1>6
  <2>2. i \in Listed
    BY <1>4, <2>1 DEF Listed
  <2> QED
    BY <2>1, <2>2 DEF Recent
<1> QED
  BY <1>5, <1>6

LEMMA LibrarySound ==
    ASSUME Typed, Dated, NEW r \in Runs, Sound(r), Fine(r), LibraryStep,
           DuringFull = {}, "remove" \notin DuringNewest
    PROVE  Sound(r)'
<1>1. PICK j \in Items, stamp \in Int :
        /\ \A k \in Items : lib'[k] = IF k = j THEN stamp ELSE lib[k]
        /\ UNCHANGED <<index, lastFull, run, owners, faults>>
        /\ \A q \in Active : run[q].mode = "full" => DuringFull # {}
        /\ \/ /\ stamp = Gone /\ clock' = clock
              /\ \A q \in Active : run[q].mode # "full" => "remove" \in DuringNewest
           \/ stamp >= clock /\ clock' = stamp
  BY LibraryChange
<1>2. held' = held /\ run' = run
  BY <1>1 DEF index
<1>3. CASE run[r].pc = "idle"
  BY <1>2, <1>3, IdleSound
<1>4. CASE run[r].pc # "idle"
  <2>1. r \in Active
    BY <1>4 DEF Active
  <2>2. run[r].mode # "full" /\ run[r].pc \notin Crawling /\ stamp >= clock
    BY <1>1, <2>1 DEF Fine, ModeKnown
  <2>3. clock \in Nat /\ clock <= stamp
    BY <2>2, StampTypes
  <2>4. \A k \in Items :
          /\ lib[k] <= clock /\ held[k] <= clock /\ run[r].records[k] <= clock
          /\ lib[k] \in Int /\ held[k] \in Nat /\ run[r].records[k] \in Nat
    BY StampTypes DEF Dated
  <2>5. \A k \in Items : held[k] <= stamp /\ run[r].records[k] <= stamp
    BY <2>3, <2>4
  <2>6. \A i \in Listed' : i \in Items /\ (i = j => lib'[i] = stamp)
                           /\ (i # j => lib'[i] = lib[i] /\ i \in Listed)
    BY <1>1 DEF Listed
  <2>7. Settled(r)'
    <3>1. Recent => Recent'
      BY RecentKept
    <3> QED
      BY <1>2, <3>1 DEF Sound, Settled
  <2>8. Divides(r)'
    <3> SUFFICES ASSUME run[r].pc = "incPage", NEW i \in Items
                 PROVE  /\ held[i] <= run[r].since
                        /\ i \in Listed' /\ (held[i] # lib'[i] \/ run[r].records[i] > 0) =>
                             run[r].since <= lib'[i]
      BY <1>2 DEF Divides
    <3>1. run[r].since <= stamp
      BY <2>3, StampTypes DEF Dated
    <3> QED
      BY <2>6, <3>1 DEF Sound, Divides
  <2>9. Walk(r)'
    <3> SUFFICES ASSUME run[r].pc \in Walking, NEW i \in Unsure(r)'
                 PROVE  Late(r, i)' \/ ToCome(r, i)'
      BY <1>2 DEF Walk
    <3>1. i \in Listed' /\ i \in Items
      BY <2>6 DEF Unsure
    <3>2. CASE i = j /\ (run[r].pc = "incPage" => run[r].page > 0)
      <4>1. lib'[i] = stamp
        BY <2>6, <3>1, <3>2
      <4>2. run[r].pc = "incPage" => run[r].oldest <= stamp
        BY <2>3, <3>2, StampTypes DEF Dated
      <4> QED
        BY <1>2, <2>5, <3>2, <4>1, <4>2 DEF Late
    <3>3. CASE i = j /\ run[r].pc = "incPage" /\ ~(run[r].page > 0)
      <4>1. run[r].page = 0
        BY <3>3, StampTypes
      <4>2. AgePlace(i)' \in Nat
        <5>1. {k \in Listed' : <<k, i>> \in ByAge'} \in SUBSET Items
          BY DEF Listed
        <5>2. Cardinality({k \in Listed' : <<k, i>> \in ByAge'}) \in Nat
          BY <5>1, ItemsFinite
        <5> QED
          BY <5>2 DEF AgePlace, Position
      <4>3. AgePlace(i)' >= 0 * PageSize
        BY <4>2, PageBounds
      <4> QED
        BY <1>2, <3>3, <4>1, <4>3 DEF ToCome
    <3>4. CASE i # j
      <4>1. lib'[i] = lib[i] /\ i \in Listed
        BY <2>6, <3>1, <3>4
      <4>2. i \in Unsure(r)
        BY <1>2, <4>1 DEF Unsure
      <4>3. CASE Late(r, i)
        BY <1>2, <4>1, <4>3 DEF Late
      <4>4. CASE ToCome(r, i)
        <5>1. AgePlace(i)' \in Nat /\ AgePlace(i) <= AgePlace(i)'
          BY <1>1, <2>3, <3>1, <3>4, AgePlaceGrows
        <5>2. AgePlace(i) \in Nat /\ run[r].page * PageSize \in Nat
          BY <3>1, AgePlaceFacts, StampTypes, PageBounds
        <5>3. AgePlace(i) >= run[r].page * PageSize
          BY <4>4 DEF ToCome
        <5>4. AgePlace(i)' >= run[r].page * PageSize
          <6> DEFINE b == run[r].page * PageSize
                     p == AgePlace(i)
                     q == AgePlace(i)'
          <6>1. b \in Nat /\ p \in Nat /\ q \in Nat /\ p >= b /\ p <= q
            BY <5>1, <5>2, <5>3
          <6> HIDE DEF b, p, q
          <6>2. q >= b
            BY <6>1
          <6> QED
            BY <6>2 DEF b, q
        <5> QED
          BY <1>2, <4>4, <5>4 DEF ToCome
      <4> QED
        BY <3>1, <4>2, <4>3, <4>4 DEF Sound, Walk
    <3> QED
      BY <3>2, <3>3, <3>4
  <2>10. Copy(r)' /\ Copied(r)'
    BY <1>2, <2>2 DEF Copy, Copied
  <2> QED
    BY <2>7, <2>8, <2>9, <2>10 DEF Sound
<1> QED
  BY <1>3, <1>4

LEMMA FullBeginSound ==
    ASSUME Typed, NEW r \in Runs, FullBegin(r)
    PROVE  Sound(r)'
<1>1. RunsTyped
  BY TypedParts
<1>2. /\ run'[r].pc = "page" /\ run'[r].mode = "full" /\ run'[r].page = 0 /\ ~run'[r].last
      /\ run'[r].records = NoRecords
  BY <1>1, FullBeginRun
<1>3. \A i \in Items : Place(i)' \in Nat
  BY PlaceFacts DEF FullBegin
<1>4. Copy(r)'
  <2>1. \A i \in Items : ~(run'[r].records[i] > 0)
    BY <1>2, NoRecordsFact
  <2>2. \A i \in Listed' : Place(i)' >= run'[r].page * PageSize
    <3>1. \A i \in Listed' : i \in Items
      BY DEF Listed
    <3>2. 0 * PageSize = 0 /\ \A n \in Nat : n >= 0
      BY PageBounds
    <3> QED
      BY <1>2, <1>3, <3>1, <3>2
  <2> QED
    BY <1>2, <2>1, <2>2 DEF Copy
<1> QED
  BY <1>2, <1>4 DEF Sound, Walk, Walking, Divides, Settled, Copied

LEMMA FullPageSound ==
    ASSUME Typed, NEW r \in Runs, Sound(r), Fine(r), FullPage(r)
    PROVE  Sound(r)'
<1> DEFINE n == run[r].page
           batch == TitlePage(n)
           loaded == run[r].loaded + Cardinality(batch)
           last == Cardinality(batch) < PageSize \/ loaded >= Cardinality(Listed)
<1>1. RunsTyped /\ LibraryTyped
  BY TypedParts
<1>2. /\ run'[r].pc = IF batch # {} /\ loaded % WriteChunk = 0 THEN "flush"
                      ELSE IF last THEN "rest" ELSE "page"
      /\ run'[r].page = n + 1 /\ run'[r].last = last
      /\ run'[r].records = [i \in Items |-> IF i \in batch THEN lib[i] ELSE run[r].records[i]]
  BY <1>1, FullPageRun
<1>3. run[r].pc = "page" /\ UNCHANGED library /\ lib' = lib /\ held' = held
  BY DEF FullPage, library, index
<1>4. run[r].loaded <= n * PageSize /\ n \in Nat /\ run[r].loaded \in Nat
  <2>1. run[r].loaded <= n * PageSize
    BY <1>3 DEF Fine, Crawling, Counting
  <2> QED
    BY <2>1, Typing, Fields
<1>5. /\ \A i \in Items : run[r].records[i] > 0 => run[r].records[i] = lib[i]
      /\ \A i \in Listed : held[i] # lib[i] /\ run[r].records[i] = 0 =>
           Place(i) >= n * PageSize
  BY <1>3 DEF Sound, Copy, Crawling
<1>6. Listed \in SUBSET Items /\ batch = Page(Listed, ByTitle, n)
  BY TitlePages DEF Listed
<1>7. Cardinality(batch) \in Nat /\ Cardinality(batch) <= PageSize
  BY <1>4, <1>6, TitleOrder, PageAtMost
<1>8. loaded \in Nat /\ loaded <= (n + 1) * PageSize
  <2> DEFINE b == n * PageSize
             c == (n + 1) * PageSize
  <2>1. b \in Nat /\ c = b + PageSize /\ PageSize \in Nat
    BY <1>4, PageBounds, IndexerAssumption
  <2>2. run[r].loaded <= b
    BY <1>4
  <2> HIDE DEF b, c, n, batch
  <2>3. loaded \in Nat /\ loaded <= c
    BY <1>4, <1>7, <2>1, <2>2
  <2> QED
    BY <2>3 DEF c
<1>9. \A i \in Listed : i \in Items /\ lib[i] > 0 /\ lib[i] # 0
  BY <1>1 DEF Listed, LibraryTyped, Stamps, Gone
<1>10. \A i \in Items : Place(i)' = Place(i)
  BY <1>3, PlaceFacts
<1>11. Listed' = Listed
  BY <1>3 DEF Listed
<1>12. \A i \in Items : run'[r].records[i] > 0 => run'[r].records[i] = lib'[i]
  BY <1>2, <1>3, <1>5
<1>13. ASSUME NEW i \in Listed, held[i] # lib[i], run'[r].records[i] = 0
       PROVE  ~last /\ Place(i) >= (n + 1) * PageSize
  <2>1. i \notin batch /\ run[r].records[i] = 0
    BY <1>2, <1>9, <1>13
  <2>2. Position(Listed, ByTitle, i) >= n * PageSize
    BY <1>5, <1>13, <2>1 DEF Place
  <2>3. i \notin Page(Listed, ByTitle, n)
    BY <1>6, <2>1
  <2> HIDE DEF n
  <2>4. Position(Listed, ByTitle, i) >= (n + 1) * PageSize
    BY <1>4, <1>6, <2>2, <2>3, TitleOrder, NextPage
  <2>5. ~last
    <3>1. last => \/ Cardinality(Page(Listed, ByTitle, n)) < PageSize
                  \/ loaded >= Cardinality(Listed)
      BY <1>6
    <3> HIDE DEF loaded, last
    <3> QED
      BY <1>4, <1>6, <1>8, <2>4, <3>1, TitleOrder, LastPage
  <2> QED
    BY <2>4, <2>5 DEF Place
<1>14. run'[r].pc \in {"page", "flush", "rest"} /\ (run'[r].pc = "rest" => last)
  BY <1>2
<1>15. ASSUME NEW i \in Listed', held'[i] # lib'[i], run'[r].records[i] = 0
       PROVE  /\ run'[r].pc \in {"page", "flush"} /\ ~run'[r].last
              /\ Place(i)' >= run'[r].page * PageSize
  <2>1. i \in Listed /\ i \in Items /\ held[i] # lib[i]
    BY <1>3, <1>9, <1>11, <1>15
  <2>2. ~last /\ Place(i) >= (n + 1) * PageSize
    BY <1>13, <1>15, <2>1
  <2> QED
    BY <1>2, <1>10, <1>14, <2>1, <2>2
<1>16. Copy(r)'
  BY <1>12, <1>15 DEF Copy
<1> QED
  BY <1>14, <1>16 DEF Sound, Walk, Walking, Divides, Settled, Copied

\* Writing the copies makes the rows right.
LEMMA FullWriteSound ==
    ASSUME Typed, NEW r \in Runs, Sound(r), FullFlush(r) \/ FullRest(r), ~run[r].aborted
    PROVE  Sound(r)'
<1>1. RunsTyped /\ IndexTyped /\ run[r].records \in [Items -> Stamps]
  BY TypedParts, Typing, Fields
<1>2. /\ run'[r].records = NoRecords
      /\ run'[r].pc = IF run[r].pc = "flush" /\ ~run[r].last THEN "page"
                      ELSE IF run[r].pc = "flush" THEN "rest" ELSE "prune"
      /\ run'[r].page = run[r].page /\ run'[r].last = run[r].last
  BY <1>1, FullFlushRun, FullRestRun DEF FullFlush, FullRest
<1>3. /\ run[r].pc \in {"flush", "rest"} /\ UNCHANGED library /\ lib' = lib
      /\ Upsert(r, run[r].records)
  BY DEF FullFlush, FullRest, library
<1>4. /\ \A i \in Items : run[r].records[i] > 0 => run[r].records[i] = lib[i]
      /\ \A i \in Listed : held[i] # lib[i] /\ run[r].records[i] = 0 =>
           /\ run[r].pc = "flush" /\ ~run[r].last /\ Place(i) >= run[r].page * PageSize
  BY <1>3 DEF Sound, Copy, Crawling
<1>5. \A i \in Items : /\ run[r].records[i] > 0 => held'[i] = run[r].records[i]
                       /\ ~(run[r].records[i] > 0) => held'[i] = held[i]
  BY <1>1, <1>3, UpsertFacts
<1>6. \A i \in Items : run[r].records[i] > 0 \/ run[r].records[i] = 0
  <2>1. \A i \in Items : run[r].records[i] \in Stamps
    BY <1>1
  <2>2. \A stamp \in Stamps : stamp > 0 \/ stamp = 0
    BY StampFacts
  <2> QED
    BY <2>1, <2>2
<1>7. Listed' = Listed /\ \A i \in Items : Place(i)' = Place(i)
  BY <1>3, PlaceFacts
<1>8. ASSUME NEW i \in Listed', held'[i] # lib'[i], run'[r].records[i] = 0
      PROVE  /\ run'[r].pc \in {"page", "flush"} /\ ~run'[r].last
             /\ Place(i)' >= run'[r].page * PageSize
  <2>1. i \in Listed /\ i \in Items
    BY <1>7 DEF Listed
  <2>2. held[i] # lib[i] /\ run[r].records[i] = 0
    BY <1>3, <1>4, <1>5, <1>6, <1>8, <2>1
  <2>3. run[r].pc = "flush" /\ ~run[r].last /\ Place(i) >= run[r].page * PageSize
    BY <1>4, <2>1, <2>2
  <2> QED
    BY <1>2, <1>7, <2>1, <2>3
<1>9. \A i \in Items : ~(run'[r].records[i] > 0)
  BY <1>2, NoRecordsFact
<1>10. Copy(r)'
  BY <1>8, <1>9 DEF Copy
<1>11. run'[r].pc \in Crawling
  BY <1>2 DEF Crawling
<1> QED
  BY <1>10, <1>11 DEF Sound, Walk, Walking, Divides, Settled, Copied, Crawling

LEMMA FullPruneSound ==
    ASSUME Typed, NEW r \in Runs, Sound(r), Fine(r), FullPrune(r), ~run[r].aborted
    PROVE  Sound(r)'
<1>1. RunsTyped
  BY TypedParts
<1>2. run'[r].pc = "finish" /\ run'[r].mode = "full"
  <2>1. run[r].mode = "full"
    BY DEF FullPrune, Fine, ModeKnown, Crawling
  <2> QED
    BY <1>1, <2>1, FullPruneRun
<1>3. /\ run[r].pc = "prune" /\ lib' = lib
      /\ held' = [i \in Items |-> IF r \in old[i] THEN 0 ELSE held[i]]
  BY DEF FullPrune, Prunable, library
<1>4. run[r].records = NoRecords /\ Missed(r) = {}
  BY <1>3 DEF Fine, Crawling, Counting, Found
<1>5. \A i \in Listed : held[i] = lib[i]
  <2>1. \A i \in Listed : i \in Items
    BY DEF Listed
  <2> QED
    BY <1>3, <1>4, <2>1, NoRecordsFact DEF Sound, Copy, Crawling
<1>6. \A i \in Listed : i \in Items /\ r \notin old[i]
  <2> SUFFICES ASSUME NEW i \in Listed PROVE i \in Items /\ r \notin old[i]
    OBVIOUS
  <2>1. i \in Items /\ held[i] > 0
    BY <1>5 DEF Listed
  <2> QED
    BY <1>4, <2>1, NoRecordsFact DEF Missed
<1>7. \A i \in Listed' : held'[i] = lib'[i]
  BY <1>3, <1>5, <1>6 DEF Listed
<1> QED
  BY <1>2, <1>7 DEF Sound, Walk, Walking, Divides, Settled, Copy, Crawling, Copied

LEMMA IncBaselineSound ==
    ASSUME Typed, Blank, NEW r \in Runs, Sound(r), IncBaseline(r)
    PROVE  Sound(r)'
<1>1. RunsTyped /\ IndexTyped
  BY TypedParts
<1>2. run[r].pc = "baseline" /\ lib' = lib /\ held' = held
  BY DEF IncBaseline, library, index
<1>3. CASE run'[r].pc = "full"
  BY <1>3, IdleSound
<1>4. CASE IncBegins(r)
  <2>1. /\ run'[r].pc = "incPage" /\ run'[r].since = Baseline
        /\ run'[r].page = 0 /\ run'[r].records = NoRecords
    BY <1>2, <1>4 DEF IncBegins, Blank
  <2>2. Listed' = Listed /\ \A i \in Items : AgePlace(i)' = AgePlace(i) /\ AgePlace(i) \in Nat
    BY <1>2, AgePlaceFacts
  <2>3. \A i \in Listed : i \in Items /\ lib[i] > 0
    BY DEF Listed
  <2>4. Walk(r)'
    <3> SUFFICES ASSUME NEW i \in Unsure(r)' PROVE ToCome(r, i)'
      BY DEF Walk
    <3>1. i \in Items
      BY <2>2, <2>3 DEF Unsure
    <3>2. AgePlace(i)' >= 0 * PageSize
      BY <2>2, <3>1, PageBounds
    <3> QED
      BY <2>1, <3>2 DEF ToCome
  <2>5. Divides(r)'
    <3> SUFFICES ASSUME NEW i \in Items
                 PROVE  /\ held[i] <= Baseline
                        /\ i \in Listed /\ (held[i] # lib[i] \/ NoRecords[i] > 0) =>
                             Baseline <= lib[i]
      BY <1>2, <2>1, <2>2 DEF Divides
    <3>1. held[i] <= Baseline /\ (Baseline = 0 \/ \E k \in Items : Baseline = held[k])
      BY <1>1, BaselineStamp DEF IndexTyped
    <3>2. ASSUME i \in Listed, held[i] # lib[i] PROVE Baseline <= lib[i]
      <4>1. lib[i] > 0 /\ lib[i] \in Int
        BY <3>2, StampTypes DEF Listed
      <4>2. \A k \in Items : held[k] <= lib[i]
        BY <1>2, <3>2 DEF Sound, Settled, Recent
      <4> QED
        BY <3>1, <4>1, <4>2
    <3> QED
      BY <3>1, <3>2, NoRecordsFact
  <2> QED
    BY <2>1, <2>4, <2>5 DEF Sound, Settled, Copy, Crawling, Copied
<1> QED
  BY <1>1, <1>3, <1>4, IncBaselineRun

LEMMA IncPageSound ==
    ASSUME Typed, NEW r \in Runs, Sound(r), IncPage(r)
    PROVE  Sound(r)'
<1> DEFINE n == run[r].page
           batch == NewestPage(n)
           since == run[r].since
<1>1. RunsTyped /\ LibraryTyped
  BY TypedParts
<1>2. run[r].pc = "incPage" /\ lib' = lib /\ held' = held
  BY DEF IncPage, library, index
<1>3. CASE run'[r].pc = "full"
  BY <1>3, IdleSound
<1>4. CASE IncReads(r)
  <2>1. /\ \A i \in batch : lib[i] <= run[r].oldest
        /\ run'[r].records =
             [i \in Items |-> IF i \in Newer(r) THEN lib[i] ELSE run[r].records[i]]
        /\ \/ run'[r].pc = "filter" /\ Complete(r)
           \/ /\ run'[r].pc = "incPage" /\ run'[r].page = n + 1 /\ run'[r].since = since
              /\ \E k \in batch : run'[r].oldest = lib[k]
    BY <1>4 DEF IncReads
  <2>2. /\ StrictOrder(ByAge) /\ Listed \in SUBSET Items /\ Listed' = Listed
        /\ \A i \in Items : AgePlace(i)' = AgePlace(i) /\ AgePlace(i) \in Nat
    BY <1>2, AgePlaceFacts
  <2>3. batch = Page(Listed, ByAge, n) /\ batch \subseteq Listed /\ Newer(r) \subseteq batch
    BY AgePages DEF Page, Newer
  <2>4. /\ n \in Nat /\ since \in Nat /\ run[r].oldest \in Nat
        /\ \A i \in Items : lib[i] \in Int /\ held[i] \in Nat /\ run[r].records[i] \in Nat
    BY StampTypes
  <2>5. \A i \in Listed : i \in Items /\ lib[i] > 0
    BY DEF Listed
  <2>6. \A i \in Items :
          /\ held[i] <= since
          /\ i \in Listed /\ (held[i] # lib[i] \/ run[r].records[i] > 0) => since <= lib[i]
    BY <1>2 DEF Sound, Divides
  <2>7. \A i \in Newer(r) : since <= lib[i]
    BY <2>2, <2>3, <2>4 DEF Newer, Older
  <2>8. Divides(r)'
    <3> SUFFICES ASSUME run'[r].pc = "incPage", NEW i \in Items
                 PROVE  /\ held[i] <= since
                        /\ i \in Listed /\ (held[i] # lib[i] \/ run'[r].records[i] > 0) =>
                             since <= lib[i]
      BY <1>2, <2>1, <2>2 DEF Divides
    <3>1. CASE i \in Newer(r)
      BY <2>6, <2>7, <3>1
    <3>2. CASE i \notin Newer(r)
      <4>1. run'[r].records[i] = run[r].records[i]
        BY <2>1, <3>2
      <4> QED
        BY <2>6, <4>1
    <3> QED
      BY <3>1, <3>2
  <2>9. Walk(r)'
    <3> SUFFICES ASSUME NEW i \in Unsure(r)' PROVE Late(r, i)' \/ ToCome(r, i)'
      BY DEF Walk
    <3>1. /\ i \in Listed /\ i \in Items /\ run'[r].records[i] # lib[i]
          /\ held[i] # lib[i] \/ run'[r].records[i] # 0
      BY <1>2, <2>2, <2>5 DEF Unsure
    <3>2. i \notin Newer(r) /\ run'[r].records[i] = run[r].records[i]
      BY <2>1, <3>1
    <3>3. i \in Unsure(r)
      BY <3>1, <3>2 DEF Unsure
    <3>4. since <= lib[i]
      <4>1. held[i] # lib[i] \/ run[r].records[i] > 0
        BY <2>4, <3>1, <3>2
      <4> QED
        BY <2>6, <3>1, <4>1
    <3>5. i \notin batch
      <4>1. ~Older(lib[i], since)
        BY <2>4, <3>1, <3>4 DEF Older
      <4> QED
        BY <3>2, <4>1 DEF Newer
    <3>6. CASE Late(r, i)
      <4>1. /\ \A k \in Items : run[r].records[k] <= lib[i] /\ held[k] <= lib[i]
            /\ run[r].oldest <= lib[i]
        BY <1>2, <3>6 DEF Late
      <4>2. \A k \in batch : lib[k] <= lib[i]
        BY <2>1, <2>2, <2>3, <2>4, <3>1, <4>1
      <4>3. \A k \in Items : run'[r].records[k] <= lib[i]
        BY <2>1, <2>3, <4>1, <4>2
      <4>4. run'[r].pc = "incPage" => run'[r].page > 0 /\ run'[r].oldest <= lib[i]
        BY <2>1, <2>4, <4>2
      <4> QED
        BY <1>2, <4>1, <4>3, <4>4 DEF Late
    <3>7. CASE ToCome(r, i)
      <4>1. Position(Listed, ByAge, i) >= n * PageSize
        BY <3>7 DEF ToCome, AgePlace
      <4> HIDE DEF n
      <4>2. Position(Listed, ByAge, i) >= (n + 1) * PageSize
        BY <2>2, <2>3, <2>4, <3>1, <3>5, <4>1, NextPage
      <4>3. CASE run'[r].pc = "incPage" /\ run'[r].page = n + 1
        BY <2>2, <3>1, <4>2, <4>3 DEF ToCome, AgePlace
      <4>4. ~Complete(r)
        <5>1. ~(Cardinality(batch) < PageSize)
          <6>1. Cardinality(Page(Listed, ByAge, n)) = PageSize
            BY <2>2, <2>4, <3>1, <4>2, PageFull
          <6> QED
            BY <2>3, <6>1, IndexerAssumption
        <5>2. ASSUME NEW j \in batch, Older(lib[j], since) PROVE FALSE
          <6>1. j \in Listed /\ j \in Items /\ lib[j] < since
            BY <2>3, <2>5, <5>2 DEF Older
          <6>2. <<i, j>> \in ByAge
            BY <2>4, <3>1, <3>4, <6>1 DEF ByAge, NewestFirst
          <6>3. Position(Listed, ByAge, i) < Position(Listed, ByAge, j)
            BY <2>2, <3>1, <6>1, <6>2, PositionFacts
          <6>4. Position(Listed, ByAge, j) < (n + 1) * PageSize
            BY <2>3 DEF Page, OnPage
          <6>5. Position(Listed, ByAge, i) \in Nat /\ Position(Listed, ByAge, j) \in Nat
                /\ (n + 1) * PageSize \in Nat
            BY <2>2, <2>4, <3>1, <6>1, PositionFacts, PageBounds, IndexerAssumption
          <6> DEFINE c == (n + 1) * PageSize
                     p == Position(Listed, ByAge, i)
                     q == Position(Listed, ByAge, j)
          <6>6. p \in Nat /\ q \in Nat /\ c \in Nat /\ p < q /\ q < c /\ p >= c
            BY <4>2, <6>3, <6>4, <6>5
          <6> HIDE DEF c, p, q
          <6> QED
            BY <6>6
        <5> QED
          BY <5>1, <5>2 DEF Complete, n
      <4> QED
        BY <2>1, <4>3, <4>4
    <3> QED
      BY <1>2, <3>3, <3>6, <3>7 DEF Sound, Walk, Walking
  <2>10. run'[r].pc \in {"incPage", "filter"}
    BY <2>1
  <2> QED
    BY <2>8, <2>9, <2>10 DEF Sound, Settled, Copy, Crawling, Copied
<1> QED
  BY <1>1, <1>3, <1>4, IncPageRun

\* Of a run that has listed what it will: as long as what it is unsure of gets no more,
\* and no row or record becomes newer than rows and records were, it stays sound.
LEMMA ListedKept ==
    ASSUME Typed, NEW r \in Runs, Sound(r), run[r].pc \in {"filter", "write"},
           run'[r].pc \in {"write", "finish"}, lib' = lib,
           Unsure(r)' \subseteq Unsure(r),
           \A k \in Items : /\ held'[k] \in {held[k], run[r].records[k]}
                            /\ run'[r].records[k] \in {0, run[r].records[k]}
    PROVE  \A i \in Unsure(r)' : Late(r, i)' /\ \A k \in Items : held'[k] <= lib[i]
<1> SUFFICES ASSUME NEW i \in Unsure(r)'
             PROVE  Late(r, i)' /\ \A k \in Items : held'[k] <= lib[i]
  OBVIOUS
<1>1. i \in Unsure(r) /\ lib[i] > 0
  BY DEF Unsure, Listed
<1>2. Late(r, i)
  BY <1>1 DEF Sound, Walk, Walking, ToCome
<1>3. \A k \in Items : held[k] <= lib[i] /\ run[r].records[k] <= lib[i]
  BY <1>2 DEF Late
<1>4. 0 <= lib[i]
  BY <1>1, StampTypes DEF Unsure, Listed
<1>5. \A k \in Items : held'[k] <= lib[i] /\ run'[r].records[k] <= lib[i]
  BY <1>3, <1>4
<1>6. Late(r, i)'
  BY <1>5 DEF Late
<1> QED
  BY <1>5, <1>6

LEMMA IncFilterSound ==
    ASSUME Typed, NEW r \in Runs, Sound(r), IncFilter(r)
    PROVE  Sound(r)'
<1>1. RunsTyped
  BY TypedParts
<1>2. /\ run'[r].pc = "write"
      /\ run'[r].records = [i \in Items |-> IF run[r].records[i] = held[i] THEN 0
                                            ELSE run[r].records[i]]
  BY <1>1, IncFilterRun
<1>3. run[r].pc = "filter" /\ lib' = lib /\ held' = held /\ Listed' = Listed
  BY DEF IncFilter, library, index, Listed
<1>4. \A i \in Listed : i \in Items
  BY DEF Listed
<1>5. Unsure(r)' \subseteq Unsure(r)
  <2> SUFFICES ASSUME NEW i \in Unsure(r)' PROVE i \in Unsure(r)
    OBVIOUS
  <2>1. /\ i \in Listed /\ i \in Items /\ run'[r].records[i] # lib[i]
        /\ held[i] # lib[i] \/ run'[r].records[i] # 0
    BY <1>3, <1>4 DEF Unsure
  <2>2. run'[r].records[i] = IF run[r].records[i] = held[i] THEN 0 ELSE run[r].records[i]
    BY <1>2, <2>1
  <2> QED
    BY <2>1, <2>2 DEF Unsure
<1>6. \A k \in Items : run'[r].records[k] \in {0, run[r].records[k]}
  BY <1>2
<1>7. Walk(r)'
  BY <1>2, <1>3, <1>5, <1>6, ListedKept DEF Walk
<1> QED
  BY <1>2, <1>7 DEF Sound, Divides, Settled, Copy, Crawling, Copied

LEMMA IncWriteSound ==
    ASSUME Typed, NEW r \in Runs, Sound(r), Fine(r), IncWrite(r)
    PROVE  Sound(r)'
<1>1. RunsTyped /\ IndexTyped
  BY TypedParts
<1>2. PICK chunk \in SUBSET Items :
        /\ Upsert(r, [i \in Items |-> IF i \in chunk THEN run[r].records[i] ELSE 0])
        /\ run'[r].records = [i \in Items |-> IF i \in chunk THEN 0 ELSE run[r].records[i]]
        /\ run'[r].pc = "finish" => \A i \in Items : run'[r].records[i] = 0
        /\ run'[r].pc \in {"write", "finish"}
  BY <1>1, IncWriteRun
<1>3. run[r].pc = "write" /\ lib' = lib /\ Listed' = Listed
  BY DEF IncWrite, library, Listed
<1>4. run[r].mode = "incremental" /\ run'[r].mode = "incremental"
  <2>1. run[r].mode = "incremental"
    BY <1>3 DEF Fine, ModeKnown
  <2>2. IncRun(r)
    BY <1>1, IncWriteRun
  <2> QED
    BY <1>2, <2>1, <2>2 DEF IncRun
<1>5. \A i \in Listed : i \in Items /\ lib[i] > 0 /\ lib[i] # 0
  BY StampTypes DEF Listed
<1>6. \A k \in Items :
        /\ held'[k] = IF k \in chunk /\ run[r].records[k] > 0 THEN run[r].records[k] ELSE held[k]
        /\ run'[r].records[k] = IF k \in chunk THEN 0 ELSE run[r].records[k]
  BY <1>2 DEF Upsert
<1>7. \A k \in Items : run[r].records[k] > 0 \/ run[r].records[k] = 0
  <2>1. \A k \in Items : run[r].records[k] \in Nat
    BY StampTypes
  <2> QED
    BY <2>1
<1>8. Unsure(r)' \subseteq Unsure(r)
  <2> SUFFICES ASSUME NEW i \in Unsure(r)' PROVE i \in Unsure(r)
    OBVIOUS
  <2>1. /\ i \in Listed /\ i \in Items /\ lib[i] # 0 /\ run'[r].records[i] # lib[i]
        /\ held'[i] # lib[i] \/ run'[r].records[i] # 0
    BY <1>3, <1>5 DEF Unsure
  <2>2. CASE i \in chunk /\ run[r].records[i] > 0
    BY <1>6, <1>7, <2>1, <2>2 DEF Unsure
  <2>3. CASE i \in chunk /\ run[r].records[i] = 0
    BY <1>6, <1>7, <2>1, <2>3 DEF Unsure
  <2>4. CASE i \notin chunk
    BY <1>6, <2>1, <2>4 DEF Unsure
  <2> QED
    BY <1>7, <2>1, <2>2, <2>3, <2>4
<1>9. \A i \in Unsure(r)' : Late(r, i)' /\ \A k \in Items : held'[k] <= lib[i]
  <2>1. \A k \in Items : /\ held'[k] \in {held[k], run[r].records[k]}
                         /\ run'[r].records[k] \in {0, run[r].records[k]}
    BY <1>6
  <2> QED
    BY <1>2, <1>3, <1>8, <2>1, ListedKept
<1>10. Walk(r)'
  BY <1>9 DEF Walk
<1>11. Settled(r)'
  <2> SUFFICES ASSUME run'[r].pc = "finish", NEW i \in Listed, held'[i] # lib[i],
                      NEW k \in Items
               PROVE  held'[k] <= lib[i]
    BY <1>2, <1>3 DEF Settled, Recent
  <2>1. run'[r].records[i] = 0 /\ lib[i] # 0
    BY <1>2, <1>5
  <2>2. i \in Unsure(r)'
    BY <1>3, <2>1 DEF Unsure
  <2> QED
    BY <1>9, <2>2
<1> QED
  BY <1>2, <1>4, <1>10, <1>11 DEF Sound, Divides, Copy, Crawling, Copied

-----------------------------------------------------------------------------
AllSound == (\A r \in Runs : Sound(r)) /\ Ready

LEMMA AllSoundInit == Init => AllSound
<1> SUFFICES ASSUME Init PROVE AllSound
  OBVIOUS
<1>1. ASSUME NEW r \in Runs PROVE Sound(r)
  <2>1. run[r].pc = "idle"
    BY IdleRecord DEF Init
  <2> QED
    BY <2>1 DEF Sound, Walk, Walking, Divides, Settled, Copy, Crawling, Copied
<1>2. Ready
  BY DEF Init, Ready
<1> QED
  BY <1>1, <1>2 DEF AllSound

\* A step of one run of several: the others are idle and stay it.
LEMMA OnlyOne ==
    ASSUME Typed, Alone, Alone', NEW r \in Runs, RunMoves(r), NEW q \in Runs, q # r
    PROVE  run[q].pc = "idle" /\ run'[q].pc = "idle"
<1>1. Same(q)
  BY OthersSame
<1>2. run[r].pc # "idle" \/ run'[r].pc # "idle"
  <2>1. ASSUME NEW requested, Begin(r, requested) PROVE run'[r].pc # "idle"
    BY <2>1, BeginFine
  <2> QED
    BY <2>1 DEF RunMoves, Ending, FullBegin, FullPage, FullFlush, FullRest, FullPrune, IncStep
<1> QED
  BY <1>1, <1>2 DEF Alone, Active, Same

LEMMA AllSoundStep ==
    ASSUME DuringFull = {}, "remove" \notin DuringNewest
    PROVE  Typed /\ Dated /\ Blank /\ AllFine /\ AllSound
             /\ Alone /\ Alone' /\ Calm /\ Calm' /\ [Next]_vars => AllSound'
<1> SUFFICES ASSUME Typed, Dated, Blank, AllFine, AllSound, Alone, Alone', Calm, Calm',
                    [Next]_vars
             PROVE  AllSound'
  OBVIOUS
<1>1. RunsTyped /\ OwnersTyped /\ faults \in 0..MaxFaults
  BY TypedParts
<1>2. CASE Quiet
  <2>1. UNCHANGED <<lib, held, run>> /\ lastFull' \in {lastFull, "stale"}
    BY <1>2 DEF Quiet, library, index
  <2>2. Listed' = Listed /\ \A i \in Items : AgePlace(i)' = AgePlace(i)
    BY <2>1, AgePlaceFacts
  <2>3. \A i \in Items : Place(i)' = Place(i)
    BY <1>2, PlaceFacts DEF Quiet
  <2>4. Recent => Recent'
    BY <2>1, <2>2 DEF Recent
  <2>5. \A i \in Listed : i \in Items
    BY DEF Listed
  <2>6. ASSUME NEW r \in Runs PROVE Sound(r)'
    <3>1. Sound(r) /\ run'[r] = run[r]
      BY <2>1 DEF AllSound
    <3>2. Walk(r)'
      <4>1. Unsure(r)' = Unsure(r)
        BY <2>1, <2>2 DEF Unsure
      <4>2. \A i \in Unsure(r) : (Late(r, i) => Late(r, i)') /\ (ToCome(r, i) => ToCome(r, i)')
        BY <2>1, <2>2, <2>5 DEF Unsure, Late, ToCome
      <4> QED
        BY <2>1, <3>1, <4>1, <4>2 DEF Sound, Walk
    <3>3. Divides(r)' /\ Settled(r)' /\ Copied(r)'
      BY <2>1, <2>2, <2>4, <3>1 DEF Sound, Divides, Settled, Copied
    <3>4. Copy(r)'
      BY <2>1, <2>2, <2>3, <2>5, <3>1 DEF Sound, Copy
    <3> QED
      BY <3>2, <3>3, <3>4 DEF Sound
  <2>7. Ready'
    BY <2>1, <2>4 DEF AllSound, Ready, Active
  <2> QED
    BY <2>6, <2>7 DEF AllSound
<1>3. CASE LibraryStep
  <2>1. ASSUME NEW r \in Runs PROVE Sound(r)'
    BY <1>3, LibrarySound DEF AllSound, AllFine
  <2>2. run' = run /\ lastFull' = lastFull
    BY <1>3, LibraryChange
  <2>3. Ready'
    BY <1>3, <2>2, RecentKept DEF AllSound, Ready, Active
  <2> QED
    BY <2>1, <2>3 DEF AllSound
<1>4. ~Cancel
  <2> SUFFICES ASSUME Cancel PROVE FALSE
    OBVIOUS
  <2> QED
    BY <1>1, CancelRun DEF Calm
<1>5. faults' # faults + 1
  BY DEF Calm
<1>6. ~Crash
  BY <1>5 DEF Crash
<1>7. ASSUME NEW r \in Runs, RunMoves(r) PROVE AllSound'
  <2>1. Sound(r) /\ Fine(r) /\ ~run[r].aborted
    BY DEF AllSound, AllFine, Calm
  <2>2. \A q \in Runs : q # r => run[q].pc = "idle" /\ run'[q].pc = "idle"
    BY <1>7, OnlyOne
  <2>3. SUFFICES Sound(r)' /\ Ready'
    BY <2>2, IdleSound DEF AllSound
  <2>4. ASSUME NEW requested, Begin(r, requested) PROVE Sound(r)' /\ Ready'
    <3>1. /\ run'[r].pc \in {"full", "baseline"}
          /\ run'[r].pc = "baseline" => lastFull \notin {"never", "stale"}
      BY <1>1, <2>4, BeginRun
    <3>2. run[r].pc = "idle" /\ lib' = lib /\ held' = held
      BY <2>4 DEF Begin, library, index
    <3>3. Ready'
      BY <3>1 DEF Ready, Active
    <3>4. CASE run'[r].pc = "full"
      BY <3>3, <3>4, IdleSound
    <3>5. CASE run'[r].pc = "baseline"
      <4>1. Active = {}
        BY <2>2, <3>2 DEF Active
      <4>2. lastFull = "fresh"
        BY <3>1, <3>5, TypedParts
      <4>3. Recent
        BY <4>1, <4>2 DEF AllSound, Ready
      <4>4. Recent'
        BY <3>2, <4>3 DEF Recent, Listed
      <4> QED
        BY <3>3, <3>5, <4>4 DEF Sound, Walk, Walking, Divides, Settled, Copy, Crawling, Copied
    <3> QED
      BY <3>1, <3>4, <3>5
  <2>5. CASE Ending(r)
    <3>1. Finish(r)
      BY <1>5, <2>1, <2>5 DEF Ending, Aborts, Fails
    <3>2. run'[r].pc = "idle"
      BY <1>1, <2>5, OverRun, IdleRecord DEF Ending
    <3>3. lib' = lib /\ held' = held /\ run[r].pc = "finish"
      BY <3>1 DEF Finish, library
    <3>4. run[r].mode \in {"full", "incremental"}
      BY Typing, Fields
    <3>5. Recent
      BY <2>1, <3>3, <3>4 DEF Sound, Settled, Copied, Recent
    <3>6. Recent'
      BY <3>3, <3>5 DEF Recent, Listed
    <3> QED
      BY <3>2, <3>6, IdleSound DEF Ready
  <2>6. CASE \/ FullBegin(r) \/ FullPage(r) \/ FullFlush(r) \/ FullRest(r) \/ FullPrune(r)
             \/ IncStep(r)
    <3>1. Sound(r)'
      BY <2>1, <2>6, FullBeginSound, FullPageSound, FullWriteSound, FullPruneSound,
         IncBaselineSound, IncPageSound, IncFilterSound, IncWriteSound DEF IncStep
    <3>2. run'[r].pc # "idle"
      <4>1. LibraryTyped
        BY TypedParts
      <4> QED
        BY <1>1, <2>6, <4>1, FullBeginRun, FullPageRun, FullFlushRun, FullRestRun,
           FullPruneRun DEF IncStep, IncRun
    <3>3. Ready'
      BY <3>2 DEF Ready, Active
    <3> QED
      BY <3>1, <3>3
  <2> QED
    BY <1>7, <2>4, <2>5, <2>6 DEF RunMoves
<1> QED
  BY <1>2, <1>3, <1>4, <1>6, <1>7, Steps

LEMMA RecentFindable ==
    ASSUME Typed, Ready
    PROVE  Findable
<1> SUFFICES ASSUME Recent, NEW i \in Listed, held[i] # lib[i] PROVE lib[i] >= Baseline
  BY DEF Ready, Findable
<1>1. Baseline = 0 \/ \E k \in Items : Baseline = held[k]
  BY Typing, BaselineStamp
<1>2. \A k \in Items : held[k] <= lib[i] /\ held[k] \in Nat
  BY StampTypes DEF Recent
<1>3. lib[i] > 0 /\ lib[i] \in Int
  BY StampTypes DEF Listed
<1> QED
  BY <1>1, <1>2, <1>3

-----------------------------------------------------------------------------
(***************************************************************************)
(* The results.                                                            *)
(***************************************************************************)
\* TypeOK, of any number of overlapping runs, library, fault and bound: the state of the
\* index and of its runs stays what indexer.ts, index-manager.ts and scheduler.ts take it
\* for; no stamp passes the bound that stands for "later than every stamp".
THEOREM IndexTypesHold == Spec => []TypeOK
<1>1. Init => Typed
  BY InitTyped
<1>2. Typed /\ [Next]_vars => Typed'
  BY TypedStep
<1>3. Typed => TypeOK
  BY DEF Typed
<1> QED
  BY <1>1, <1>2, <1>3, PTL DEF Spec

\* What is known of rows and records holds with any number of overlapping runs, too.
LEMMA KnownHolds == Spec => [](Typed /\ Known)
<1>1. Init => Typed /\ Known
  BY InitTyped, KnownInit
<1>2. Typed /\ Known /\ [Next]_vars => (Typed /\ Known)'
  BY TypedStep, KnownStep
<1> QED
  BY <1>1, <1>2, PTL DEF Spec

\* Of runs that do not overlap, and a library from which nothing is removed while a full
\* one lists it, the crawl is what its invariant says.
LEMMA CrawlHolds ==
    ASSUME "remove" \notin DuringFull
    PROVE  Spec /\ []Alone => [](Typed /\ Known /\ AllFine)
<1>1. Init => AllFine
  BY AllFineInit
<1>2. Typed /\ Known /\ AllFine /\ Alone /\ Alone' /\ [Next]_vars => AllFine'
  BY AllFineStep
<1>3. Spec => [](Typed /\ Known)
  BY KnownHolds
<1> QED
  BY <1>1, <1>2, <1>3, PTL DEF Spec

\* NoFalseRemoval, of runs that do not overlap: however the library grows and changes
\* between two pages of a full run, and wherever runs fail, are cancelled or crash, the
\* deleteMany that ends one (indexer.ts, runFull) deletes no row of an item the library
\* has, unless the run was cancelled.
THEOREM NoFalseRemovalHolds ==
    ASSUME "remove" \notin DuringFull
    PROVE  Spec /\ []Alone => NoFalseRemoval
<1> DEFINE Inv == Typed /\ Known /\ AllFine
           Kept == \A i \in Items : held[i] > 0 /\ held'[i] = 0 =>
                     lib[i] \notin Stamps \/ \E r \in Runs : FullPrune(r) /\ run[r].aborted
<1>1. Inv /\ [Next]_vars => Kept
  BY RemovalStep
<1>2. Spec /\ []Alone => []Inv
  BY CrawlHolds
<1>3. Spec => [][Next]_vars
  BY PTL DEF Spec
<1>4. []Inv /\ [][Next]_vars => [][Kept]_vars
  <2> HIDE DEF Inv, Kept
  <2> QED
    BY <1>1, PTL
<1> QED
  BY <1>2, <1>3, <1>4, PTL DEF NoFalseRemoval

\* NoGhosts, likewise: a full run that completes, cancelled on the way or not, leaves no row
\* of an item that the library had lost before the run began.
THEOREM NoGhostsHolds ==
    ASSUME "remove" \notin DuringFull
    PROVE  Spec /\ []Alone => NoGhosts
<1> DEFINE Inv == Typed /\ Known /\ AllFine
           Kept == \A r \in Runs : Finish(r) /\ run[r].mode = "full" =>
                     \A i \in Items : held[i] > 0 => lib[i] > 0
<1>1. Inv /\ [Next]_vars => Kept
  BY GhostStep
<1>2. Spec /\ []Alone => []Inv
  BY CrawlHolds
<1>3. Spec => [][Next]_vars
  BY PTL DEF Spec
<1>4. []Inv /\ [][Next]_vars => [][Kept]_vars
  <2> HIDE DEF Inv, Kept
  <2> QED
    BY <1>1, PTL
<1> QED
  BY <1>2, <1>3, <1>4, PTL DEF NoGhosts

\* Stamps keep to the clock with any number of overlapping runs, too.
LEMMA DatedHolds == Spec => [](Typed /\ Dated /\ Blank)
<1>1. Init => Typed /\ Dated /\ Blank
  BY InitTyped, DatedInit
<1>2. Typed /\ Dated /\ Blank /\ [Next]_vars => (Typed /\ Dated /\ Blank)'
  BY TypedStep, DatedStep
<1> QED
  BY <1>1, <1>2, PTL DEF Spec

\* Findable, of runs that do not overlap, fail or get cancelled, of a library that rests
\* during full runs and loses nothing during incremental ones: however it grows and changes
\* meanwhile, and however many items share a millisecond, an incremental run
\* (indexer.ts, runIncremental; client.ts, fetchBooksModifiedSince) that reads back to the
\* baseline, that millisecond included, leaves nothing below the next one's.
THEOREM FindableHolds ==
    ASSUME DuringFull = {}, "remove" \notin DuringNewest
    PROVE  Spec /\ []Alone /\ []Calm => []Findable
<1>1. Init => AllSound
  BY AllSoundInit
<1>2. Typed /\ Dated /\ Blank /\ AllFine /\ AllSound
        /\ Alone /\ Alone' /\ Calm /\ Calm' /\ [Next]_vars => AllSound'
  BY AllSoundStep
<1>3. Spec => [](Typed /\ Dated /\ Blank)
  BY DatedHolds
<1>4. Spec /\ []Alone => [](Typed /\ Known /\ AllFine)
  BY CrawlHolds
<1>5. Typed /\ AllSound => Findable
  BY RecentFindable DEF AllSound
<1> QED
  BY <1>1, <1>2, <1>3, <1>4, <1>5, PTL DEF Spec
=============================================================================
