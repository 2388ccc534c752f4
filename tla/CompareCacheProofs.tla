------------------------- MODULE CompareCacheProofs -------------------------
(***************************************************************************)
(* What holds of CompareCache for any number of items, servers, runs,      *)
(* switches and comparisons, and a cache of any size: what it serves, if   *)
(* nothing came between its reads, is what the index says.                 *)
(***************************************************************************)
EXTENDS CompareCache, FiniteSetTheorems, FunctionTheorems, WellFoundedInduction, TLAPS

RunRecord == [start : 1..MaxRuns, wrote : BOOLEAN, pruned : BOOLEAN]
ComparerRecord ==
    [pc : {"idle", "target", "sources", "fingerprint", "diff"}, rows : AllRows, key : Keys,
     over : SUBSET IndexedServers, doubt : BOOLEAN]

\* What the proofs use of the constants.
Bounds ==
    /\ IsFiniteSet(ItemIds) /\ NoRun \notin RunRecord
    /\ MaxRuns \in Nat /\ MaxSwitches \in Nat /\ MaxEntries \in Nat \ {0}

\* What the key of some rows is.
Stamps(rows) == {r[2] : r \in rows}
KeyOf(rows) == <<Cardinality(rows), Max(Stamps(rows) \cup {0})>>

\* Nothing bears a time to come.
Clocked ==
    /\ \A i \in ItemIds : held[i] <= clock
    /\ \A x \in Running : run[x].start <= clock

\* What was read under a key: runs that it did not overlap write later than that.  Unless it
\* is mixed, the key is that of its rows, and what the index has besides is newer.
Sound(k) ==
    /\ k.key[2] <= clock
    /\ \A x \in Running : x \notin k.over => run[x].start > k.key[2]
    /\ ~k.doubt => k.over \subseteq Running
    /\ ~Mixed(k) =>
         /\ k.key = KeyOf(k.rows)
         /\ \A i \in Of(IndexedServers) : <<i, held[i]>> \in k.rows \/ held[i] > k.key[2]

\* What is being read is the index so far, unless it is mixed.
ReadSound(k) ==
    /\ Running \subseteq k.over
    /\ ~k.doubt => k.over \subseteq Running
    /\ ~Mixed(k) =>
         /\ k.pc = "sources" => k.rows = RowsIn({Target})
         /\ k.pc = "fingerprint" => k.rows = RowsIn(IndexedServers)

Consistent(k) ==
    /\ k.pc \in {"target", "sources", "fingerprint"} => ReadSound(k)
    /\ k.pc = "diff" => Sound(k)

CacheInv ==
    /\ CacheTypeOK /\ Clocked
    /\ \A n \in DOMAIN cache : Sound(cache[n])
    /\ \A c \in Comparers : Consistent(comparer[c])

-----------------------------------------------------------------------------
(***************************************************************************)
(* Keys.                                                                   *)
(***************************************************************************)
\* Of some numbers one is the least.
LEMMA Least ==
    ASSUME NEW T \in SUBSET Nat, T # {}
    PROVE  \E m \in T : \A n \in T : m <= n
<1> DEFINE R == StrictSubsetOrdering(Nat)
           F == FiniteSubsetsOf(Nat)
           Below == {0..n : n \in T}
<1>1. IsWellFoundedOn(R, F)
  BY FS_StrictSubsetOrderingWellFounded
<1>2. \A n \in Nat : 0..n \in F
  <2>1. ASSUME NEW n \in Nat PROVE IsFiniteSet(0..n)
    <3>1. 0 \in Int /\ n \in Int
      OBVIOUS
    <3> QED
      BY <3>1, FS_Interval
  <2> QED
    BY <2>1 DEF FiniteSubsetsOf
<1>3. Below \subseteq F /\ Below # {}
  <2> HIDE DEF F
  <2> QED
    BY <1>2
<1>4. \A m, n \in Nat : n < m => <<0..n, 0..m>> \in R
  <2> SUFFICES ASSUME NEW m \in Nat, NEW n \in Nat, n < m PROVE <<0..n, 0..m>> \in R
    OBVIOUS
  <2>1. 0..n \subseteq 0..m /\ 0..n # 0..m /\ 0..m \subseteq Nat
    <3>1. m \in 0..m /\ m \notin 0..n
      OBVIOUS
    <3> QED
      BY <3>1
  <2> QED
    BY <2>1 DEF StrictSubsetOrdering
<1> HIDE DEF R, F
<1>5. PICK x \in Below : \A y \in Below : ~ (<<y, x>> \in R)
  <2> HIDE DEF Below
  <2> QED
    BY <1>1, <1>3, WFMin
<1>6. PICK m \in T : x = 0..m
  BY <1>5
<1>7. \A n \in T : m <= n
  <2>1. ASSUME NEW n \in T PROVE m <= n
    <3>1. 0..n \in Below
      OBVIOUS
    <3>2. ~ (<<0..n, 0..m>> \in R)
      BY <3>1, <1>5, <1>6
    <3> QED
      BY <3>2, <1>4
  <2> QED
    BY <2>1
<1> QED
  BY <1>7

\* Of finitely many numbers one is the greatest.
LEMMA Greatest ==
    ASSUME NEW n \in Nat, NEW S \in SUBSET (0..n), 0 \in S
    PROVE  /\ Max(S) \in S
           /\ \A s \in S : s <= Max(S)
<1> DEFINE T == {m \in Nat : \A s \in S : s <= m}
<1>1. n \in T
  OBVIOUS
<1>2. PICK m \in T : \A l \in T : m <= l
  <2>1. T \in SUBSET Nat /\ T # {}
    BY <1>1
  <2> HIDE DEF T
  <2> QED
    BY <2>1, Least
<1>3. m \in S
  <2>1. SUFFICES ASSUME m \notin S PROVE FALSE
    OBVIOUS
  <2>2. m \in Nat /\ m # 0 /\ \A s \in S : s <= m /\ s # m /\ s \in Nat
    BY <2>1
  <2>3. m - 1 \in T
    BY <2>2
  <2> QED
    BY <2>3, <2>2, <1>2
<1>4. \A s \in S : m >= s /\ s \in Nat
  OBVIOUS
<1>5. \E g \in S : \A s \in S : g >= s
  BY <1>3, <1>4
<1>6. Max(S) \in S /\ \A s \in S : Max(S) >= s
  BY <1>5 DEF Max
<1> QED
  BY <1>6, <1>4

LEMMA RowsFinite ==
    ASSUME Bounds, NEW rows \in AllRows
    PROVE  /\ IsFiniteSet(rows) /\ Cardinality(rows) \in Nat
           /\ Stamps(rows) \cup {0} \in SUBSET (0..MaxRuns)
<1>1. MaxRuns \in Nat /\ IsFiniteSet(ItemIds)
  BY DEF Bounds
<1>2. IsFiniteSet(1..MaxRuns)
  BY <1>1, FS_Interval
<1>3. IsFiniteSet(ItemIds \X (1..MaxRuns))
  BY <1>1, <1>2, FS_Product
<1>4. rows \in SUBSET (ItemIds \X (1..MaxRuns))
  BY DEF AllRows
<1>5. IsFiniteSet(rows)
  BY <1>3, <1>4, FS_Subset
<1>6. \A r \in rows : r[2] \in 0..MaxRuns
  <2>1. \A r \in ItemIds \X (1..MaxRuns) : r[2] \in 1..MaxRuns
    OBVIOUS
  <2>2. \A l \in 1..MaxRuns : l \in 0..MaxRuns
    BY <1>1
  <2> QED
    BY <1>4, <2>1, <2>2
<1> QED
  BY <1>1, <1>5, <1>6, FS_CardinalityType DEF Stamps

\* The fingerprint is the key of the rows that a comparison reads.
LEMMA FingerprintOfRows ==
    ASSUME Bounds, CacheTypeOK
    PROVE  /\ RowsIn(IndexedServers) \in AllRows
           /\ Fingerprint = KeyOf(RowsIn(IndexedServers))
           /\ Fingerprint \in Keys
           /\ \A i \in Of(IndexedServers) : held[i] <= Fingerprint[2]
           /\ \E s \in {held[i] : i \in Of(IndexedServers)} \cup {0} : Fingerprint[2] = s
<1> DEFINE O == Of(IndexedServers)
           R == RowsIn(IndexedServers)
           S == {held[i] : i \in O} \cup {0}
<1>1. MaxRuns \in Nat /\ IsFiniteSet(ItemIds)
  BY DEF Bounds
<1>2. O \in SUBSET ItemIds
  BY DEF Of, Held
<1>3. \A i \in O : held[i] \in 1..MaxRuns
  <2>1. \A i \in O : held[i] \in 0..MaxRuns /\ held[i] # 0
    BY DEF CacheTypeOK, Of, Held
  <2> QED
    BY <2>1, <1>1
<1>4. R = {<<i, held[i]>> : i \in O}
  BY DEF RowsIn
<1> HIDE DEF O, R
<1>5. R \in SUBSET (ItemIds \X (1..MaxRuns))
  BY <1>2, <1>3, <1>4
<1>6. R \in AllRows
  BY <1>5 DEF AllRows
<1>7. IsFiniteSet(O) /\ Cardinality(O) \in Nat /\ Cardinality(O) <= Cardinality(ItemIds)
      /\ Cardinality(ItemIds) \in Nat
  BY <1>1, <1>2, FS_Subset, FS_CardinalityType
<1>8. Cardinality(R) = Cardinality(O)
  <2> DEFINE f == [i \in O |-> <<i, held[i]>>]
  <2>1. f \in Bijection(O, R)
    <3>1. f \in [O -> R]
      BY <1>4
    <3>2. \A i, j \in O : f[i] = f[j] => i = j
      OBVIOUS
    <3>3. \A r \in R : \E i \in O : f[i] = r
      BY <1>4
    <3> HIDE DEF f
    <3>4. f \in Injection(O, R)
      BY <3>1, <3>2, Fun_IsInj
    <3>5. f \in Surjection(O, R)
      BY <3>1, <3>3, Fun_IsSurj
    <3> QED
      BY <3>4, <3>5, Fun_IsBij
  <2> HIDE DEF f
  <2>2. ExistsBijection(O, R)
    BY <2>1 DEF ExistsBijection
  <2> QED
    BY <2>2, <1>7, FS_Bijection
<1>9. Stamps(R) \cup {0} = S
  <2>1. \A i \in O : <<i, held[i]>>[2] = held[i]
    OBVIOUS
  <2>2. \A v : v \in Stamps(R) <=> \E i \in O : v = held[i]
    <3>1. \A v : v \in Stamps(R) <=> \E r \in R : v = r[2]
      BY DEF Stamps
    <3>2. \A r : r \in R <=> \E i \in O : r = <<i, held[i]>>
      BY <1>4
    <3>3. ASSUME NEW v, v \in Stamps(R) PROVE \E i \in O : v = held[i]
      BY <3>1, <3>2, <3>3
    <3>4. ASSUME NEW i \in O PROVE held[i] \in Stamps(R)
      <4>1. <<i, held[i]>> \in R /\ <<i, held[i]>>[2] = held[i]
        BY <3>2
      <4> QED
        BY <4>1, <3>1
    <3> QED
      BY <3>3, <3>4
  <2> QED
    BY <2>2
<1>10. S \in SUBSET (0..MaxRuns) /\ 0 \in S
  <2>1. \A l \in 1..MaxRuns : l \in 0..MaxRuns
    BY <1>1
  <2> QED
    BY <2>1, <1>1, <1>3
<1>11. \A i \in O : held[i] \in S
  OBVIOUS
<1> HIDE DEF S
<1>12. Max(S) \in S /\ \A s \in S : s <= Max(S)
  BY <1>10, <1>1, Greatest
<1>13. Fingerprint = <<Cardinality(O), Max(S)>>
  BY DEF Fingerprint, O, S
<1>14. KeyOf(R) = <<Cardinality(R), Max(S)>>
  BY <1>9 DEF KeyOf
<1>15. Fingerprint \in Keys
  <2>1. Cardinality(O) \in 0..Cardinality(ItemIds)
    BY <1>7
  <2>2. Max(S) \in 0..MaxRuns
    BY <1>12, <1>10
  <2> QED
    BY <2>1, <2>2, <1>13 DEF Keys
<1>16. Fingerprint[2] = Max(S) /\ Fingerprint = KeyOf(R)
  BY <1>13, <1>14, <1>8
<1>17. /\ \A i \in O : held[i] <= Fingerprint[2]
       /\ \E s \in S : Fingerprint[2] = s
  BY <1>16, <1>12, <1>11
<1> QED
  BY <1>6, <1>15, <1>16, <1>17 DEF O, R, S

\* Rows under one key, of which the later ones are all among the earlier, are the same.
LEMMA SameKeySameRows ==
    ASSUME Bounds, NEW old \in AllRows, NEW new \in SUBSET old, KeyOf(old) = KeyOf(new)
    PROVE  old = new
<1>1. IsFiniteSet(old)
  BY RowsFinite
<1>2. Cardinality(old) = Cardinality(new)
  BY DEF KeyOf
<1> QED
  BY <1>1, <1>2, FS_Subset

-----------------------------------------------------------------------------
(***************************************************************************)
(* What a step of the index leaves of what was read.                       *)
(***************************************************************************)
Claims == Entries \cup ComparerRecord

LEMMA ClaimFacts ==
    ASSUME Bounds, NEW k \in Claims
    PROVE  /\ k.key \in Keys /\ k.key[2] \in Nat /\ k.rows \in AllRows
           /\ k.over \in SUBSET IndexedServers /\ k.doubt \in BOOLEAN
<1>1. /\ k.key \in Keys /\ k.rows \in AllRows
      /\ k.over \in SUBSET IndexedServers /\ k.doubt \in BOOLEAN
  <2> HIDE DEF Keys, AllRows, IndexedServers
  <2>1. CASE k \in Entries
    BY <2>1 DEF Entries
  <2>2. CASE k \in ComparerRecord
    BY <2>2 DEF ComparerRecord
  <2> QED
    BY <2>1, <2>2 DEF Claims
<1>2. \A key \in Keys : key[2] \in Nat
  BY DEF Keys, Bounds
<1> QED
  BY <1>1, <1>2

\* Marking it leaves the rest of it, and its kind.
LEMMA MarkedFacts ==
    ASSUME Bounds, NEW k \in Claims
    PROVE  LET d == [k EXCEPT !.doubt = TRUE] IN
           /\ d \in Claims /\ d.key = k.key /\ d.rows = k.rows /\ d.over = k.over /\ d.doubt
           /\ k \in Entries => d \in Entries
           /\ k \in ComparerRecord => d \in ComparerRecord /\ d.pc = k.pc
<1> HIDE DEF Keys, AllRows, IndexedServers
<1>1. CASE k \in Entries
  <2>1. k \notin ComparerRecord \/ k \in ComparerRecord
    OBVIOUS
  <2>2. [k EXCEPT !.doubt = TRUE] \in Entries
    BY <1>1 DEF Entries
  <2>3. k \in ComparerRecord => /\ [k EXCEPT !.doubt = TRUE] \in ComparerRecord
                                /\ [k EXCEPT !.doubt = TRUE].pc = k.pc
    BY DEF ComparerRecord
  <2> QED
    BY <1>1, <2>2, <2>3 DEF Entries, Claims
<1>2. CASE k \in ComparerRecord
  <2>2. [k EXCEPT !.doubt = TRUE] \in ComparerRecord /\ [k EXCEPT !.doubt = TRUE].pc = k.pc
    BY <1>2 DEF ComparerRecord
  <2>3. k \in Entries => [k EXCEPT !.doubt = TRUE] \in Entries
    BY DEF Entries
  <2> QED
    BY <1>2, <2>2, <2>3 DEF ComparerRecord, Claims
<1> QED
  BY <1>1, <1>2 DEF Claims

\* And so does any other set of servers.
LEMMA OverFacts ==
    ASSUME Bounds, NEW k \in Claims, NEW over \in SUBSET IndexedServers
    PROVE  LET d == [k EXCEPT !.over = over] IN
           /\ d \in Claims /\ d.key = k.key /\ d.rows = k.rows /\ d.over = over
           /\ d.doubt = k.doubt
           /\ k \in Entries => d \in Entries
           /\ k \in ComparerRecord => d \in ComparerRecord /\ d.pc = k.pc
<1> HIDE DEF Keys, AllRows, IndexedServers
<1>1. k \in Entries => [k EXCEPT !.over = over] \in Entries
  BY DEF Entries
<1>2. k \in ComparerRecord => /\ [k EXCEPT !.over = over] \in ComparerRecord
                              /\ [k EXCEPT !.over = over].pc = k.pc
  BY DEF ComparerRecord
<1>3. CASE k \in Entries
  BY <1>1, <1>2, <1>3 DEF Entries, Claims
<1>4. CASE k \in ComparerRecord
  BY <1>1, <1>2, <1>4 DEF ComparerRecord, Claims
<1> QED
  BY <1>3, <1>4 DEF Claims

LEMMA RunFacts ==
    ASSUME Bounds, CacheTypeOK
    PROVE  \A x \in Running : /\ x \in IndexedServers /\ run[x] \in RunRecord
                              /\ run[x].start \in Nat /\ run[x].wrote \in BOOLEAN
<1>1. run \in [IndexedServers -> RunRecord \cup {NoRun}]
  BY DEF CacheTypeOK, RunRecord
<1>2. \A r \in RunRecord : r.start \in 1..MaxRuns /\ r.wrote \in BOOLEAN
  BY DEF RunRecord
<1>3. \A s \in 1..MaxRuns : s \in Nat
  BY DEF Bounds
<1> QED
  BY <1>1, <1>2, <1>3 DEF Running

\* What it takes for a claim to stay sound.
LEMMA SoundStays ==
    ASSUME NEW k, NEW d, Sound(k), d.key = k.key, d.rows = k.rows,
           d.key[2] <= clock',
           \A x \in Running' : x \notin d.over => run'[x].start > d.key[2],
           ~d.doubt => d.over \subseteq Running',
           ~Mixed(d)' => ~Mixed(k),
           ~Mixed(d)' => \A i \in Of(IndexedServers)' :
               (i \in Of(IndexedServers) /\ held'[i] = held[i]) \/ held'[i] > d.key[2]
    PROVE  Sound(d)'
<1>1. SUFFICES ASSUME ~Mixed(d)'
      PROVE  /\ d.key = KeyOf(d.rows)
             /\ \A i \in Of(IndexedServers)' :
                  <<i, held'[i]>> \in d.rows \/ held'[i] > d.key[2]
  BY DEF Sound
<1>2. /\ k.key = KeyOf(k.rows)
      /\ \A i \in Of(IndexedServers) : <<i, held[i]>> \in k.rows \/ held[i] > k.key[2]
  BY <1>1 DEF Sound
<1>3. ASSUME NEW i \in Of(IndexedServers)'
      PROVE  <<i, held'[i]>> \in d.rows \/ held'[i] > d.key[2]
  BY <1>1, <1>2, <1>3
<1> QED
  BY <1>2, <1>3

LEMMA BeginRuns ==
    ASSUME Bounds, CacheTypeOK, Clocked, NEW x \in IndexedServers, RunBegins(x)
    PROVE  /\ Running' = Running \cup {x} /\ x \notin Running
           /\ \A y \in Running : run'[y] = run[y]
           /\ run'[x] \in RunRecord /\ run'[x].start = clock + 1 /\ ~run'[x].wrote
           /\ clock' = clock + 1 /\ clock \in Nat /\ clock' \in 0..MaxRuns
           /\ run' \in [IndexedServers -> RunRecord \cup {NoRun}]
<1>1. run \in [IndexedServers -> RunRecord \cup {NoRun}] /\ clock \in 0..MaxRuns /\ MaxRuns \in Nat
  BY DEF CacheTypeOK, RunRecord, Bounds
<1> DEFINE r == [start |-> clock + 1, wrote |-> FALSE, pruned |-> FALSE]
<1>2. run' = [run EXCEPT ![x] = r] /\ clock' = clock + 1 /\ clock < MaxRuns /\ x \notin Running
  BY DEF RunBegins
<1>3. clock + 1 \in 1..MaxRuns /\ clock \in Nat /\ clock' \in 0..MaxRuns
  BY <1>1, <1>2
<1>4. r \in RunRecord /\ r.start = clock + 1 /\ ~r.wrote
  BY <1>3 DEF RunRecord
<1> HIDE DEF r
<1>5. run'[x] = r /\ \A y \in IndexedServers : y # x => run'[y] = run[y]
  BY <1>1, <1>2
<1>6. r # NoRun
  BY <1>4 DEF Bounds
<1>7. Running' = Running \cup {x}
  <2>1. \A y \in IndexedServers : run'[y] # NoRun <=> (run[y] # NoRun \/ y = x)
    BY <1>5, <1>6
  <2> QED
    BY <2>1 DEF Running
<1>8. run' \in [IndexedServers -> RunRecord \cup {NoRun}]
  BY <1>1, <1>2, <1>4
<1> QED
  BY <1>2, <1>3, <1>4, <1>5, <1>7, <1>8 DEF Running

LEMMA BeginSound ==
    ASSUME Bounds, CacheTypeOK, Clocked, NEW x \in IndexedServers, RunBegins(x),
           NEW k \in Claims, Sound(k)
    PROVE  Sound(k)'
<1>1. k.key[2] \in Nat /\ k.over \in SUBSET IndexedServers
  BY ClaimFacts
<1>2. k.key[2] <= clock /\ ~k.doubt => k.over \subseteq Running
  BY DEF Sound
<1>3. clock \in Nat /\ clock' = clock + 1
  BY BeginRuns
<1>4. k.key[2] <= clock /\ (~k.doubt => k.over \subseteq Running)
      /\ \A y \in Running : y \notin k.over => run[y].start > k.key[2]
  BY DEF Sound
<1>5. k.key[2] <= clock'
  BY <1>1, <1>3, <1>4
<1>6. ASSUME NEW y \in Running', y \notin k.over PROVE run'[y].start > k.key[2]
  <2>1. CASE y = x
    <3>1. run'[y].start = clock + 1
      BY <2>1, BeginRuns
    <3> QED
      BY <3>1, <1>1, <1>3, <1>4
  <2>2. CASE y \in Running
    BY <2>2, <1>4, <1>6, BeginRuns
  <2> QED
    BY <2>1, <2>2, <1>6, BeginRuns
<1>7. ~k.doubt => k.over \subseteq Running'
  BY <1>4, BeginRuns
<1>8. ~Mixed(k)' => ~Mixed(k)
  <2>1. SUFFICES ASSUME ~Mixed(k)', NEW y \in k.over, run[y].wrote PROVE FALSE
    BY DEF Mixed
  <2>2. ~k.doubt /\ ~run'[y].wrote
    BY <2>1 DEF Mixed
  <2>3. run'[y] = run[y]
    BY <2>2, <1>4, BeginRuns
  <2> QED
    BY <2>1, <2>2, <2>3
<1>9. held' = held /\ Of(IndexedServers)' = Of(IndexedServers)
  BY DEF RunBegins, Of, Held
<1> QED
  BY <1>5, <1>6, <1>7, <1>8, <1>9, SoundStays

LEMMA WriteRuns ==
    ASSUME Bounds, CacheTypeOK, NEW i \in ItemIds, Write(i)
    PROVE  LET x == ServerOfItem[i] IN
           /\ x \in Running /\ Running' = Running
           /\ run' \in [IndexedServers -> RunRecord \cup {NoRun}]
           /\ run'[x].wrote /\ \A y \in Running : run'[y].start = run[y].start
           /\ \A y \in Running : y # x => run'[y] = run[y]
           /\ held' \in [ItemIds -> 0..MaxRuns]
           /\ held'[i] = run[x].start /\ \A j \in ItemIds : j # i => held'[j] = held[j]
<1> DEFINE x == ServerOfItem[i]
<1>1. run \in [IndexedServers -> RunRecord \cup {NoRun}] /\ held \in [ItemIds -> 0..MaxRuns]
  BY DEF CacheTypeOK, RunRecord
<1>2. x \in Running /\ held' = [held EXCEPT ![i] = run[x].start]
      /\ run' = [run EXCEPT ![x].wrote = TRUE]
  BY DEF Write
<1> HIDE DEF x
<1>3. x \in IndexedServers /\ run[x] \in RunRecord
  BY <1>2, RunFacts
<1> DEFINE r == [run[x] EXCEPT !.wrote = TRUE]
<1>4. r \in RunRecord /\ r.wrote /\ r.start = run[x].start
  BY <1>3 DEF RunRecord
<1>5. run' = [run EXCEPT ![x] = r]
  BY <1>1, <1>2, <1>3
<1>6. run[x].start \in 0..MaxRuns
  <2>1. \A q \in RunRecord : q.start \in 1..MaxRuns
    BY DEF RunRecord
  <2>2. \A s \in 1..MaxRuns : s \in 0..MaxRuns
    BY DEF Bounds
  <2> QED
    BY <1>3, <2>1, <2>2
<1> HIDE DEF r
<1>7. run'[x] = r /\ \A y \in IndexedServers : y # x => run'[y] = run[y]
  BY <1>1, <1>5, <1>3
<1>8. Running' = Running
  <2>1. r # NoRun /\ run[x] # NoRun
    BY <1>2, <1>4 DEF Bounds, Running
  <2>2. \A y \in IndexedServers : run'[y] # NoRun <=> run[y] # NoRun
    BY <1>7, <2>1
  <2> QED
    BY <2>2 DEF Running
<1>9. \A y \in Running : run'[y].start = run[y].start
  BY <1>7, <1>4 DEF Running
<1>10. run' \in [IndexedServers -> RunRecord \cup {NoRun}]
  BY <1>1, <1>5, <1>4
<1>11. /\ held' \in [ItemIds -> 0..MaxRuns]
       /\ held'[i] = run[x].start /\ \A j \in ItemIds : j # i => held'[j] = held[j]
  BY <1>1, <1>2, <1>6
<1>12. \A y \in Running : y # x => run'[y] = run[y]
  BY <1>7 DEF Running
<1>13. run'[x].wrote
  BY <1>7, <1>4
<1> QED
  BY <1>2, <1>8, <1>9, <1>10, <1>11, <1>12, <1>13 DEF x

\* A run that what was read did not overlap writes something newer.
LEMMA WriteSound ==
    ASSUME Bounds, CacheTypeOK, NEW i \in ItemIds, Write(i), NEW k \in Claims, Sound(k)
    PROVE  Sound(k)'
<1> DEFINE x == ServerOfItem[i]
<1>1. k.key[2] <= clock /\ (~k.doubt => k.over \subseteq Running)
      /\ \A y \in Running : y \notin k.over => run[y].start > k.key[2]
  BY DEF Sound
<1>2. clock' = clock /\ included' = included
  BY DEF Write
<1>3. /\ x \in Running /\ Running' = Running /\ run'[x].wrote
      /\ \A y \in Running : run'[y].start = run[y].start
      /\ \A y \in Running : y # x => run'[y] = run[y]
      /\ held'[i] = run[x].start /\ \A j \in ItemIds : j # i => held'[j] = held[j]
  BY WriteRuns
<1> HIDE DEF x
<1>4. \A y \in Running' : y \notin k.over => run'[y].start > k.key[2]
  BY <1>1, <1>3
<1>5. ~Mixed(k)' => ~Mixed(k) /\ x \notin k.over
  <2>1. SUFFICES ASSUME ~Mixed(k)' PROVE ~Mixed(k) /\ x \notin k.over
    OBVIOUS
  <2>2. ~k.doubt /\ \A y \in k.over : ~run'[y].wrote
    BY <2>1 DEF Mixed
  <2>3. x \notin k.over
    BY <2>2, <1>3
  <2>4. \A y \in k.over : run'[y] = run[y]
    BY <2>2, <2>3, <1>1, <1>3
  <2> QED
    BY <2>2, <2>3, <2>4 DEF Mixed
<1>6. ~Mixed(k)' => \A j \in Of(IndexedServers)' :
               (j \in Of(IndexedServers) /\ held'[j] = held[j]) \/ held'[j] > k.key[2]
  <2>1. SUFFICES ASSUME ~Mixed(k)', NEW j \in Of(IndexedServers)'
        PROVE  (j \in Of(IndexedServers) /\ held'[j] = held[j]) \/ held'[j] > k.key[2]
    OBVIOUS
  <2>2. CASE j = i
    BY <2>1, <2>2, <1>5, <1>1, <1>3
  <2>3. CASE j # i
    BY <2>1, <2>3, <1>3, <1>2 DEF Of, Held
  <2> QED
    BY <2>2, <2>3
<1>7. k.key[2] <= clock' /\ (~k.doubt => k.over \subseteq Running')
  BY <1>1, <1>2, <1>3
<1> QED
  BY <1>4, <1>5, <1>6, <1>7, SoundStays

LEMMA PruneRuns ==
    ASSUME Bounds, CacheTypeOK, NEW x \in IndexedServers, Prune(x)
    PROVE  /\ x \in Running /\ Running' = Running
           /\ run' \in [IndexedServers -> RunRecord \cup {NoRun}]
           /\ \A y \in Running : run'[y].start = run[y].start
           /\ \A y \in Running : run[y].wrote => run'[y].wrote
           /\ held' \in [ItemIds -> 0..MaxRuns]
           /\ \A j \in ItemIds : held'[j] # 0 => held'[j] = held[j]
           /\ ~run'[x].wrote => held' = held
<1> DEFINE stale == {i \in Held : ServerOfItem[i] = x /\ held[i] < run[x].start}
           r == [run[x] EXCEPT !.pruned = TRUE, !.wrote = @ \/ stale # {}]
<1>1. run \in [IndexedServers -> RunRecord \cup {NoRun}] /\ held \in [ItemIds -> 0..MaxRuns]
  BY DEF CacheTypeOK, RunRecord
<1>2. x \in Running /\ held' = [i \in ItemIds |-> IF i \in stale THEN 0 ELSE held[i]]
      /\ run' = [run EXCEPT ![x].pruned = TRUE, ![x].wrote = @ \/ stale # {}]
  BY DEF Prune
<1>3. x \in IndexedServers /\ run[x] \in RunRecord
  BY <1>2, RunFacts
<1> HIDE DEF stale
<1>4. r \in RunRecord /\ r.start = run[x].start /\ r.wrote = (run[x].wrote \/ stale # {})
  BY <1>3 DEF RunRecord
<1>5. run' = [run EXCEPT ![x] = r]
  BY <1>1, <1>2, <1>3
<1> HIDE DEF r
<1>6. run'[x] = r /\ \A y \in IndexedServers : y # x => run'[y] = run[y]
  BY <1>1, <1>5, <1>3
<1>7. Running' = Running
  <2>1. r # NoRun /\ run[x] # NoRun
    BY <1>2, <1>4 DEF Bounds, Running
  <2>2. \A y \in IndexedServers : run'[y] # NoRun <=> run[y] # NoRun
    BY <1>6, <2>1
  <2> QED
    BY <2>2 DEF Running
<1>8. \A y \in Running : run'[y].start = run[y].start
  BY <1>6, <1>4 DEF Running
<1>9. \A y \in Running : run[y].wrote => run'[y].wrote
  BY <1>6, <1>4 DEF Running
<1>10. run' \in [IndexedServers -> RunRecord \cup {NoRun}]
  BY <1>1, <1>5, <1>4
<1>11. held' \in [ItemIds -> 0..MaxRuns] /\ \A j \in ItemIds : held'[j] # 0 => held'[j] = held[j]
  <2>1. 0 \in 0..MaxRuns
    BY DEF Bounds
  <2> QED
    BY <2>1, <1>1, <1>2
<1>12. ~run'[x].wrote => held' = held
  BY <1>1, <1>2, <1>4, <1>6
<1> QED
  BY <1>2, <1>7, <1>8, <1>9, <1>10, <1>11, <1>12

\* Removing rows leaves no row that was not there.
LEMMA PruneSound ==
    ASSUME Bounds, CacheTypeOK, NEW x \in IndexedServers, Prune(x), NEW k \in Claims, Sound(k)
    PROVE  Sound(k)'
<1>1. k.key[2] <= clock /\ (~k.doubt => k.over \subseteq Running)
      /\ \A y \in Running : y \notin k.over => run[y].start > k.key[2]
  BY DEF Sound
<1>2. clock' = clock /\ included' = included
  BY DEF Prune
<1>3. \A y \in Running' : y \notin k.over => run'[y].start > k.key[2]
  BY <1>1, PruneRuns
<1>4. ~Mixed(k)' => ~Mixed(k)
  <2>1. SUFFICES ASSUME ~Mixed(k)', NEW y \in k.over, run[y].wrote PROVE FALSE
    BY DEF Mixed
  <2>2. ~k.doubt /\ ~run'[y].wrote
    BY <2>1 DEF Mixed
  <2> QED
    BY <2>1, <2>2, <1>1, PruneRuns
<1>5. \A j \in Of(IndexedServers)' : j \in Of(IndexedServers) /\ held'[j] = held[j]
  <2>1. \A j \in ItemIds : held'[j] # 0 => held'[j] = held[j]
    BY PruneRuns
  <2> QED
    BY <2>1, <1>2 DEF Of, Held
<1>6. k.key[2] <= clock' /\ (~k.doubt => k.over \subseteq Running')
  BY <1>1, <1>2, PruneRuns
<1> QED
  BY <1>3, <1>4, <1>5, <1>6, SoundStays

\* A run is over.
Ends(x) ==
    /\ x \in Running
    /\ run' = [run EXCEPT ![x] = NoRun]
    /\ UNCHANGED <<held, included, clock, switches>>

LEMMA EndRuns ==
    ASSUME Bounds, CacheTypeOK, NEW x \in IndexedServers, Ends(x)
    PROVE  /\ x \in Running /\ Running' = Running \ {x}
           /\ run' \in [IndexedServers -> RunRecord \cup {NoRun}]
           /\ \A y \in Running' : run'[y] = run[y]
<1>1. run \in [IndexedServers -> RunRecord \cup {NoRun}]
  BY DEF CacheTypeOK, RunRecord
<1>2. x \in Running /\ run' = [run EXCEPT ![x] = NoRun]
  BY DEF Ends
<1>3. run'[x] = NoRun /\ \A y \in IndexedServers : y # x => run'[y] = run[y]
  BY <1>1, <1>2
<1>4. Running' = Running \ {x}
  <2>1. \A y \in IndexedServers : run'[y] # NoRun <=> (run[y] # NoRun /\ y # x)
    BY <1>3
  <2> QED
    BY <2>1 DEF Running
<1>5. run' \in [IndexedServers -> RunRecord \cup {NoRun}]
  BY <1>1, <1>2
<1>6. \A y \in Running' : run'[y] = run[y]
  BY <1>3, <1>4 DEF Running
<1> QED
  BY <1>2, <1>4, <1>5, <1>6

\* It goes out of what was read beside it, or leaves it in doubt.
LEMMA EndedFacts ==
    ASSUME Bounds, CacheTypeOK, NEW x \in IndexedServers, NEW k \in Claims
    PROVE  LET d == Ended(x, k) IN
           /\ d \in Claims /\ d.key = k.key /\ d.rows = k.rows
           /\ k \in Entries => d \in Entries
           /\ k \in ComparerRecord => d \in ComparerRecord /\ d.pc = k.pc
           /\ ~d.doubt => ~k.doubt /\ d.over = k.over \ {x} /\ (x \in k.over => ~run[x].wrote)
           /\ k.over \ {x} \subseteq d.over
<1>1. k.over \in SUBSET IndexedServers
  BY ClaimFacts
<1>2. CASE x \notin k.over
  <2>1. Ended(x, k) = k
    BY <1>2 DEF Ended
  <2> QED
    BY <2>1, <1>2
<1>3. CASE x \in k.over /\ run[x].wrote
  <2>1. Ended(x, k) = [k EXCEPT !.doubt = TRUE]
    BY <1>3 DEF Ended
  <2> HIDE DEF Claims
  <2> QED
    BY <2>1, MarkedFacts
<1>4. CASE x \in k.over /\ ~run[x].wrote
  <2>1. Ended(x, k) = [k EXCEPT !.over = k.over \ {x}]
    BY <1>4 DEF Ended
  <2>2. k.over \ {x} \in SUBSET IndexedServers
    BY <1>1
  <2> HIDE DEF Claims
  <2> QED
    BY <2>1, <2>2, <1>4, OverFacts
<1> QED
  BY <1>2, <1>3, <1>4

LEMMA EndSound ==
    ASSUME Bounds, CacheTypeOK, NEW x \in IndexedServers, Ends(x),
           NEW k \in Claims, Sound(k), NEW d, d = Ended(x, k)
    PROVE  Sound(d)'
<1>1. k.key[2] <= clock /\ (~k.doubt => k.over \subseteq Running)
      /\ \A y \in Running : y \notin k.over => run[y].start > k.key[2]
  BY DEF Sound
<1>2. /\ d.key = k.key /\ d.rows = k.rows
      /\ ~d.doubt => ~k.doubt /\ d.over = k.over \ {x} /\ (x \in k.over => ~run[x].wrote)
      /\ k.over \ {x} \subseteq d.over
  BY EndedFacts
<1>3. /\ x \in Running /\ Running' = Running \ {x}
      /\ \A y \in Running' : run'[y] = run[y]
  BY EndRuns
<1>4. UNCHANGED <<held, included, clock>>
  BY DEF Ends
<1>5. \A y \in Running' : y \notin d.over => run'[y].start > d.key[2]
  BY <1>1, <1>2, <1>3
<1>6. ~d.doubt => d.over \subseteq Running'
  BY <1>1, <1>2, <1>3
<1>7. ~Mixed(d)' => ~Mixed(k)
  <2>1. SUFFICES ASSUME ~Mixed(d)', NEW y \in k.over, run[y].wrote PROVE FALSE
    BY <1>2 DEF Mixed
  <2>2. ~d.doubt /\ \A z \in d.over : ~run'[z].wrote
    BY <2>1 DEF Mixed
  <2>3. y # x /\ y \in d.over
    BY <2>1, <2>2, <1>2
  <2> QED
    BY <2>1, <2>2, <2>3, <1>6, <1>3
<1>8. Of(IndexedServers)' = Of(IndexedServers) /\ held' = held
  BY <1>4 DEF Of, Held
<1>9. d.key[2] <= clock'
  BY <1>1, <1>2, <1>4
<1> QED
  BY <1>2, <1>5, <1>6, <1>7, <1>8, <1>9, SoundStays

\* Switching a library leaves everything in doubt.
LEMMA ToggleSound ==
    ASSUME Bounds, CacheTypeOK, NEW x, Toggle(x),
           NEW k \in Claims, Sound(k), NEW d, d = [k EXCEPT !.doubt = TRUE]
    PROVE  Sound(d)'
<1>1. d.key = k.key /\ d.rows = k.rows /\ d.over = k.over /\ d.doubt
  BY MarkedFacts
<1>2. run' = run /\ clock' = clock /\ Running' = Running
  BY DEF Toggle, Running
<1>3. k.key[2] <= clock /\ \A y \in Running : y \notin k.over => run[y].start > k.key[2]
  BY DEF Sound
<1>4. Mixed(d)'
  BY <1>1 DEF Mixed
<1> QED
  BY <1>1, <1>2, <1>3, <1>4 DEF Sound

\* Dropping one leaves no row that was not there.
LEMMA DropHeld ==
    ASSUME Bounds, CacheTypeOK, NEW x, Drop(x)
    PROVE  /\ held' \in [ItemIds -> 0..MaxRuns]
           /\ \A j \in ItemIds : held'[j] # 0 => held'[j] = held[j]
<1>1. held \in [ItemIds -> 0..MaxRuns] /\ 0 \in 0..MaxRuns
  BY DEF CacheTypeOK, Bounds
<1>2. held' = [i \in ItemIds |-> IF ServerOfItem[i] = x THEN 0 ELSE held[i]]
  BY DEF Drop
<1> QED
  BY <1>1, <1>2

LEMMA DropSound ==
    ASSUME Bounds, CacheTypeOK, NEW x, Drop(x), NEW k \in Claims, Sound(k)
    PROVE  Sound(k)'
<1>1. run' = run /\ clock' = clock /\ Running' = Running /\ included' = included
  BY DEF Drop, Running
<1>2. \A j \in Of(IndexedServers)' : j \in Of(IndexedServers) /\ held'[j] = held[j]
  BY <1>1, DropHeld DEF Of, Held
<1>3. Mixed(k)' <=> Mixed(k)
  BY <1>1 DEF Mixed
<1>4. /\ k.key[2] <= clock' /\ (~k.doubt => k.over \subseteq Running')
      /\ \A y \in Running' : y \notin k.over => run'[y].start > k.key[2]
  BY <1>1 DEF Sound
<1> QED
  BY <1>2, <1>3, <1>4, SoundStays

\* A step of a comparison changes nothing of this.
LEMMA StillSound ==
    ASSUME UNCHANGED <<held, included, run, clock>>, NEW k, Sound(k)
    PROVE  Sound(k)'
BY DEF Sound, Mixed, Running, Of, Held

-----------------------------------------------------------------------------
(***************************************************************************)
(* What a step of the index leaves of what is being read.                  *)
(***************************************************************************)
LEMMA SameRows ==
    ASSUME UNCHANGED <<held, included>>, NEW S
    PROVE  RowsIn(S)' = RowsIn(S)
BY DEF RowsIn, Of, Held

LEMMA BeginRead ==
    ASSUME Bounds, CacheTypeOK, Clocked, NEW x \in IndexedServers, RunBegins(x),
           NEW k \in ComparerRecord, ReadSound(k), NEW d, d = [k EXCEPT !.over = @ \cup {x}]
    PROVE  ReadSound(d)'
<1>1. /\ Running \subseteq k.over
      /\ ~k.doubt => k.over \subseteq Running
      /\ ~Mixed(k) => /\ k.pc = "sources" => k.rows = RowsIn({Target})
                      /\ k.pc = "fingerprint" => k.rows = RowsIn(IndexedServers)
  BY DEF ReadSound
<1>2. d.over = k.over \cup {x} /\ d.doubt = k.doubt /\ d.rows = k.rows /\ d.pc = k.pc
  BY DEF ComparerRecord
<1>3. /\ Running' = Running \cup {x} /\ x \notin Running
      /\ \A y \in Running : run'[y] = run[y]
  BY BeginRuns
<1>4. ~Mixed(d)' => ~Mixed(k)
  <2>1. SUFFICES ASSUME ~Mixed(d)', NEW y \in k.over, run[y].wrote PROVE FALSE
    BY <1>2 DEF Mixed
  <2>2. ~k.doubt /\ ~run'[y].wrote
    BY <2>1, <1>2 DEF Mixed
  <2> QED
    BY <2>1, <2>2, <1>1, <1>3
<1>5. \A S : RowsIn(S)' = RowsIn(S)
  BY SameRows DEF RunBegins
<1>6. RowsIn({Target})' = RowsIn({Target}) /\ RowsIn(IndexedServers)' = RowsIn(IndexedServers)
  BY <1>5
<1> QED
  BY <1>1, <1>2, <1>3, <1>4, <1>6 DEF ReadSound

\* Whoever writes is overlapped by everything that is being read.
LEMMA WriteRead ==
    ASSUME Bounds, CacheTypeOK, NEW i \in ItemIds, Write(i), NEW k \in ComparerRecord, ReadSound(k)
    PROVE  ReadSound(k)'
<1> DEFINE x == ServerOfItem[i]
<1>1. x \in Running /\ Running' = Running /\ run'[x].wrote
  BY WriteRuns
<1> HIDE DEF x
<1>2. Running \subseteq k.over /\ (~k.doubt => k.over \subseteq Running)
  BY DEF ReadSound
<1>3. Mixed(k)'
  BY <1>1, <1>2 DEF Mixed
<1> QED
  BY <1>1, <1>2, <1>3 DEF ReadSound

LEMMA PruneRead ==
    ASSUME Bounds, CacheTypeOK, NEW x \in IndexedServers, Prune(x),
           NEW k \in ComparerRecord, ReadSound(k)
    PROVE  ReadSound(k)'
<1>1. /\ x \in Running /\ Running' = Running
      /\ \A y \in Running : run[y].wrote => run'[y].wrote
      /\ ~run'[x].wrote => held' = held
  BY PruneRuns
<1>2. /\ Running \subseteq k.over /\ (~k.doubt => k.over \subseteq Running)
      /\ ~Mixed(k) => /\ k.pc = "sources" => k.rows = RowsIn({Target})
                      /\ k.pc = "fingerprint" => k.rows = RowsIn(IndexedServers)
  BY DEF ReadSound
<1>3. ~Mixed(k)' => ~Mixed(k) /\ ~run'[x].wrote
  <2>1. SUFFICES ASSUME ~Mixed(k)' PROVE ~Mixed(k) /\ ~run'[x].wrote
    OBVIOUS
  <2>2. ~k.doubt /\ \A y \in k.over : ~run'[y].wrote
    BY <2>1 DEF Mixed
  <2>3. x \in k.over /\ \A y \in k.over : ~run[y].wrote
    BY <2>2, <1>1, <1>2
  <2> QED
    BY <2>2, <2>3 DEF Mixed
<1>4. held' = held => /\ RowsIn({Target})' = RowsIn({Target})
                      /\ RowsIn(IndexedServers)' = RowsIn(IndexedServers)
  <2>1. SUFFICES ASSUME held' = held PROVE \A S : RowsIn(S)' = RowsIn(S)
    OBVIOUS
  <2>2. UNCHANGED <<held, included>>
    BY <2>1 DEF Prune
  <2> QED
    BY <2>2, SameRows
<1> QED
  BY <1>1, <1>2, <1>3, <1>4 DEF ReadSound

LEMMA EndRead ==
    ASSUME Bounds, CacheTypeOK, NEW x \in IndexedServers, Ends(x),
           NEW k \in ComparerRecord, ReadSound(k), NEW d, d = Ended(x, k)
    PROVE  ReadSound(d)'
<1>1. /\ Running \subseteq k.over /\ (~k.doubt => k.over \subseteq Running)
      /\ ~Mixed(k) => /\ k.pc = "sources" => k.rows = RowsIn({Target})
                      /\ k.pc = "fingerprint" => k.rows = RowsIn(IndexedServers)
  BY DEF ReadSound
<1>2. /\ d.rows = k.rows /\ d.pc = k.pc
      /\ ~d.doubt => ~k.doubt /\ d.over = k.over \ {x} /\ (x \in k.over => ~run[x].wrote)
      /\ k.over \ {x} \subseteq d.over
  BY EndedFacts DEF Claims
<1>3. /\ x \in Running /\ Running' = Running \ {x}
      /\ \A y \in Running' : run'[y] = run[y]
  BY EndRuns
<1>4. Running' \subseteq d.over /\ (~d.doubt => d.over \subseteq Running')
  BY <1>1, <1>2, <1>3
<1>5. ~Mixed(d)' => ~Mixed(k)
  <2>1. SUFFICES ASSUME ~Mixed(d)', NEW y \in k.over, run[y].wrote PROVE FALSE
    BY <1>2 DEF Mixed
  <2>2. ~d.doubt /\ \A z \in d.over : ~run'[z].wrote
    BY <2>1 DEF Mixed
  <2>3. y # x /\ y \in d.over
    BY <2>1, <2>2, <1>2
  <2> QED
    BY <2>1, <2>2, <2>3, <1>4, <1>3
<1>6. UNCHANGED <<held, included>>
  BY DEF Ends
<1>7. RowsIn({Target})' = RowsIn({Target}) /\ RowsIn(IndexedServers)' = RowsIn(IndexedServers)
  <2>1. \A S : RowsIn(S)' = RowsIn(S)
    BY <1>6, SameRows
  <2> QED
    BY <2>1
<1> QED
  BY <1>1, <1>2, <1>4, <1>5, <1>7 DEF ReadSound

\* What is in doubt need not say anything.
LEMMA DoubtedRead ==
    ASSUME Bounds, CacheTypeOK, UNCHANGED run, NEW k \in ComparerRecord, ReadSound(k),
           NEW d, d = [k EXCEPT !.doubt = TRUE]
    PROVE  ReadSound(d)'
<1>1. d.over = k.over /\ d.doubt
  BY MarkedFacts DEF Claims
<1>2. Running' = Running
  BY DEF Running
<1>3. Mixed(d)'
  BY <1>1 DEF Mixed
<1> QED
  BY <1>1, <1>2, <1>3 DEF ReadSound

LEMMA StillRead ==
    ASSUME UNCHANGED <<held, included, run>>, NEW k, ReadSound(k)
    PROVE  ReadSound(k)'
<1>1. Running' = Running /\ (Mixed(k)' <=> Mixed(k))
  BY DEF Running, Mixed
<1>2. RowsIn({Target})' = RowsIn({Target}) /\ RowsIn(IndexedServers)' = RowsIn(IndexedServers)
  <2>1. \A S : RowsIn(S)' = RowsIn(S)
    BY SameRows
  <2> QED
    BY <2>1
<1> QED
  BY <1>1, <1>2 DEF ReadSound

\* Both at once.
LEMMA StillConsistent ==
    ASSUME UNCHANGED <<held, included, run, clock>>, NEW k, Consistent(k)
    PROVE  Consistent(k)'
BY StillSound, StillRead DEF Consistent

-----------------------------------------------------------------------------
(***************************************************************************)
(* The invariant.                                                          *)
(***************************************************************************)
LEMMA InvFacts ==
    ASSUME Bounds, CacheInv
    PROVE  /\ CacheTypeOK /\ Clocked
           /\ \A n \in DOMAIN cache : cache[n] \in Entries /\ cache[n] \in Claims /\ Sound(cache[n])
           /\ \A c \in Comparers : /\ comparer[c] \in ComparerRecord /\ comparer[c] \in Claims
                                   /\ Consistent(comparer[c])
<1>1. \A n \in DOMAIN cache : cache[n] \in Entries
  <2>1. cache \in Seq(Entries)
    BY DEF CacheInv, CacheTypeOK
  <2> HIDE DEF Entries
  <2> QED
    BY <2>1
<1>2. \A c \in Comparers : comparer[c] \in ComparerRecord
  BY DEF CacheInv, CacheTypeOK, ComparerRecord
<1> QED
  BY <1>1, <1>2 DEF CacheInv, Claims

LEMMA InitInv == Bounds /\ CacheInit => CacheInv
<1> SUFFICES ASSUME Bounds, CacheInit PROVE CacheInv
  OBVIOUS
<1>1. MaxRuns \in Nat /\ MaxSwitches \in Nat /\ MaxEntries \in Nat /\ Cardinality(ItemIds) \in Nat
  BY FS_CardinalityType DEF Bounds
<1>2. <<0, 0>> \in Keys /\ {} \in AllRows
  BY <1>1 DEF Keys, AllRows
<1>3. IdleComparer \in ComparerRecord
  BY <1>2 DEF IdleComparer, ComparerRecord
<1>4. Running = {}
  BY DEF CacheInit, Running
<1>5. CacheTypeOK
  <2> HIDE DEF Entries, Keys, AllRows, IndexedServers, IdleComparer
  <2>1. cache \in Seq(Entries) /\ Len(cache) <= MaxEntries
    BY <1>1 DEF CacheInit
  <2>2. comparer \in [Comparers -> ComparerRecord]
    BY <1>3 DEF CacheInit
  <2> QED
    BY <2>1, <2>2, <1>1 DEF CacheInit, CacheTypeOK, ComparerRecord
<1>6. Clocked
  BY <1>4, <1>1 DEF CacheInit, Clocked
<1>7. \A c \in Comparers : Consistent(comparer[c])
  BY DEF CacheInit, Consistent, IdleComparer
<1>8. \A n \in DOMAIN cache : Sound(cache[n])
  BY DEF CacheInit
<1> QED
  BY <1>5, <1>6, <1>7, <1>8 DEF CacheInv

\* A step of the index, taken together: what it does to each entry and to each comparison.
LEMMA Together ==
    ASSUME Bounds, CacheInv,
           held' \in [ItemIds -> 0..MaxRuns], included' \in SUBSET IndexedServers,
           run' \in [IndexedServers -> RunRecord \cup {NoRun}],
           clock' \in 0..MaxRuns, switches' \in 0..MaxSwitches, Clocked',
           DOMAIN comparer' = Comparers, comparer' = [c \in Comparers |-> comparer'[c]],
           \A c \in Comparers : comparer'[c] \in ComparerRecord /\ Consistent(comparer[c])',
           cache' = <<>> \/ /\ cache' = [n \in DOMAIN cache |-> cache'[n]]
                            /\ \A n \in DOMAIN cache : cache'[n] \in Entries /\ Sound(cache[n])'
    PROVE  CacheInv'
<1> USE DEF Bounds
<1> HIDE DEF Entries, ComparerRecord, RunRecord, IndexedServers
<1>1. cache \in Seq(Entries) /\ Len(cache) <= MaxEntries /\ MaxEntries \in Nat
  BY DEF CacheInv, CacheTypeOK
<1>2. /\ cache' \in Seq(Entries)
      /\ Len(cache') <= MaxEntries
      /\ \A n \in DOMAIN cache' : Sound(cache[n])'
  <2>1. CASE cache' = <<>>
    BY <2>1, <1>1
  <2>2. CASE /\ cache' = [n \in DOMAIN cache |-> cache'[n]]
             /\ \A n \in DOMAIN cache : cache'[n] \in Entries /\ Sound(cache[n])'
    <3>1. DOMAIN cache = 1..Len(cache) /\ Len(cache) \in Nat
      BY <1>1
    <3>2. cache' \in [1..Len(cache) -> Entries]
      BY <3>1, <2>2
    <3>3. cache' \in Seq(Entries) /\ Len(cache') = Len(cache)
      BY <3>1, <3>2
    <3> QED
      BY <3>1, <3>2, <3>3, <2>2, <1>1
  <2> QED
    BY <2>1, <2>2
<1>3. comparer' \in [Comparers -> ComparerRecord]
  OBVIOUS
<1>4. CacheTypeOK'
  BY <1>2, <1>3 DEF CacheTypeOK, RunRecord, ComparerRecord
<1> QED
  BY <1>2, <1>4 DEF CacheInv

LEMMA ClockedStays ==
    ASSUME Bounds, CacheTypeOK, Clocked, clock' \in 0..MaxRuns, clock' >= clock,
           \A i \in ItemIds : held'[i] = 0 \/ held'[i] = held[i]
                            \/ \E x \in Running : held'[i] = run[x].start,
           \A x \in Running' : \/ x \in Running /\ run'[x].start = run[x].start
                              \/ run'[x].start <= clock'
    PROVE  Clocked'
<1>1. clock \in Nat /\ clock' \in Nat /\ \A x \in Running : run[x].start \in Nat
  BY RunFacts DEF CacheTypeOK, Bounds
<1>2. \A i \in ItemIds : held[i] \in Nat
  BY DEF CacheTypeOK, Bounds
<1>3. ASSUME NEW i \in ItemIds PROVE held'[i] <= clock'
  <2>1. held'[i] \in Nat /\ held'[i] <= clock
    <3>1. CASE held'[i] = 0
      BY <3>1, <1>1
    <3>2. CASE held'[i] = held[i]
      BY <3>2, <1>2 DEF Clocked
    <3>3. CASE \E x \in Running : held'[i] = run[x].start
      BY <3>3, <1>1 DEF Clocked
    <3> QED
      BY <3>1, <3>2, <3>3
  <2> QED
    BY <2>1, <1>1
<1>4. ASSUME NEW x \in Running' PROVE run'[x].start <= clock'
  <2>1. CASE x \in Running /\ run'[x].start = run[x].start
    <3>1. run[x].start \in Nat /\ run[x].start <= clock
      BY <2>1, <1>1 DEF Clocked
    <3> QED
      BY <3>1, <2>1, <1>1
  <2>2. CASE run'[x].start <= clock'
    BY <2>2
  <2> QED
    BY <2>1, <2>2, <1>4
<1> QED
  BY <1>3, <1>4 DEF Clocked

LEMMA BeginInv ==
    ASSUME Bounds, CacheInv, NEW x \in IndexedServers, RunBegins(x)
    PROVE  CacheInv'
<1>1. CacheTypeOK /\ Clocked
  BY DEF CacheInv
<1>2. UNCHANGED <<held, included, switches, cache>>
  BY DEF RunBegins
<1>3. /\ held' \in [ItemIds -> 0..MaxRuns] /\ included' \in SUBSET IndexedServers
      /\ switches' \in 0..MaxSwitches
  BY <1>1, <1>2 DEF CacheTypeOK
<1>4. /\ run' \in [IndexedServers -> RunRecord \cup {NoRun}] /\ clock' \in 0..MaxRuns
      /\ Running' = Running \cup {x} /\ \A y \in Running : run'[y] = run[y]
      /\ run'[x].start = clock + 1 /\ clock' = clock + 1 /\ clock \in Nat
  BY <1>1, BeginRuns
<1>5. Clocked'
  <2>1. \A y \in Running' : \/ y \in Running /\ run'[y].start = run[y].start
                           \/ run'[y].start <= clock'
    BY <1>4
  <2> QED
    BY <1>1, <1>2, <1>4, <2>1, ClockedStays
<1>6. /\ DOMAIN comparer' = Comparers
      /\ \A c \in Comparers : comparer'[c] = IF Reading(c)
           THEN [comparer[c] EXCEPT !.over = @ \cup {x}] ELSE comparer[c]
      /\ comparer' = [c \in Comparers |-> comparer'[c]]
  BY DEF RunBegins
<1>7. ASSUME NEW c \in Comparers
      PROVE  comparer'[c] \in ComparerRecord /\ Consistent(comparer[c])'
  <2> DEFINE k == comparer[c]
  <2>1. k \in ComparerRecord /\ k \in Claims /\ Consistent(k)
    BY InvFacts
  <2>2. k.over \in SUBSET IndexedServers
    BY <2>1, ClaimFacts
  <2>3. CASE Reading(c)
    <3>1. PICK r : r = k
      OBVIOUS
    <3>2. PICK d : d = [r EXCEPT !.over = @ \cup {x}]
      OBVIOUS
    <3>3. r \in ComparerRecord /\ r \in Claims /\ ReadSound(r)
          /\ r.pc \in {"target", "sources", "fingerprint"}
      BY <3>1, <2>1, <2>3 DEF Consistent, Reading
    <3>4. d \in ComparerRecord /\ d.pc = r.pc
      <4>1. r.over \cup {x} \in SUBSET IndexedServers
        BY <2>2, <3>1
      <4> QED
        BY <3>2, <3>3, <4>1, OverFacts
    <3>5. ReadSound(d)'
      BY <3>2, <3>3, <1>1, BeginRead
    <3>6. Consistent(d)'
      BY <3>3, <3>4, <3>5 DEF Consistent
    <3>7. comparer'[c] = d
      BY <3>1, <3>2, <2>3, <1>6
    <3> QED
      BY <3>4, <3>6, <3>7
  <2>4. CASE ~Reading(c)
    <3>1. PICK r : r = k
      OBVIOUS
    <3>2. comparer'[c] = r
      BY <3>1, <2>4, <1>6
    <3>3. r.pc \notin {"target", "sources", "fingerprint"}
      BY <3>1, <2>4 DEF Reading
    <3>4. Consistent(r)'
      <4>1. r.pc = "diff" => Sound(r)'
        BY <3>1, <2>1, <1>1, BeginSound DEF Consistent
      <4> QED
        BY <4>1, <3>3 DEF Consistent
    <3> QED
      BY <3>1, <3>2, <3>4, <2>1
  <2> QED
    BY <2>3, <2>4
<1>8. ASSUME NEW n \in DOMAIN cache PROVE cache'[n] \in Entries /\ Sound(cache[n])'
  <2>1. PICK r : r = cache[n]
    OBVIOUS
  <2>2. r \in Entries /\ r \in Claims /\ Sound(r)
    BY <2>1, InvFacts
  <2>3. Sound(r)'
    BY <2>2, <1>1, BeginSound
  <2>4. cache'[n] = r
    BY <2>1, <1>2
  <2> QED
    BY <2>2, <2>3, <2>4
<1>9. cache' = [n \in DOMAIN cache |-> cache'[n]]
  <2>1. cache \in Seq(Entries)
    BY <1>1 DEF CacheTypeOK
  <2> HIDE DEF Entries
  <2> QED
    BY <2>1, <1>2
<1> HIDE DEF ComparerRecord, RunRecord, Entries
<1> QED
  BY <1>3, <1>4, <1>5, <1>6, <1>7, <1>8, <1>9, Together

\* A step of the index that leaves the cache and the comparisons alone.
LEMMA Apart ==
    ASSUME Bounds, CacheInv, UNCHANGED <<included, clock, switches, cache, comparer>>,
           held' \in [ItemIds -> 0..MaxRuns], run' \in [IndexedServers -> RunRecord \cup {NoRun}],
           Clocked',
           \A r \in Claims : Sound(r) => Sound(r)',
           \A r \in ComparerRecord : ReadSound(r) => ReadSound(r)'
    PROVE  CacheInv'
<1>1. CacheTypeOK
  BY DEF CacheInv
<1>2. /\ included' \in SUBSET IndexedServers /\ switches' \in 0..MaxSwitches
      /\ clock' \in 0..MaxRuns
  BY <1>1 DEF CacheTypeOK
<1>3. comparer' = [c \in Comparers |-> comparer'[c]] /\ DOMAIN comparer' = Comparers
  BY <1>1 DEF CacheTypeOK
<1>4. ASSUME NEW c \in Comparers
      PROVE  comparer'[c] \in ComparerRecord /\ Consistent(comparer[c])'
  <2>1. PICK r : r = comparer[c]
    OBVIOUS
  <2>2. r \in ComparerRecord /\ r \in Claims /\ Consistent(r)
    BY <2>1, InvFacts
  <2>3. Consistent(r)'
    BY <2>2 DEF Consistent
  <2>4. comparer'[c] = r
    BY <2>1
  <2> QED
    BY <2>2, <2>3, <2>4
<1>5. ASSUME NEW n \in DOMAIN cache PROVE cache'[n] \in Entries /\ Sound(cache[n])'
  <2>1. PICK r : r = cache[n]
    OBVIOUS
  <2>2. r \in Entries /\ r \in Claims /\ Sound(r)
    BY <2>1, InvFacts
  <2>3. cache'[n] = r /\ Sound(r)'
    BY <2>1, <2>2
  <2> QED
    BY <2>2, <2>3
<1>6. cache' = [n \in DOMAIN cache |-> cache'[n]]
  <2>1. cache \in Seq(Entries)
    BY <1>1 DEF CacheTypeOK
  <2> HIDE DEF Entries
  <2> QED
    BY <2>1
<1> HIDE DEF ComparerRecord, RunRecord, Entries
<1> QED
  BY <1>2, <1>3, <1>4, <1>5, <1>6, Together

LEMMA WriteInv ==
    ASSUME Bounds, CacheInv, NEW i \in ItemIds, Write(i)
    PROVE  CacheInv'
<1>1. CacheTypeOK /\ Clocked /\ UNCHANGED <<included, clock, switches, cache, comparer>>
  BY DEF CacheInv, Write
<1> DEFINE x == ServerOfItem[i]
<1>2. /\ x \in Running /\ Running' = Running
      /\ run' \in [IndexedServers -> RunRecord \cup {NoRun}]
      /\ \A y \in Running : run'[y].start = run[y].start
      /\ held' \in [ItemIds -> 0..MaxRuns]
      /\ held'[i] = run[x].start /\ \A j \in ItemIds : j # i => held'[j] = held[j]
  BY <1>1, WriteRuns
<1>3. clock' \in 0..MaxRuns /\ clock' >= clock
  BY <1>1 DEF CacheTypeOK, Bounds
<1> HIDE DEF x
<1>4. Clocked'
  <2>1. \A j \in ItemIds : held'[j] = held[j] \/ \E y \in Running : held'[j] = run[y].start
    BY <1>2
  <2> QED
    BY <1>1, <1>2, <1>3, <2>1, ClockedStays
<1>5. \A r \in Claims : Sound(r) => Sound(r)'
  BY <1>1, WriteSound
<1>6. \A r \in ComparerRecord : ReadSound(r) => ReadSound(r)'
  BY <1>1, WriteRead
<1> QED
  BY <1>1, <1>2, <1>4, <1>5, <1>6, Apart

LEMMA PruneInv ==
    ASSUME Bounds, CacheInv, NEW x \in IndexedServers, Prune(x)
    PROVE  CacheInv'
<1>1. CacheTypeOK /\ Clocked /\ UNCHANGED <<included, clock, switches, cache, comparer>>
  BY DEF CacheInv, Prune
<1>2. /\ Running' = Running
      /\ run' \in [IndexedServers -> RunRecord \cup {NoRun}]
      /\ \A y \in Running : run'[y].start = run[y].start
      /\ held' \in [ItemIds -> 0..MaxRuns]
      /\ \A j \in ItemIds : held'[j] = 0 \/ held'[j] = held[j]
  BY <1>1, PruneRuns
<1>3. clock' \in 0..MaxRuns /\ clock' >= clock
  BY <1>1 DEF CacheTypeOK, Bounds
<1>4. Clocked'
  BY <1>1, <1>2, <1>3, ClockedStays
<1>5. \A r \in Claims : Sound(r) => Sound(r)'
  BY <1>1, PruneSound
<1>6. \A r \in ComparerRecord : ReadSound(r) => ReadSound(r)'
  BY <1>1, PruneRead
<1> QED
  BY <1>1, <1>2, <1>4, <1>5, <1>6, Apart

\* A run that ends, whether it empties the cache or not.
LEMMA EndInv ==
    ASSUME Bounds, CacheInv, NEW x \in IndexedServers, Ends(x),
           cache' = <<>> \/ cache' = EntriesAfter(x), comparer' = ComparersAfter(x)
    PROVE  CacheInv'
<1>1. CacheTypeOK /\ Clocked /\ UNCHANGED <<held, included, clock, switches>>
  BY DEF CacheInv, Ends
<1>2. /\ Running' = Running \ {x} /\ run' \in [IndexedServers -> RunRecord \cup {NoRun}]
      /\ \A y \in Running' : run'[y] = run[y]
  BY <1>1, EndRuns
<1>3. /\ held' \in [ItemIds -> 0..MaxRuns] /\ included' \in SUBSET IndexedServers
      /\ switches' \in 0..MaxSwitches /\ clock' \in 0..MaxRuns /\ clock' >= clock
  BY <1>1 DEF CacheTypeOK, Bounds
<1>4. Clocked'
  <2>1. \A y \in Running' : y \in Running /\ run'[y].start = run[y].start
    BY <1>2
  <2> QED
    BY <1>1, <1>3, <2>1, ClockedStays
<1>5. ASSUME NEW c \in Comparers
      PROVE  comparer'[c] \in ComparerRecord /\ Consistent(comparer[c])'
  <2>1. PICK r : r = comparer[c]
    OBVIOUS
  <2>2. r \in ComparerRecord /\ r \in Claims /\ Consistent(r)
    BY <2>1, InvFacts
  <2>3. PICK d : d = Ended(x, r)
    OBVIOUS
  <2>4. d \in ComparerRecord /\ d.pc = r.pc
    BY <1>1, <2>2, <2>3, EndedFacts
  <2>5. r.pc \in {"target", "sources", "fingerprint"} => ReadSound(d)'
    BY <1>1, <2>2, <2>3, EndRead DEF Consistent
  <2>6. r.pc = "diff" => Sound(d)'
    BY <1>1, <2>2, <2>3, EndSound DEF Consistent
  <2>7. Consistent(d)'
    BY <2>4, <2>5, <2>6 DEF Consistent
  <2>8. comparer'[c] = d
    BY <2>1, <2>3 DEF ComparersAfter
  <2> QED
    BY <2>4, <2>7, <2>8
<1>6. DOMAIN comparer' = Comparers /\ comparer' = [c \in Comparers |-> comparer'[c]]
  BY DEF ComparersAfter
<1>7. cache' # <<>> => /\ cache' = [n \in DOMAIN cache |-> cache'[n]]
                       /\ \A n \in DOMAIN cache : cache'[n] \in Entries /\ Sound(cache[n])'
  <2>1. SUFFICES ASSUME cache' = EntriesAfter(x)
        PROVE  /\ cache' = [n \in DOMAIN cache |-> cache'[n]]
               /\ \A n \in DOMAIN cache : cache'[n] \in Entries /\ Sound(cache[n])'
    OBVIOUS
  <2>2. ASSUME NEW n \in DOMAIN cache PROVE cache'[n] \in Entries /\ Sound(cache[n])'
    <3>1. PICK r : r = cache[n]
      OBVIOUS
    <3>2. r \in Entries /\ r \in Claims /\ Sound(r)
      BY <3>1, InvFacts
    <3>3. PICK d : d = Ended(x, r)
      OBVIOUS
    <3>4. d \in Entries /\ Sound(d)'
      BY <1>1, <3>2, <3>3, EndedFacts, EndSound
    <3>5. cache'[n] = d
      BY <2>1, <3>1, <3>3 DEF EntriesAfter
    <3> QED
      BY <3>4, <3>5
  <2>3. cache' = [n \in DOMAIN cache |-> cache'[n]]
    BY <2>1 DEF EntriesAfter
  <2> QED
    BY <2>2, <2>3
<1> HIDE DEF ComparerRecord, RunRecord, Entries
<1> QED
  BY <1>2, <1>3, <1>4, <1>5, <1>6, <1>7, Together

LEMMA CompleteInv ==
    ASSUME Bounds, CacheInv, NEW x \in IndexedServers, Complete(x) \/ RunFails(x)
    PROVE  CacheInv'
<1>1. Ends(x) /\ comparer' = ComparersAfter(x)
  BY DEF Ends, Complete, RunFails
<1>2. cache' = <<>> \/ cache' = EntriesAfter(x)
  BY DEF Complete, RunFails, Invalidate
<1> QED
  BY <1>1, <1>2, EndInv

LEMMA ToggleInv ==
    ASSUME Bounds, CacheInv, NEW x \in IndexedServers, Toggle(x)
    PROVE  CacheInv'
<1>1. CacheTypeOK /\ Clocked /\ UNCHANGED <<held, run, clock>>
  BY DEF CacheInv, Toggle
<1>2. /\ held' \in [ItemIds -> 0..MaxRuns] /\ clock' \in 0..MaxRuns
      /\ run' \in [IndexedServers -> RunRecord \cup {NoRun}]
  BY <1>1 DEF CacheTypeOK, RunRecord
<1>3. included' \in SUBSET IndexedServers
  BY <1>1 DEF Toggle, CacheTypeOK
<1>4. switches' \in 0..MaxSwitches
  BY <1>1 DEF Toggle, CacheTypeOK, Bounds
<1>5. Clocked'
  BY <1>1 DEF Clocked, Running
<1>6. /\ comparer' = [c \in Comparers |-> comparer'[c]] /\ DOMAIN comparer' = Comparers
      /\ \A c \in Comparers : comparer'[c] = IF comparer[c].pc # "idle"
           THEN [comparer[c] EXCEPT !.doubt = TRUE] ELSE comparer[c]
  BY DEF Toggle
<1>7. ASSUME NEW c \in Comparers
      PROVE  comparer'[c] \in ComparerRecord /\ Consistent(comparer[c])'
  <2>1. PICK r : r = comparer[c]
    OBVIOUS
  <2>2. r \in ComparerRecord /\ r \in Claims /\ Consistent(r)
    BY <2>1, InvFacts
  <2>3. PICK d : d = [r EXCEPT !.doubt = TRUE]
    OBVIOUS
  <2>4. CASE r.pc # "idle"
    <3>1. comparer'[c] = d
      BY <2>1, <2>3, <2>4, <1>6
    <3>2. d \in ComparerRecord /\ d.pc = r.pc
      BY <2>2, <2>3, MarkedFacts
    <3>3. r.pc \in {"target", "sources", "fingerprint"} => ReadSound(d)'
      BY <1>1, <2>2, <2>3, DoubtedRead DEF Consistent
    <3>4. r.pc = "diff" => Sound(d)'
      BY <1>1, <2>2, <2>3, ToggleSound DEF Consistent
    <3>5. Consistent(d)'
      BY <3>2, <3>3, <3>4 DEF Consistent
    <3> QED
      BY <3>1, <3>2, <3>5
  <2>5. CASE r.pc = "idle"
    <3>1. comparer'[c] = r
      BY <2>1, <2>5, <1>6
    <3>2. Consistent(r)'
      BY <2>5 DEF Consistent
    <3> QED
      BY <3>1, <3>2, <2>2
  <2> QED
    BY <2>4, <2>5
<1>8. ASSUME NEW n \in DOMAIN cache PROVE cache'[n] \in Entries /\ Sound(cache[n])'
  <2>1. PICK r : r = cache[n]
    OBVIOUS
  <2>2. r \in Entries /\ r \in Claims /\ Sound(r)
    BY <2>1, InvFacts
  <2>3. PICK d : d = [r EXCEPT !.doubt = TRUE]
    OBVIOUS
  <2>4. d \in Entries /\ Sound(d)'
    BY <1>1, <2>2, <2>3, MarkedFacts, ToggleSound
  <2>5. cache'[n] = d
    BY <2>1, <2>3 DEF Toggle
  <2> QED
    BY <2>4, <2>5
<1>9. cache' = [n \in DOMAIN cache |-> cache'[n]]
  BY DEF Toggle
<1> HIDE DEF ComparerRecord, RunRecord, Entries
<1> QED
  BY <1>2, <1>3, <1>4, <1>5, <1>6, <1>7, <1>8, <1>9, Together

LEMMA DropInv ==
    ASSUME Bounds, CacheInv, NEW x \in IndexedServers, Drop(x)
    PROVE  CacheInv'
<1>1. CacheTypeOK /\ Clocked /\ UNCHANGED <<included, run, clock, cache>>
  BY DEF CacheInv, Drop
<1>2. /\ included' \in SUBSET IndexedServers /\ clock' \in 0..MaxRuns /\ clock' >= clock
      /\ run' \in [IndexedServers -> RunRecord \cup {NoRun}] /\ Running' = Running
  BY <1>1 DEF CacheTypeOK, RunRecord, Running, Bounds
<1>3. held' \in [ItemIds -> 0..MaxRuns] /\ \A j \in ItemIds : held'[j] = 0 \/ held'[j] = held[j]
  BY <1>1, DropHeld
<1>4. switches' \in 0..MaxSwitches
  BY <1>1 DEF Drop, CacheTypeOK, Bounds
<1>5. Clocked'
  BY <1>1, <1>2, <1>3, ClockedStays
<1>6. /\ comparer' = [c \in Comparers |-> comparer'[c]] /\ DOMAIN comparer' = Comparers
      /\ \A c \in Comparers : comparer'[c] = IF Reading(c)
           THEN [comparer[c] EXCEPT !.doubt = TRUE] ELSE comparer[c]
  BY DEF Drop
<1>7. ASSUME NEW c \in Comparers
      PROVE  comparer'[c] \in ComparerRecord /\ Consistent(comparer[c])'
  <2>1. PICK r : r = comparer[c]
    OBVIOUS
  <2>2. r \in ComparerRecord /\ r \in Claims /\ Consistent(r)
    BY <2>1, InvFacts
  <2>3. PICK d : d = [r EXCEPT !.doubt = TRUE]
    OBVIOUS
  <2>4. CASE Reading(c)
    <3>1. comparer'[c] = d
      BY <2>1, <2>3, <2>4, <1>6
    <3>2. d \in ComparerRecord /\ d.pc = r.pc /\ d.pc \in {"target", "sources", "fingerprint"}
      BY <2>1, <2>2, <2>3, <2>4, MarkedFacts DEF Reading
    <3>3. ReadSound(d)'
      BY <1>1, <2>2, <2>3, <3>2, DoubtedRead DEF Consistent
    <3>4. Consistent(d)'
      BY <3>2, <3>3 DEF Consistent
    <3> QED
      BY <3>1, <3>2, <3>4
  <2>5. CASE ~Reading(c)
    <3>1. comparer'[c] = r /\ r.pc \notin {"target", "sources", "fingerprint"}
      BY <2>1, <2>5, <1>6 DEF Reading
    <3>2. r.pc = "diff" => Sound(r)'
      BY <1>1, <2>2, DropSound DEF Consistent
    <3>3. Consistent(r)'
      BY <3>1, <3>2 DEF Consistent
    <3> QED
      BY <3>1, <3>3, <2>2
  <2> QED
    BY <2>4, <2>5
<1>8. ASSUME NEW n \in DOMAIN cache PROVE cache'[n] \in Entries /\ Sound(cache[n])'
  <2>1. PICK r : r = cache[n]
    OBVIOUS
  <2>2. r \in Entries /\ r \in Claims /\ Sound(r)
    BY <2>1, InvFacts
  <2>3. cache'[n] = r /\ Sound(r)'
    BY <1>1, <2>1, <2>2, DropSound
  <2> QED
    BY <2>2, <2>3
<1>9. cache' = [n \in DOMAIN cache |-> cache'[n]]
  <2>1. cache \in Seq(Entries)
    BY <1>1 DEF CacheTypeOK
  <2> HIDE DEF Entries
  <2> QED
    BY <2>1, <1>1
<1> HIDE DEF ComparerRecord, RunRecord, Entries
<1> QED
  BY <1>2, <1>3, <1>4, <1>5, <1>6, <1>7, <1>8, <1>9, Together

-----------------------------------------------------------------------------
(***************************************************************************)
(* The steps of a comparison.                                              *)
(***************************************************************************)
LEMMA StepInv ==
    ASSUME Bounds, CacheInv, NEW c \in Comparers,
           UNCHANGED <<held, included, run, clock, switches>>,
           NEW d \in ComparerRecord, comparer' = [comparer EXCEPT ![c] = d], Consistent(d),
           cache' \in Seq(Entries), Len(cache') <= MaxEntries,
           NEW e,
           \A n \in DOMAIN cache' : cache'[n] = e \/ \E m \in DOMAIN cache : cache'[n] = cache[m],
           Sound(e) \/ cache' = cache
    PROVE  CacheInv'
<1>1. CacheTypeOK /\ Clocked
  BY DEF CacheInv
<1>2. comparer \in [Comparers -> ComparerRecord]
  BY <1>1 DEF CacheTypeOK, ComparerRecord
<1>3. comparer' \in [Comparers -> ComparerRecord]
  BY <1>2
<1>4. CacheTypeOK'
  <2> HIDE DEF Entries, Keys, AllRows, IndexedServers
  <2> QED
    BY <1>1, <1>3 DEF CacheTypeOK, ComparerRecord
<1>5. Clocked'
  BY <1>1 DEF Clocked, Running
<1>6. ASSUME NEW n \in DOMAIN cache' PROVE Sound(cache[n])'
  <2>1. PICK r : r = cache'[n]
    OBVIOUS
  <2>2. Sound(r)
    <3>1. CASE cache' = cache
      BY <2>1, <3>1, InvFacts
    <3>2. CASE Sound(e)
      BY <2>1, <3>2, InvFacts
    <3> QED
      BY <3>1, <3>2
  <2>3. Sound(r)'
    BY <2>2, StillSound
  <2> QED
    BY <2>1, <2>3
<1>7. ASSUME NEW b \in Comparers PROVE Consistent(comparer[b])'
  <2>1. PICK r : r = comparer'[b]
    OBVIOUS
  <2>2. Consistent(r)
    <3>1. CASE b = c
      BY <2>1, <3>1, <1>2
    <3>2. CASE b # c
      BY <2>1, <3>2, <1>2, InvFacts
    <3> QED
      BY <3>1, <3>2
  <2>3. Consistent(r)'
    BY <2>2, StillConsistent
  <2> QED
    BY <2>1, <2>3
<1> QED
  BY <1>4, <1>5, <1>6, <1>7 DEF CacheInv

\* One that leaves the cache alone.
LEMMA ReadInv ==
    ASSUME Bounds, CacheInv, NEW c \in Comparers,
           UNCHANGED <<held, included, run, clock, switches, cache>>,
           NEW d \in ComparerRecord, comparer' = [comparer EXCEPT ![c] = d], Consistent(d)
    PROVE  CacheInv'
<1>1. cache' \in Seq(Entries) /\ Len(cache') <= MaxEntries
  <2>1. cache \in Seq(Entries) /\ Len(cache) <= MaxEntries
    BY DEF CacheInv, CacheTypeOK
  <2> QED
    BY <2>1
<1>2. \A n \in DOMAIN cache' : cache'[n] = NoRun \/ \E m \in DOMAIN cache : cache'[n] = cache[m]
  OBVIOUS
<1> HIDE DEF Entries, ComparerRecord
<1> QED
  BY <1>1, <1>2, StepInv

LEMMA IdleFacts ==
    ASSUME Bounds PROVE IdleComparer \in ComparerRecord /\ Consistent(IdleComparer)
<1>1. MaxRuns \in Nat /\ Cardinality(ItemIds) \in Nat
  BY FS_CardinalityType DEF Bounds
<1>2. <<0, 0>> \in Keys /\ {} \in AllRows
  BY <1>1 DEF Keys, AllRows
<1> QED
  BY <1>2 DEF IdleComparer, ComparerRecord, Consistent

LEMMA CompareInv ==
    ASSUME Bounds, CacheInv, NEW c \in Comparers, CompareBegins(c)
    PROVE  CacheInv'
<1> DEFINE d == [IdleComparer EXCEPT !.pc = "target", !.over = Running]
<1>1. comparer' = [comparer EXCEPT ![c] = d]
      /\ UNCHANGED <<held, included, run, clock, switches, cache>>
  BY DEF CompareBegins
<1>2. d.pc = "target" /\ d.over = Running
  BY DEF IdleComparer
<1>3. d \in ComparerRecord
  <2>1. Running \in SUBSET IndexedServers
    BY DEF Running
  <2>2. IdleComparer \in ComparerRecord
    BY IdleFacts
  <2> HIDE DEF Keys, AllRows, IndexedServers, IdleComparer
  <2> QED
    BY <2>1, <2>2 DEF ComparerRecord
<1> HIDE DEF d
<1>4. Consistent(d)
  BY <1>2 DEF Consistent, ReadSound
<1> QED
  BY <1>1, <1>3, <1>4, ReadInv

LEMMA RowsTyped ==
    ASSUME Bounds, CacheTypeOK, NEW S
    PROVE  RowsIn(S) \in AllRows
<1>1. \A i \in Of(S) : i \in ItemIds /\ held[i] \in 0..MaxRuns /\ held[i] # 0
  BY DEF CacheTypeOK, Of, Held
<1>2. \A l \in 0..MaxRuns : l # 0 => l \in 1..MaxRuns
  BY DEF Bounds
<1> QED
  BY <1>1, <1>2 DEF RowsIn, AllRows

LEMMA LoadTargetInv ==
    ASSUME Bounds, CacheInv, NEW c \in Comparers, LoadTarget(c)
    PROVE  CacheInv'
<1> DEFINE k == comparer[c]
           d == [k EXCEPT !.pc = "sources", !.rows = RowsIn({Target})]
<1>1. k \in ComparerRecord /\ Consistent(k) /\ CacheTypeOK
      /\ comparer \in [Comparers -> ComparerRecord]
  BY InvFacts DEF CacheTypeOK, ComparerRecord
<1>2. comparer' = [comparer EXCEPT ![c] = d] /\ k.pc = "target"
      /\ UNCHANGED <<held, included, run, clock, switches, cache>>
  <2>1. comparer' = [comparer EXCEPT ![c].pc = "sources", ![c].rows = RowsIn({Target})]
    BY DEF LoadTarget
  <2> HIDE DEF ComparerRecord
  <2>2. comparer' = [comparer EXCEPT ![c] = d]
    BY <2>1, <1>1
  <2> QED
    BY <2>2 DEF LoadTarget
<1>3. ReadSound(k)
  BY <1>1, <1>2 DEF Consistent
<1>4. RowsIn({Target}) \in AllRows
  BY <1>1, RowsTyped
<1> HIDE DEF k
<1>5. d \in ComparerRecord /\ d.pc = "sources" /\ d.over = k.over /\ d.doubt = k.doubt
      /\ d.rows = RowsIn({Target})
  <2> HIDE DEF Keys, AllRows, IndexedServers
  <2> QED
    BY <1>1, <1>4 DEF ComparerRecord
<1> HIDE DEF d
<1>6. Consistent(d)
  BY <1>3, <1>5 DEF Consistent, ReadSound, Mixed
<1> QED
  BY <1>2, <1>5, <1>6, ReadInv

LEMMA LoadSourcesInv ==
    ASSUME Bounds, CacheInv, NEW c \in Comparers, LoadSources(c)
    PROVE  CacheInv'
<1> DEFINE k == comparer[c]
           rest == RowsIn(IndexedServers \ {Target})
           d == [k EXCEPT !.pc = "fingerprint", !.rows = @ \cup rest]
<1>1. k \in ComparerRecord /\ Consistent(k) /\ CacheTypeOK
      /\ comparer \in [Comparers -> ComparerRecord]
  BY InvFacts DEF CacheTypeOK, ComparerRecord
<1>2. k.pc = "sources" /\ UNCHANGED <<held, included, run, clock, switches, cache>>
  BY DEF LoadSources
<1>3. CASE k.rows = {}
  <2>1. comparer' = [comparer EXCEPT ![c] = IdleComparer]
    BY <1>3 DEF LoadSources
  <2> QED
    BY <2>1, <1>2, IdleFacts, ReadInv
<1>4. CASE k.rows # {}
  <2>1. comparer' = [comparer EXCEPT ![c] = d]
    <3>1. comparer' = [comparer EXCEPT ![c].pc = "fingerprint", ![c].rows = @ \cup rest]
      BY <1>4 DEF LoadSources
    <3> HIDE DEF ComparerRecord, rest
    <3> QED
      BY <3>1, <1>1
  <2>2. ReadSound(k)
    BY <1>1, <1>2 DEF Consistent
  <2>3. rest \in AllRows /\ k.rows \in AllRows
    BY <1>1, RowsTyped DEF ComparerRecord
  <2>4. RowsIn({Target}) \cup rest = RowsIn(IndexedServers)
    <3>1. \A i \in Held : ServerOfItem[i] \in IndexedServers
      BY DEF Held, IndexedServers
    <3>2. Of({Target}) \cup Of(IndexedServers \ {Target}) = Of(IndexedServers)
      BY <3>1 DEF Of
    <3> QED
      BY <3>2 DEF RowsIn
  <2>5. k.rows \cup rest \in AllRows
    BY <2>3 DEF AllRows
  <2> HIDE DEF k, rest
  <2>6. d \in ComparerRecord /\ d.pc = "fingerprint" /\ d.over = k.over /\ d.doubt = k.doubt
        /\ d.rows = k.rows \cup rest
    <3> HIDE DEF Keys, AllRows, IndexedServers
    <3> QED
      BY <1>1, <2>5 DEF ComparerRecord
  <2> HIDE DEF d
  <2>7. Consistent(d)
    <3>1. Mixed(d) <=> Mixed(k)
      BY <2>6 DEF Mixed
    <3>2. ~Mixed(k) => k.rows = RowsIn({Target})
      BY <2>2, <1>2 DEF ReadSound
    <3>3. ~Mixed(d) => d.rows = RowsIn(IndexedServers)
      BY <3>1, <3>2, <2>6, <2>4
    <3>4. Running \subseteq d.over /\ (~d.doubt => d.over \subseteq Running)
      BY <2>2, <2>6 DEF ReadSound
    <3> QED
      BY <3>3, <3>4, <2>6 DEF Consistent, ReadSound
  <2> QED
    BY <2>1, <2>6, <2>7, <1>2, ReadInv
<1> QED
  BY <1>3, <1>4

\* What is read at once and undisturbed bears the key of its rows.
LEMMA MissInv ==
    ASSUME Bounds, CacheInv, NEW c \in Comparers, Miss(c)
    PROVE  CacheInv'
<1> DEFINE k == comparer[c]
           key == Fingerprint
           d == [k EXCEPT !.pc = "diff", !.key = key]
<1>1. k \in ComparerRecord /\ Consistent(k) /\ CacheTypeOK /\ Clocked
      /\ comparer \in [Comparers -> ComparerRecord]
  BY InvFacts DEF CacheTypeOK, ComparerRecord
<1>2. k.pc = "fingerprint" /\ UNCHANGED <<held, included, run, clock, switches, cache>>
  BY DEF Miss
<1>3. /\ RowsIn(IndexedServers) \in AllRows /\ key \in Keys
      /\ key = KeyOf(RowsIn(IndexedServers))
      /\ \E s \in {held[i] : i \in Of(IndexedServers)} \cup {0} : key[2] = s
  BY <1>1, FingerprintOfRows
<1>4. comparer' = [comparer EXCEPT ![c] = d]
  <2>1. comparer' = [comparer EXCEPT ![c].pc = "diff", ![c].key = key]
    BY DEF Miss
  <2> HIDE DEF ComparerRecord, key
  <2> QED
    BY <2>1, <1>1
<1>5. ReadSound(k)
  BY <1>1, <1>2 DEF Consistent
<1>6. key[2] <= clock
  <2>1. \A i \in Of(IndexedServers) : held[i] <= clock
    BY <1>1 DEF Clocked, Of, Held
  <2>2. 0 <= clock
    BY <1>1 DEF CacheTypeOK, Bounds
  <2> HIDE DEF key
  <2> QED
    BY <2>1, <2>2, <1>3
<1> HIDE DEF k, key
<1>7. d \in ComparerRecord /\ d.pc = "diff" /\ d.over = k.over /\ d.doubt = k.doubt
      /\ d.rows = k.rows /\ d.key = key
  <2> HIDE DEF Keys, AllRows, IndexedServers
  <2> QED
    BY <1>1, <1>3 DEF ComparerRecord
<1> HIDE DEF d
<1>8. Consistent(d)
  <2>1. Mixed(d) <=> Mixed(k)
    BY <1>7 DEF Mixed
  <2>2. Running \subseteq d.over /\ (~d.doubt => d.over \subseteq Running)
    BY <1>5, <1>7 DEF ReadSound
  <2>3. ~Mixed(d) => d.rows = RowsIn(IndexedServers)
    BY <2>1, <1>2, <1>5, <1>7 DEF ReadSound
  <2>4. ~Mixed(d) => d.key = KeyOf(d.rows)
    BY <2>3, <1>3, <1>7
  <2>5. \A i \in Of(IndexedServers) : <<i, held[i]>> \in RowsIn(IndexedServers)
    BY DEF RowsIn
  <2>6. Sound(d)
    BY <2>2, <2>3, <2>4, <2>5, <1>6, <1>7 DEF Sound
  <2> QED
    BY <2>6, <1>7 DEF Consistent
<1> QED
  BY <1>2, <1>4, <1>7, <1>8, ReadInv

LEMMA StoreInv ==
    ASSUME Bounds, CacheInv, NEW c \in Comparers, Store(c)
    PROVE  CacheInv'
<1> DEFINE k == comparer[c]
           e == [key |-> k.key, rows |-> k.rows, over |-> k.over, doubt |-> k.doubt]
           all == IF \E n \in DOMAIN cache : cache[n].key = e.key
                  THEN [n \in DOMAIN cache |-> IF cache[n].key = e.key THEN e ELSE cache[n]]
                  ELSE Append(cache, e)
<1>1. k \in ComparerRecord /\ Consistent(k) /\ cache \in Seq(Entries)
      /\ Len(cache) <= MaxEntries /\ MaxEntries \in Nat /\ MaxEntries # 0
  BY InvFacts DEF CacheTypeOK, Bounds
<1>2. comparer' = [comparer EXCEPT ![c] = IdleComparer] /\ k.pc = "diff"
      /\ UNCHANGED <<held, included, run, clock, switches>>
      /\ cache' = IF Len(all) > MaxEntries THEN Tail(all) ELSE all
  BY DEF Store, Stored
<1>3. e \in Entries
  <2> HIDE DEF Keys, AllRows, IndexedServers
  <2> QED
    BY <1>1 DEF ComparerRecord, Entries
<1>4. Sound(e)
  BY <1>1, <1>2 DEF Consistent, Sound, Mixed
<1> HIDE DEF k, Entries
<1> HIDE DEF e
<1>5. /\ all \in Seq(Entries) /\ Len(all) <= Len(cache) + 1 /\ Len(all) \in Nat
      /\ \A n \in DOMAIN all : all[n] = e \/ \E m \in DOMAIN cache : all[n] = cache[m]
  <2>1. DOMAIN cache = 1..Len(cache) /\ Len(cache) \in Nat
    BY <1>1
  <2>2. CASE \E n \in DOMAIN cache : cache[n].key = e.key
    <3>1. all = [n \in 1..Len(cache) |-> IF cache[n].key = e.key THEN e ELSE cache[n]]
      BY <2>1, <2>2
    <3> HIDE DEF all
    <3>2. all \in [1..Len(cache) -> Entries]
      BY <3>1, <2>1, <1>1, <1>3
    <3>3. all \in Seq(Entries) /\ Len(all) = Len(cache) /\ DOMAIN all = 1..Len(cache)
      BY <3>2, <2>1
    <3>4. \A n \in 1..Len(cache) : all[n] = e \/ all[n] = cache[n]
      BY <3>1
    <3> QED
      BY <3>3, <3>4, <2>1
  <2>3. CASE ~\E n \in DOMAIN cache : cache[n].key = e.key
    <3>1. all = Append(cache, e)
      BY <2>3
    <3> HIDE DEF all
    <3>2. all \in Seq(Entries) /\ Len(all) = Len(cache) + 1 /\ DOMAIN all = 1..Len(cache) + 1
      BY <3>1, <1>1, <1>3, <2>1
    <3>3. \A n \in 1..Len(cache) + 1 : all[n] = e \/ (n \in 1..Len(cache) /\ all[n] = cache[n])
      BY <3>1, <1>1, <1>3, <2>1
    <3> QED
      BY <3>2, <3>3, <2>1
  <2> QED
    BY <2>2, <2>3
<1> HIDE DEF all
<1>6. /\ cache' \in Seq(Entries) /\ Len(cache') <= MaxEntries
      /\ \A n \in DOMAIN cache' : cache'[n] = e \/ \E m \in DOMAIN cache : cache'[n] = cache[m]
  <2>1. CASE Len(all) > MaxEntries
    <3>1. cache' = Tail(all) /\ Len(all) \in Nat /\ Len(all) > 0 /\ Len(cache) \in Nat
          /\ all # <<>> /\ Len(all) <= Len(cache) + 1
      BY <2>1, <1>1, <1>2, <1>5
    <3>2. cache' \in Seq(Entries) /\ Len(cache') = Len(all) - 1
          /\ \A n \in DOMAIN cache' : n + 1 \in DOMAIN all /\ cache'[n] = all[n + 1]
      BY <3>1, <1>5
    <3>3. Len(cache') <= MaxEntries
      BY <3>1, <3>2, <1>1
    <3> QED
      BY <3>2, <3>3, <1>5
  <2>2. CASE ~(Len(all) > MaxEntries)
    BY <2>2, <1>1, <1>2, <1>5
  <2> QED
    BY <2>1, <2>2
<1> HIDE DEF ComparerRecord
<1> QED
  BY <1>2, <1>4, <1>6, IdleFacts, StepInv

-----------------------------------------------------------------------------
(***************************************************************************)
(* The theorems.                                                           *)
(***************************************************************************)
LEMMA NextInv == Bounds /\ CacheInv /\ [CacheNext]_cacheVars => CacheInv'
<1> SUFFICES ASSUME Bounds, CacheInv, [CacheNext]_cacheVars PROVE CacheInv'
  OBVIOUS
<1>1. ASSUME NEW x \in IndexedServers, IndexStep(x) PROVE CacheInv'
  BY <1>1, BeginInv, PruneInv, CompleteInv, ToggleInv, DropInv DEF IndexStep
<1>2. ASSUME NEW i \in ItemIds, Write(i) PROVE CacheInv'
  BY <1>2, WriteInv
<1>3. ASSUME NEW c \in Comparers, CompareStep(c) PROVE CacheInv'
  <2>1. ASSUME NEW n \in DOMAIN cache, Hit(c, n) PROVE CacheInv'
    <3>1. /\ comparer' = [comparer EXCEPT ![c] = IdleComparer]
          /\ UNCHANGED <<held, included, run, clock, switches, cache>>
      BY <2>1 DEF Hit
    <3> QED
      BY <3>1, IdleFacts, ReadInv
  <2> QED
    BY <1>3, <2>1, CompareInv, LoadTargetInv, LoadSourcesInv, MissInv, StoreInv DEF CompareStep
<1>4. CASE UNCHANGED cacheVars
  <2>1. UNCHANGED <<held, included, run, clock, switches, cache, comparer>>
    BY <1>4 DEF cacheVars
  <2>2. CacheTypeOK' /\ Clocked'
    <3> HIDE DEF Entries, Keys, AllRows, IndexedServers
    <3> QED
      BY <2>1 DEF CacheInv, CacheTypeOK, Clocked, Running
  <2>3. \A n \in DOMAIN cache' : Sound(cache[n])'
    <3>1. ASSUME NEW n \in DOMAIN cache PROVE Sound(cache[n])'
      <4>1. PICK r : r = cache[n]
        OBVIOUS
      <4>2. Sound(r)'
        BY <4>1, <2>1, InvFacts, StillSound
      <4> QED
        BY <4>1, <4>2, <2>1
    <3> QED
      BY <3>1, <2>1
  <2>4. \A c \in Comparers : Consistent(comparer[c])'
    <3>1. ASSUME NEW c \in Comparers PROVE Consistent(comparer[c])'
      <4>1. PICK r : r = comparer[c]
        OBVIOUS
      <4>2. Consistent(r)'
        BY <4>1, <2>1, InvFacts, StillConsistent
      <4> QED
        BY <4>1, <4>2, <2>1
    <3> QED
      BY <3>1
  <2> QED
    BY <2>2, <2>3, <2>4 DEF CacheInv
<1> QED
  BY <1>1, <1>2, <1>3, <1>4 DEF CacheNext

\* The cache never holds more than it may, and what is in it is of its kind; whatever runs,
\* switches and comparisons come together.
THEOREM ComparisonsTyped == CacheSpec => []CacheTypeOK
<1> Bounds
  BY CacheAssumption DEF Bounds, RunRecord
<1>1. CacheInit => CacheInv
  BY InitInv
<1>2. CacheInv /\ [CacheNext]_cacheVars => CacheInv'
  BY NextInv
<1>3. CacheInv => CacheTypeOK
  BY DEF CacheInv
<1> QED
  BY <1>1, <1>2, <1>3, PTL DEF CacheSpec

\* The entry of the key has the rows that the index has now: of what it was computed from
\* every row that is still there was there, no newer one has come, and they are as many.
LEMMA HitCurrent ==
    ASSUME Bounds, CacheInv, NEW c \in Comparers, NEW n \in DOMAIN cache,
           Hit(c, n), ~Mixed(cache[n])
    PROVE  cache[n].rows = RowsIn(IndexedServers)
<1> DEFINE e == cache[n]
<1>1. CacheTypeOK /\ e \in Claims /\ Sound(e) /\ e.key = Fingerprint
  BY InvFacts DEF Hit
<1>2. e.rows \in AllRows /\ e.key[2] \in Nat
  BY <1>1, ClaimFacts
<1>3. /\ e.key = KeyOf(e.rows)
      /\ \A i \in Of(IndexedServers) : <<i, held[i]>> \in e.rows \/ held[i] > e.key[2]
  BY <1>1 DEF Sound
<1>4. /\ RowsIn(IndexedServers) \in AllRows /\ Fingerprint = KeyOf(RowsIn(IndexedServers))
      /\ \A i \in Of(IndexedServers) : held[i] <= Fingerprint[2]
  BY <1>1, FingerprintOfRows
<1>5. \A i \in Of(IndexedServers) : held[i] \in Nat
  BY <1>1 DEF CacheTypeOK, Of, Held, Bounds
<1> HIDE DEF e
<1>6. \A i \in Of(IndexedServers) : <<i, held[i]>> \in e.rows
  BY <1>1, <1>2, <1>3, <1>4, <1>5
<1>7. RowsIn(IndexedServers) \in SUBSET e.rows
  BY <1>6 DEF RowsIn
<1>8. KeyOf(e.rows) = KeyOf(RowsIn(IndexedServers))
  BY <1>1, <1>3, <1>4
<1>9. e.rows = RowsIn(IndexedServers)
  BY <1>2, <1>7, <1>8, SameKeySameRows
<1> QED
  BY <1>9 DEF e

\* What a comparison is served from the cache is what the index says at that moment, unless
\* a run that wrote while the entry was being read is still under way or was over too early
\* for the entry, or a library was switched: for any number of runs, comparisons, switches.
THEOREM ServedCurrentHolds == CacheSpec => ServedCurrent
<1> Bounds
  BY CacheAssumption DEF Bounds, RunRecord
<1>1. CacheInit => CacheInv
  BY InitInv
<1>2. CacheInv /\ [CacheNext]_cacheVars => CacheInv'
  BY NextInv
<1>3. CacheInv /\ [CacheNext]_cacheVars =>
        [\A c \in Comparers, n \in DOMAIN cache :
           Hit(c, n) /\ ~Mixed(cache[n]) => cache[n].rows = RowsIn(IndexedServers)]_cacheVars
  BY HitCurrent
<1> QED
  BY <1>1, <1>2, <1>3, PTL DEF CacheSpec, ServedCurrent
=============================================================================
