----------------------------- MODULE EnqueueProofs -----------------------------
(***************************************************************************)
(* What holds of Enqueue for any number of items, works, requests, rows,   *)
(* runs and late writes.                                                   *)
(***************************************************************************)
EXTENDS Enqueue, FiniteSetTheorems, WellFoundedInduction, TLAPS

Works == {WorkOf[i] : i \in Items} \ {NoTitle}
Past == {"stopped", "revive", "create"}

\* The requests that may still add a transfer of the work, of the item, or a row.
PastWork(w) == {q \in Requests : request[q].pc \in Past /\ WorkOf[request[q].item] = w}
PastItem(i) == {q \in Requests : request[q].pc \in Past \cup {"sameWork"} /\ request[q].item = i}
Creating(i) == {q \in Requests : request[q].pc = "create" /\ request[q].item = i}
ListedOf(i) == OfItem(i) \cap Listed

Within(A, B, n) == Cardinality(A) + Cardinality(B) <= n

\* What a row and a request say of their item.
Known ==
    /\ \A j \in Rows : status[j] # "absent" => item[j] \in Items
    /\ \A q \in Requests :
         /\ request[q].pc # "idle" => request[q].item \in Items
         /\ request[q].pc = "revive" =>
              /\ request[q].previous \in Rows
              /\ item[request[q].previous] = request[q].item
              /\ status[request[q].previous] # "absent"

\* A run's row exists or did, and a row that is being transferred has a run.
RunKnown ==
    /\ \A s \in Slots : slot[s] # None => slot[s] \in Rows /\ status[slot[s]] # "absent"
    /\ \A j \in Rows : status[j] = "running" => \E s \in Slots : slot[s] = j

\* There is no row unless a request was under way.
Counted ==
    /\ Cardinality(UnderWay) <= peak
    /\ \A j \in Rows : status[j] # "absent" => peak >= 1

\* The runs that go on without a row are no more than the writes that took it from them.
RunsOn(A) == {s \in Slots : slot[s] \in A}
RunningIn(A) == {j \in A : status[j] = "running"}
HiddenBound == \A A \in SUBSET Rows : Cardinality(RunsOn(A)) <= Cardinality(RunningIn(A)) + late

\* What there is and what may still come of it: the transfers of a work and of an item, and
\* the rows of an item.
OfThisWork(w) == Transfers(OfWork(w))
OfThisItem(i) == Transfers(OfItem(i))
WorkBound == \A w \in Works : Together(w) => Within(OfThisWork(w), PastWork(w), peak + late)
ItemBound == \A i \in Items : Within(OfThisItem(i), PastItem(i), peak + late)
ListBound == \A i \in Items : Within(ListedOf(i), Creating(i), peak + late)

IndInv ==
    /\ TypeOK /\ Known /\ RunKnown /\ Counted
    /\ HiddenBound /\ WorkBound /\ ItemBound /\ ListBound

\* The same of the next state, for a set of rows that stays what it is.
TransfersNext(G) ==
    {j \in G : status'[j] \in {"queued", "completed"}} \cup {s \in Slots : slot'[s] \in G}
RunsNext(A) == {s \in Slots : slot'[s] \in A}
RunningNext(A) == {j \in A : status'[j] = "running"}

\* Nothing is added, or one thing in place of another.
Changed(A, A1) ==
    \/ A1 \subseteq A
    \/ \E x : \E y \in A : A1 \subseteq (A \ {y}) \cup {x}

Tokens == Rows \cup Slots
-----------------------------------------------------------------------------
(***************************************************************************)
(* Numbers and sets.                                                       *)
(***************************************************************************)
LEMMA Least ==
    ASSUME NEW T \in SUBSET Nat, T # {}
    PROVE  \E m \in T : \A n \in T : m <= n
<1> DEFINE R == StrictSubsetOrdering(Nat)
           F == FiniteSubsetsOf(Nat)
           Below == {0..n : n \in T}
<1>1. IsWellFoundedOn(R, F)
  BY FS_StrictSubsetOrderingWellFounded
<1>2. \A n \in Nat : 0..n \in F
  <2>1. ASSUME NEW n \in Nat PROVE IsFiniteSet(0..n)
    <3>1. 0 \in Int /\ n \in Int
      OBVIOUS
    <3> QED
      BY <3>1, FS_Interval
  <2> QED
    BY <2>1 DEF FiniteSubsetsOf
<1>3. Below \subseteq F /\ Below # {}
  <2> HIDE DEF F
  <2> QED
    BY <1>2
<1>4. \A m, n \in Nat : n < m => <<0..n, 0..m>> \in R
  <2> SUFFICES ASSUME NEW m \in Nat, NEW n \in Nat, n < m PROVE <<0..n, 0..m>> \in R
    OBVIOUS
  <2>1. 0..n \subseteq 0..m /\ 0..n # 0..m /\ 0..m \subseteq Nat
    <3>1. m \in 0..m /\ m \notin 0..n
      OBVIOUS
    <3> QED
      BY <3>1
  <2> QED
    BY <2>1 DEF StrictSubsetOrdering
<1> HIDE DEF R, F
<1>5. PICK x \in Below : \A y \in Below : ~ (<<y, x>> \in R)
  <2> HIDE DEF Below
  <2> QED
    BY <1>1, <1>3, WFMin
<1>6. PICK m \in T : x = 0..m
  BY <1>5
<1>7. \A n \in T : m <= n
  <2>1. ASSUME NEW n \in T PROVE m <= n
    <3>1. 0..n \in Below
      OBVIOUS
    <3>2. ~ (<<0..n, 0..m>> \in R)
      BY <3>1, <1>5, <1>6
    <3> QED
      BY <3>2, <1>4
  <2> QED
    BY <2>1
<1> QED
  BY <1>7

LEMMA Newest ==
    ASSUME NEW S \in SUBSET Rows, S # {}
    PROVE  \E j \in S : \A k \in S : k <= j
<1> DEFINE T == {MaxRows - k : k \in S}
<1>1. \A k \in S : k \in Nat /\ k <= MaxRows /\ MaxRows - k \in Nat
  BY EnqueueAssumption DEF Rows
<1>2. T \in SUBSET Nat /\ T # {}
  BY <1>1
<1>3. \A k \in S : MaxRows - k \in T
  OBVIOUS
<1>4. \A m \in T : \E k \in S : m = MaxRows - k
  OBVIOUS
<1> HIDE DEF T
<1>5. PICK m \in T : \A n \in T : m <= n
  BY <1>2, Least
<1>6. PICK j \in S : m = MaxRows - j
  BY <1>4
<1>7. \A k \in S : k <= j
  BY <1>1, <1>3, <1>5, <1>6, EnqueueAssumption
<1> QED
  BY <1>7

LEMMA RowsFinite ==
    ASSUME NEW S \in SUBSET Rows
    PROVE  IsFiniteSet(S) /\ Cardinality(S) \in Nat
<1>1. IsFiniteSet(Rows)
  <2>1. 1 \in Int /\ MaxRows \in Int
    BY EnqueueAssumption
  <2> QED
    BY <2>1, FS_Interval DEF Rows
<1> QED
  BY <1>1, FS_Subset, FS_CardinalityType

LEMMA RequestsFinite ==
    ASSUME NEW S \in SUBSET Requests
    PROVE  IsFiniteSet(S) /\ Cardinality(S) \in Nat
  BY EnqueueAssumption, FS_Subset, FS_CardinalityType

LEMMA TokensFinite ==
    ASSUME NEW S \in SUBSET Tokens
    PROVE  IsFiniteSet(S) /\ Cardinality(S) \in Nat
<1>1. IsFiniteSet(Rows) /\ IsFiniteSet(Slots)
  BY RowsFinite, EnqueueAssumption
<1>2. IsFiniteSet(Tokens)
  BY <1>1, FS_Union DEF Tokens
<1> QED
  BY <1>2, FS_Subset, FS_CardinalityType

LEMMA OneMore ==
    ASSUME NEW A \in SUBSET Tokens, NEW A1 \in SUBSET Tokens, NEW x, A1 \subseteq A \cup {x}
    PROVE  Cardinality(A1) <= Cardinality(A) + 1
<1>1. IsFiniteSet(A) /\ Cardinality(A) \in Nat /\ Cardinality(A1) \in Nat
  BY TokensFinite
<1>2. /\ IsFiniteSet(A \cup {x})
      /\ Cardinality(A \cup {x}) = IF x \in A THEN Cardinality(A) ELSE Cardinality(A) + 1
  BY <1>1, FS_AddElement
<1>3. Cardinality(A1) <= Cardinality(A \cup {x})
  BY <1>2, FS_Subset
<1>4. Cardinality(A \cup {x}) <= Cardinality(A) + 1 /\ Cardinality(A \cup {x}) \in Nat
  BY <1>1, <1>2
<1> QED
  BY <1>1, <1>3, <1>4

\* What there is and what may come of it stay within the limit.
LEMMA WithinStep ==
    ASSUME NEW A \in SUBSET Tokens, NEW A1 \in SUBSET Tokens,
           NEW B \in SUBSET Requests, NEW B1 \in SUBSET Requests,
           NEW n \in Nat, NEW n1 \in Nat, Within(A, B, n), n <= n1,
           \/ A1 \subseteq A /\ B1 \subseteq B
           \/ \E x : \E q \in B : A1 \subseteq A \cup {x} /\ B1 \subseteq B \ {q}
           \/ \E x : A1 \subseteq A \cup {x} /\ B1 \subseteq B /\ n < n1
           \/ \E x : \E y \in A : A1 \subseteq (A \ {y}) \cup {x} /\ B1 \subseteq B
    PROVE  Within(A1, B1, n1)
<1>1. /\ IsFiniteSet(A) /\ IsFiniteSet(A1) /\ Cardinality(A) \in Nat /\ Cardinality(A1) \in Nat
      /\ IsFiniteSet(B) /\ IsFiniteSet(B1) /\ Cardinality(B) \in Nat /\ Cardinality(B1) \in Nat
  BY TokensFinite, RequestsFinite
<1>2. ASSUME NEW x, A1 \subseteq A \cup {x}
      PROVE  Cardinality(A1) <= Cardinality(A) + 1
  BY <1>2, OneMore
<1>3. B1 \subseteq B => Cardinality(B1) <= Cardinality(B)
  BY <1>1, FS_Subset
<1>4. ASSUME NEW q \in B, B1 \subseteq B \ {q}
      PROVE  Cardinality(B1) <= Cardinality(B) - 1
  <2>1. IsFiniteSet(B \ {q}) /\ Cardinality(B \ {q}) = Cardinality(B) - 1
    BY <1>1, FS_RemoveElement
  <2>2. Cardinality(B1) <= Cardinality(B \ {q})
    BY <1>4, <2>1, FS_Subset
  <2> QED
    BY <2>1, <2>2
<1>5. A1 \subseteq A => Cardinality(A1) <= Cardinality(A)
  BY <1>1, FS_Subset
<1>6. ASSUME NEW x, NEW y \in A, A1 \subseteq (A \ {y}) \cup {x}
      PROVE  Cardinality(A1) <= Cardinality(A)
  <2>1. Cardinality(A \ {y}) = Cardinality(A) - 1
    BY <1>1, FS_RemoveElement
  <2>2. Cardinality(A1) <= Cardinality(A \ {y}) + 1
    BY <1>6, OneMore
  <2> QED
    BY <1>1, <2>1, <2>2
<1>7. Cardinality(A) + Cardinality(B) <= n
  BY DEF Within
<1>8. CASE A1 \subseteq A /\ B1 \subseteq B
  BY <1>1, <1>3, <1>5, <1>7, <1>8 DEF Within
<1>9. CASE \E x : \E q \in B : A1 \subseteq A \cup {x} /\ B1 \subseteq B \ {q}
  <2>1. Cardinality(A1) <= Cardinality(A) + 1
    BY <1>2, <1>9
  <2>2. Cardinality(B1) <= Cardinality(B) - 1
    BY <1>4, <1>9
  <2> QED
    BY <1>1, <1>7, <2>1, <2>2 DEF Within
<1>10. CASE \E x : A1 \subseteq A \cup {x} /\ B1 \subseteq B /\ n < n1
  BY <1>1, <1>2, <1>3, <1>7, <1>10 DEF Within
<1>11. CASE \E x : \E y \in A : A1 \subseteq (A \ {y}) \cup {x} /\ B1 \subseteq B
  <2>1. Cardinality(A1) <= Cardinality(A)
    BY <1>6, <1>11
  <2> QED
    BY <1>1, <1>3, <1>7, <1>11, <2>1 DEF Within
<1> QED
  BY <1>8, <1>9, <1>10, <1>11

\* What a few writes have hidden, and what requests under way may add.
LEMMA WithinPeak ==
    ASSUME NEW A \in SUBSET Tokens, NEW B \in SUBSET Requests, NEW U \in SUBSET Requests,
           B \subseteq U, NEW n \in Nat, NEW m \in Nat, Cardinality(U) <= n, Cardinality(A) <= m
    PROVE  Within(A, B, n + m)
<1>1. Cardinality(B) <= Cardinality(U)
  BY RequestsFinite, FS_Subset
<1> QED
  BY <1>1, RequestsFinite, TokensFinite DEF Within

\* One more than these, and no request.
LEMMA WithinOne ==
    ASSUME NEW A \in SUBSET Tokens, NEW A1 \in SUBSET Tokens, NEW x, A1 \subseteq A \cup {x},
           NEW n \in Nat, NEW m \in Nat, Cardinality(A) <= m, n >= 1
    PROVE  Within(A1, {}, n + m)
<1>1. Cardinality({}) = 0
  BY FS_EmptySet
<1>2. Cardinality(A1) <= Cardinality(A) + 1
  BY OneMore
<1> QED
  BY <1>1, <1>2, TokensFinite DEF Within

LEMMA HiddenSizes ==
    /\ \A S \in SUBSET Slots : S \in SUBSET Tokens /\ IsFiniteSet(S) /\ Cardinality(S) \in Nat
    /\ \A S \in SUBSET Rows : S \in SUBSET Tokens /\ IsFiniteSet(S) /\ Cardinality(S) \in Nat
<1>1. Rows \subseteq Tokens /\ Slots \subseteq Tokens
  BY DEF Tokens
<1> QED
  BY <1>1, TokensFinite

\* A run ends up without its row only by a write that counts.
LEMMA HiddenWrite ==
    ASSUME NEW R \in SUBSET Slots, NEW R1 \in SUBSET Slots,
           NEW J \in SUBSET Rows, NEW J1 \in SUBSET Rows, NEW D \in SUBSET Rows,
           NEW l \in Nat, NEW l1 \in Nat, Cardinality(R) <= Cardinality(J) + l,
           R1 \subseteq R, J \subseteq J1 \cup D, l + Cardinality(D) <= l1
    PROVE  Cardinality(R1) <= Cardinality(J1) + l1
<1>1. Cardinality(R1) <= Cardinality(R)
  BY HiddenSizes, FS_Subset
<1>2. /\ IsFiniteSet(J1 \cup D) /\ IsFiniteSet(J1 \cap D)
      /\ Cardinality(J1 \cup D) = Cardinality(J1) + Cardinality(D) - Cardinality(J1 \cap D)
  <2>1. IsFiniteSet(J1) /\ IsFiniteSet(D) /\ J1 \cap D \in SUBSET Rows
    BY HiddenSizes
  <2> QED
    BY <2>1, HiddenSizes, FS_Union
<1>3. Cardinality(J) <= Cardinality(J1 \cup D)
  BY <1>2, FS_Subset
<1>4. Cardinality(J1 \cap D) \in Nat
  BY <1>2, FS_CardinalityType
<1>5. /\ Cardinality(R) \in Nat /\ Cardinality(R1) \in Nat /\ Cardinality(J) \in Nat
      /\ Cardinality(J1) \in Nat /\ Cardinality(D) \in Nat
  BY HiddenSizes
<1> QED
  BY <1>1, <1>2, <1>3, <1>4, <1>5

LEMMA OneLess ==
    ASSUME NEW J \in SUBSET Tokens, NEW J1 \in SUBSET Tokens, NEW j,
           J \cup {j} \subseteq J1, j \notin J
    PROVE  Cardinality(J) + 1 <= Cardinality(J1)
<1>1. Cardinality(J \cup {j}) = Cardinality(J) + 1
  BY TokensFinite, FS_AddElement
<1>2. Cardinality(J \cup {j}) <= Cardinality(J1)
  BY TokensFinite, FS_Subset
<1> QED
  BY <1>1, <1>2
-----------------------------------------------------------------------------
(***************************************************************************)
(* What the operators choose.                                              *)
(***************************************************************************)
LEMMA Ranks ==
    /\ Rank("running") = 0 /\ Rank("queued") = 1 /\ Rank("completed") = 2
    /\ Rank("failed") = 3 /\ Rank("canceled") = 4
  BY DEF Rank

LEMMA ListedStatus ==
    ASSUME TypeOK, NEW j \in Listed
    PROVE  /\ j \in Rows /\ status[j] \in Live \cup Stopped
           /\ Rank(status[j]) \in 0..4 /\ (Rank(status[j]) >= 3 <=> status[j] \in Stopped)
<1>1. j \in Rows /\ status[j] \in Live \cup Stopped
  BY DEF Listed, TypeOK, Statuses
<1> QED
  BY <1>1, Ranks DEF Live, Stopped

\* The row that stands for some attempts is one of them, and none ranks before it.
LEMMA ForemostRow ==
    ASSUME TypeOK, NEW A \in SUBSET Listed, A # {}
    PROVE  /\ Foremost(A) \in A
           /\ \A k \in A : Rank(status[Foremost(A)]) <= Rank(status[k])
<1> DEFINE T == {Rank(status[k]) : k \in A}
<1>1. \A k \in A : k \in Rows /\ Rank(status[k]) \in Nat /\ status[k] \in Live \cup Stopped
  BY ListedStatus
<1>2. T \in SUBSET Nat /\ T # {}
  BY <1>1
<1>3. \A k \in A : Rank(status[k]) \in T
  OBVIOUS
<1>4. \A m \in T : \E k \in A : m = Rank(status[k])
  OBVIOUS
<1> HIDE DEF T
<1>5. PICK m \in T : \A n \in T : m <= n
  BY <1>2, Least
<1> DEFINE S == {k \in A : Rank(status[k]) = m}
<1>6. S \in SUBSET Rows /\ S # {}
  BY <1>1, <1>4, <1>5
<1>7. PICK j \in S : \A k \in S : k <= j
  BY <1>6, Newest
<1>8. \A k \in A : \/ Rank(status[j]) < Rank(status[k])
                   \/ status[j] = status[k] /\ k <= j
  <2> SUFFICES ASSUME NEW k \in A
               PROVE  \/ Rank(status[j]) < Rank(status[k])
                      \/ status[j] = status[k] /\ k <= j
    OBVIOUS
  <2>1. j \in A /\ Rank(status[j]) = m /\ m <= Rank(status[k])
    BY <1>3, <1>5, <1>7
  <2>2. CASE Rank(status[k]) = m
    <3>1. k <= j
      BY <1>7, <2>2
    <3>2. status[j] = status[k]
      BY <1>1, <2>1, <2>2, Ranks DEF Live, Stopped
    <3> QED
      BY <3>1, <3>2
  <2>3. CASE Rank(status[k]) # m
    BY <1>1, <2>1, <2>3
  <2> QED
    BY <2>2, <2>3
<1>9. /\ Foremost(A) \in A
      /\ \A k \in A : \/ Rank(status[Foremost(A)]) < Rank(status[k])
                      \/ status[Foremost(A)] = status[k] /\ k <= Foremost(A)
  <2>1. j \in A
    BY <1>7
  <2> HIDE DEF S
  <2> QED
    BY <1>8, <2>1 DEF Foremost
<1>10. ASSUME NEW k \in A PROVE Rank(status[Foremost(A)]) <= Rank(status[k])
  <2>1. \/ Rank(status[Foremost(A)]) < Rank(status[k])
        \/ status[Foremost(A)] = status[k]
    BY <1>9
  <2>2. Rank(status[k]) \in Nat /\ Rank(status[Foremost(A)]) \in Nat
    BY <1>1, <1>9
  <2> QED
    BY <2>1, <2>2
<1> QED
  BY <1>9, <1>10

\* Retry is offered for a row of whose group nothing is queued, running or completed.
LEMMA OfferedAlone ==
    ASSUME TypeOK, NEW j \in Offered
    PROVE  /\ j \in Listed
           /\ \A k \in Listed : GroupOf[item[k]] = GroupOf[item[j]] => status[k] \in Stopped
<1>1. PICK l \in Listed :
        status[Foremost(Attempts(l))] \in Stopped /\ j = RetryTarget(Attempts(l))
  BY DEF Offered
<1> DEFINE A == Attempts(l)
<1>2. A \in SUBSET Listed /\ l \in A
  BY DEF Attempts
<1>3. \A k \in Listed : k \in A <=> GroupOf[item[k]] = GroupOf[item[l]]
  BY DEF Attempts
<1> HIDE DEF A
<1>4. Foremost(A) \in A /\ \A k \in A : Rank(status[Foremost(A)]) <= Rank(status[k])
  BY <1>2, ForemostRow
<1>5. Rank(status[Foremost(A)]) >= 3
  BY <1>1, <1>2, <1>4, ListedStatus DEF A
<1>6. ASSUME NEW k \in A PROVE status[k] \in Stopped
  <2>1. k \in Listed /\ Foremost(A) \in Listed
    BY <1>2, <1>4
  <2>2. Rank(status[k]) \in 0..4 /\ Rank(status[Foremost(A)]) \in 0..4
    BY <2>1, ListedStatus
  <2>3. Rank(status[k]) >= 3
    BY <2>2, <1>4, <1>5
  <2> QED
    BY <2>1, <2>3, ListedStatus
<1>7. j \in A
  <2> DEFINE H == {k \in A : spooled[k]}
  <2>1. j = IF spooled[Foremost(A)] \/ H = {} THEN Foremost(A) ELSE Foremost(H)
    BY <1>1 DEF RetryTarget, A
  <2>2. H # {} => Foremost(H) \in H
    BY <1>2, ForemostRow
  <2> QED
    BY <1>4, <2>1, <2>2
<1> QED
  BY <1>2, <1>3, <1>6, <1>7

\* The attempt to revive is one of those that stopped.
LEMMA PreviousRow ==
    ASSUME NEW S \in SUBSET Rows, S # {}
    PROVE  Previous(S) \in S
<1> DEFINE H == {j \in S : spooled[j]}
           P == IF H = {} THEN S ELSE H
<1>1. P \in SUBSET Rows /\ P # {} /\ P \subseteq S
  OBVIOUS
<1>2. Previous(S) = CHOOSE j \in P : \A k \in P : k <= j
  BY DEF Previous
<1> HIDE DEF P
<1>3. \E j \in P : \A k \in P : k <= j
  BY <1>1, Newest
<1> QED
  BY <1>1, <1>2, <1>3
-----------------------------------------------------------------------------
(***************************************************************************)
(* Steps of a request.                                                     *)
(***************************************************************************)
RequestRecord == [pc : RequestPcs, item : Items \cup {None}, previous : Rows \cup {None}]

LEMMA GotoFacts ==
    ASSUME request \in [Requests -> RequestRecord], NEW q \in Requests,
           NEW pc \in RequestPcs, Goto(q, pc)
    PROVE  /\ request' \in [Requests -> RequestRecord]
           /\ request'[q].pc = pc /\ request'[q].item = request[q].item
           /\ request'[q].previous = request[q].previous
           /\ \A p \in Requests \ {q} : request'[p] = request[p]
  BY DEF Goto, RequestRecord

LEMMA IdleFacts ==
    IdleRequest \in RequestRecord /\ IdleRequest.pc = "idle"
  BY DEF IdleRequest, RequestRecord, RequestPcs

LEMMA AnswerFacts ==
    ASSUME request \in [Requests -> RequestRecord], NEW q \in Requests, Answer(q)
    PROVE  /\ request' \in [Requests -> RequestRecord]
           /\ request'[q].pc = "idle"
           /\ \A p \in Requests \ {q} : request'[p] = request[p]
  BY IdleFacts DEF Answer

\* Types, and sets that are part of the rows or of the requests.
LEMMA Typing ==
    ASSUME TypeOK
    PROVE  /\ request \in [Requests -> RequestRecord]
           /\ peak \in Nat /\ late \in Nat /\ peak + late \in Nat
           /\ \A q \in Requests : request[q] \in RequestRecord
           /\ Cardinality(Requests) \in Nat
<1>1. Cardinality(Requests) \in Nat
  BY EnqueueAssumption, FS_CardinalityType
<1> QED
  BY <1>1, EnqueueAssumption DEF TypeOK, RequestRecord

LEMMA Parts ==
    /\ UnderWay \subseteq Requests
    /\ \A w : OfThisWork(w) \subseteq Tokens /\ PastWork(w) \subseteq UnderWay
    /\ \A i : /\ OfThisItem(i) \subseteq Tokens /\ PastItem(i) \subseteq UnderWay
              /\ ListedOf(i) \subseteq Tokens /\ Creating(i) \subseteq PastItem(i)
  BY DEF UnderWay, OfThisWork, OfWork, PastWork, OfThisItem, OfItem, PastItem, ListedOf, Listed,
         Creating, Past, Transfers, Tokens

LEMMA PartsPrime ==
    /\ (UnderWay \subseteq Requests)'
    /\ \A w : OfThisWork(w)' \subseteq Tokens /\ PastWork(w)' \subseteq Requests
    /\ \A i : /\ OfThisItem(i)' \subseteq Tokens /\ PastItem(i)' \subseteq Requests
              /\ ListedOf(i)' \subseteq Tokens /\ Creating(i)' \subseteq Requests
  BY DEF UnderWay, OfThisWork, OfWork, PastWork, OfThisItem, OfItem, PastItem, ListedOf, Listed,
         Creating, Past, Transfers, Tokens

\* The transfers of a set of rows of which none is queued, running or completed are runs
\* without their rows.
LEMMA Hidden ==
    ASSUME TypeOK, HiddenBound, NEW G \in SUBSET Rows, \A j \in G : status[j] \notin Live
    PROVE  Cardinality(Transfers(G)) <= late
<1>1. Transfers(G) = RunsOn(G) /\ RunningIn(G) = {}
  BY DEF Transfers, RunsOn, RunningIn, Live
<1>2. Cardinality(RunsOn(G)) <= Cardinality(RunningIn(G)) + late
  BY DEF HiddenBound
<1>3. late \in Nat /\ Cardinality({}) = 0
  BY FS_EmptySet, Typing
<1> QED
  BY <1>1, <1>2, <1>3

LEMMA HiddenOf ==
    ASSUME TypeOK, HiddenBound
    PROVE  /\ \A w : LiveOfWork(w) = {} => Cardinality(OfThisWork(w)) <= late
           /\ \A i : LiveOfItem(i) = {} => Cardinality(OfThisItem(i)) <= late
<1>1. ASSUME NEW w, LiveOfWork(w) = {} PROVE Cardinality(OfThisWork(w)) <= late
  <2>1. OfWork(w) \in SUBSET Rows /\ \A j \in OfWork(w) : status[j] \notin Live
    BY <1>1 DEF OfWork, LiveOfWork
  <2> QED
    BY <2>1, Hidden DEF OfThisWork
<1>2. ASSUME NEW i, LiveOfItem(i) = {} PROVE Cardinality(OfThisItem(i)) <= late
  <2>1. OfItem(i) \in SUBSET Rows /\ \A j \in OfItem(i) : status[j] \notin Live
    BY <1>2 DEF OfItem, LiveOfItem
  <2> QED
    BY <2>1, Hidden DEF OfThisItem
<1> QED
  BY <1>1, <1>2

\* Every row that is queued, running or completed is a transfer or has one.
LEMMA LiveCounted ==
    ASSUME RunKnown, NEW i
    PROVE  Cardinality(LiveOfItem(i)) <= Cardinality(OfThisItem(i))
<1> DEFINE L == LiveOfItem(i)
           S == {x \in OfThisItem(i) : (IF x \in Rows THEN x ELSE slot[x]) \in L}
           f == [x \in S |-> IF x \in Rows THEN x ELSE slot[x]]
<1>1. f \in [S -> L]
  OBVIOUS
<1>2. \A j \in L : \E x \in S : f[x] = j
  <2> SUFFICES ASSUME NEW j \in L PROVE \E x \in S : f[x] = j
    OBVIOUS
  <2>1. j \in Rows /\ j \in OfItem(i) /\ status[j] \in Live
    BY DEF LiveOfItem, OfItem
  <2>2. CASE status[j] = "running"
    <3>1. PICK s \in Slots : slot[s] = j
      BY <2>1, <2>2 DEF RunKnown
    <3>2. s \in OfThisItem(i) /\ s \notin Rows
      BY <2>1, <3>1, EnqueueAssumption DEF OfThisItem, Transfers
    <3> QED
      BY <3>1, <3>2
  <2>3. CASE status[j] # "running"
    <3>1. j \in OfThisItem(i)
      BY <2>1, <2>3 DEF OfThisItem, Transfers, Live
    <3> QED
      BY <2>1, <3>1
  <2> QED
    BY <2>2, <2>3
<1>3. S \subseteq OfThisItem(i)
  OBVIOUS
<1>4. IsFiniteSet(OfThisItem(i)) /\ Cardinality(OfThisItem(i)) \in Nat
  BY Parts, TokensFinite
<1> HIDE DEF S, f, L
<1>5. IsFiniteSet(S) /\ Cardinality(S) <= Cardinality(OfThisItem(i))
  BY <1>3, <1>4, FS_Subset
<1>6. f \in Surjection(S, L)
  BY <1>1, <1>2 DEF Surjection
<1>7. IsFiniteSet(L) /\ Cardinality(L) <= Cardinality(S)
  BY <1>5, <1>6, FS_Surjection
<1> QED
  BY <1>4, <1>5, <1>7, FS_CardinalityType DEF L

LEMMA InitHolds == Init => IndInv
<1> SUFFICES ASSUME Init PROVE IndInv
  OBVIOUS
<1>1. TypeOK
  <2>1. Cardinality(Requests) \in Nat
    BY EnqueueAssumption, FS_CardinalityType
  <2>2. IdleRequest \in [pc : RequestPcs, item : Items \cup {None}, previous : Rows \cup {None}]
    BY IdleFacts DEF RequestRecord
  <2> QED
    BY <2>1, <2>2, EnqueueAssumption DEF Init, TypeOK, Statuses
<1>2. Known /\ RunKnown
  BY IdleFacts DEF Init, Known, RunKnown
<1>3. UnderWay = {}
  BY IdleFacts DEF Init, UnderWay
<1>4. Counted
  BY <1>3, FS_EmptySet DEF Init, Counted
<1>5. /\ \A A \in SUBSET Rows : RunsOn(A) = {} /\ RunningIn(A) = {} /\ Transfers(A) = {}
      /\ \A i : ListedOf(i) = {}
  BY EnqueueAssumption
     DEF Init, RunsOn, RunningIn, Transfers, ListedOf, Listed
<1>6. HiddenBound
  BY <1>5, FS_EmptySet DEF HiddenBound, Init
<1>7. /\ \A w : OfThisWork(w) = {} /\ PastWork(w) = {}
      /\ \A i : OfThisItem(i) = {} /\ PastItem(i) = {} /\ Creating(i) = {}
  <2>1. /\ \A w : OfWork(w) \in SUBSET Rows
        /\ \A i : OfItem(i) \in SUBSET Rows
    BY DEF OfWork, OfItem
  <2>2. /\ \A w : PastWork(w) = {}
        /\ \A i : PastItem(i) = {} /\ Creating(i) = {}
    BY <1>3, Parts
  <2> QED
    BY <1>5, <2>1, <2>2 DEF OfThisWork, OfThisItem
<1>8. Within({}, {}, peak + late)
  BY FS_EmptySet DEF Init, Within
<1>9. WorkBound /\ ItemBound /\ ListBound
  BY <1>5, <1>7, <1>8 DEF WorkBound, ItemBound, ListBound
<1> QED
  BY <1>1, <1>2, <1>4, <1>6, <1>9 DEF IndInv

\* The rows and runs stay as they are, and the requests past the checks are those there
\* were.
LEMMA RequestsOnly ==
    ASSUME IndInv, TypeOK', Known', Counted', UNCHANGED <<status, item, slot, late>>,
           peak <= peak',
           \A w \in Works : PastWork(w)' \subseteq PastWork(w) \/ LiveOfWork(w) = {},
           \A i \in Items : PastItem(i)' \subseteq PastItem(i) \/ LiveOfItem(i) = {},
           \A i \in Items : \/ Creating(i)' \subseteq Creating(i)
                            \/ /\ ListedOf(i) = LiveOfItem(i)
                               /\ Creating(i)' \subseteq PastItem(i)
    PROVE  IndInv'
<1> DEFINE n == peak + late
           n1 == peak' + late'
<1>1. n \in Nat /\ n1 \in Nat /\ n <= n1 /\ peak' \in Nat /\ late \in Nat /\ late' = late
  <2>1. peak \in Nat /\ late \in Nat
    BY Typing DEF IndInv
  <2>2. peak' \in Nat
    <3>1. Cardinality(Requests) \in Nat
      BY EnqueueAssumption, FS_CardinalityType
    <3> QED
      BY <3>1 DEF TypeOK
  <2>3. late' = late
    OBVIOUS
  <2>4. \A a, b, c \in Nat : a <= b => a + c \in Nat /\ b + c \in Nat /\ a + c <= b + c
    OBVIOUS
  <2> QED
    BY <2>1, <2>2, <2>3, <2>4
<1>2. /\ \A w : OfThisWork(w)' = OfThisWork(w)
      /\ \A i : OfThisItem(i)' = OfThisItem(i) /\ ListedOf(i)' = ListedOf(i)
  BY DEF OfThisWork, OfWork, OfThisItem, OfItem, Transfers, ListedOf, Listed
<1>3. \A A \in SUBSET Tokens : \A B \in SUBSET UnderWay' :
        Cardinality(A) <= late => Within(A, B, n1)
  <2> SUFFICES ASSUME NEW A \in SUBSET Tokens, NEW B \in SUBSET UnderWay',
                      Cardinality(A) <= late
               PROVE  Within(A, B, n1)
    OBVIOUS
  <2>1. UnderWay' \in SUBSET Requests /\ B \in SUBSET Requests
    BY PartsPrime
  <2>2. Cardinality(UnderWay') <= peak'
    BY DEF Counted
  <2>3. Within(A, B, peak' + late)
    BY <1>1, <2>1, <2>2, WithinPeak
  <2> QED
    BY <1>1, <2>3
<1>4. /\ \A w : PastWork(w)' \subseteq UnderWay'
      /\ \A i : PastItem(i)' \subseteq UnderWay'
  BY DEF PastWork, PastItem, UnderWay, Past
<1> HIDE DEF n, n1
<1>5. \A w \in Works : Together(w) => Within(OfThisWork(w)', PastWork(w)', n1)
  <2> SUFFICES ASSUME NEW w \in Works, Together(w)
               PROVE  Within(OfThisWork(w)', PastWork(w)', n1)
    OBVIOUS
  <2>1. CASE LiveOfWork(w) = {}
    <3>1. Cardinality(OfThisWork(w)) <= late
      BY <2>1, HiddenOf DEF IndInv
    <3> QED
      BY <3>1, <1>2, <1>3, <1>4, Parts
  <2>2. CASE PastWork(w)' \subseteq PastWork(w)
    <3>1. Within(OfThisWork(w), PastWork(w), n)
      BY DEF IndInv, WorkBound, n
    <3> QED
      BY <1>1, <1>2, <2>2, <3>1, Parts, PartsPrime, WithinStep
  <2> QED
    BY <2>1, <2>2
<1>6. \A i \in Items : Within(OfThisItem(i)', PastItem(i)', n1)
  <2> SUFFICES ASSUME NEW i \in Items
               PROVE  Within(OfThisItem(i)', PastItem(i)', n1)
    OBVIOUS
  <2>1. CASE LiveOfItem(i) = {}
    <3>1. Cardinality(OfThisItem(i)) <= late
      BY <2>1, HiddenOf DEF IndInv
    <3> QED
      BY <3>1, <1>2, <1>3, <1>4, Parts
  <2>2. CASE PastItem(i)' \subseteq PastItem(i)
    <3>1. Within(OfThisItem(i), PastItem(i), n)
      BY DEF IndInv, ItemBound, n
    <3> QED
      BY <1>1, <1>2, <2>2, <3>1, Parts, PartsPrime, WithinStep
  <2> QED
    BY <2>1, <2>2
<1>7. \A i \in Items : Within(ListedOf(i)', Creating(i)', n1)
  <2> SUFFICES ASSUME NEW i \in Items
               PROVE  Within(ListedOf(i)', Creating(i)', n1)
    OBVIOUS
  <2>1. CASE Creating(i)' \subseteq Creating(i)
    <3>1. Within(ListedOf(i), Creating(i), n)
      BY DEF IndInv, ListBound, n
    <3> QED
      BY <1>1, <1>2, <2>1, <3>1, Parts, PartsPrime, WithinStep
  <2>2. CASE ListedOf(i) = LiveOfItem(i) /\ Creating(i)' \subseteq PastItem(i)
    <3>1. Cardinality(OfThisItem(i)) + Cardinality(PastItem(i)) <= n
      BY DEF IndInv, ItemBound, n, Within
    <3>2. Cardinality(ListedOf(i)) <= Cardinality(OfThisItem(i))
      BY <2>2, LiveCounted DEF IndInv
    <3>3. /\ ListedOf(i) \in SUBSET Tokens /\ OfThisItem(i) \in SUBSET Tokens
          /\ PastItem(i) \in SUBSET Requests
      BY Parts
    <3>4. Within(ListedOf(i), PastItem(i), n)
      BY <1>1, <3>1, <3>2, <3>3, TokensFinite, RequestsFinite DEF Within
    <3> QED
      BY <1>1, <1>2, <2>2, <3>3, <3>4, PartsPrime, WithinStep
  <2> QED
    BY <2>1, <2>2
<1>8. WorkBound' /\ ItemBound' /\ ListBound'
  BY <1>5, <1>6, <1>7 DEF WorkBound, ItemBound, ListBound, Together, n1
<1>9. RunKnown' /\ HiddenBound'
  BY DEF IndInv, RunKnown, HiddenBound, RunsOn, RunningIn
<1> QED
  BY <1>8, <1>9 DEF IndInv

LEMMA CountedStep ==
    ASSUME TypeOK, Counted, UnderWay' \subseteq UnderWay, peak' = peak,
           \A j \in Rows : status'[j] # "absent" => status[j] # "absent" \/ UnderWay # {}
    PROVE  Counted'
<1>1. IsFiniteSet(UnderWay) /\ Cardinality(UnderWay) \in Nat /\ Cardinality(UnderWay') \in Nat
      /\ peak \in Nat
  <2>1. UnderWay \subseteq Requests /\ UnderWay' \subseteq Requests
    BY Parts
  <2> QED
    BY <2>1, RequestsFinite, Typing
<1>2. Cardinality(UnderWay') <= Cardinality(UnderWay)
  BY <1>1, FS_Subset
<1>3. UnderWay # {} => Cardinality(UnderWay) # 0
  BY <1>1, FS_EmptySet
<1>4. Cardinality(UnderWay') <= peak'
  BY <1>1, <1>2 DEF Counted
<1>5. \A j \in Rows : status'[j] # "absent" => peak' >= 1
  BY <1>1, <1>3 DEF Counted
<1> QED
  BY <1>4, <1>5 DEF Counted

LEMMA AskStep ==
    ASSUME IndInv, NEW q \in Requests, NEW i \in Items, Ask(q, i)
    PROVE  IndInv'
<1>1. /\ request[q].pc = "idle" /\ UNCHANGED <<status, item, spooled, slot, shown, clearing, late>>
      /\ request' = [request EXCEPT ![q] = [IdleRequest EXCEPT !.pc = "sameItem", !.item = i]]
      /\ peak' = Max({peak, Cardinality(UnderWay) + 1})
  BY DEF Ask, rows
<1> DEFINE x == [IdleRequest EXCEPT !.pc = "sameItem", !.item = i]
<1>2. x \in RequestRecord /\ x.pc = "sameItem" /\ x.item = i
  BY IdleFacts DEF RequestRecord, RequestPcs
<1>3. /\ request' \in [Requests -> RequestRecord]
      /\ request'[q].pc = "sameItem" /\ request'[q].item = i
      /\ \A p \in Requests \ {q} : request'[p] = request[p]
  <2>1. request' = [request EXCEPT ![q] = x]
    BY <1>1
  <2> HIDE DEF x
  <2> QED
    BY <1>2, <2>1, Typing DEF IndInv
<1>4. /\ UnderWay \in SUBSET Requests /\ UnderWay' \in SUBSET Requests
      /\ UnderWay' = UnderWay \cup {q} /\ q \notin UnderWay
  BY <1>1, <1>3 DEF UnderWay
<1>5. /\ IsFiniteSet(UnderWay) /\ Cardinality(UnderWay) \in Nat
      /\ Cardinality(UnderWay') = Cardinality(UnderWay) + 1
      /\ Cardinality(UnderWay') <= Cardinality(Requests)
  <2>1. IsFiniteSet(UnderWay) /\ Cardinality(UnderWay) \in Nat
    BY <1>4, RequestsFinite
  <2>2. Cardinality(UnderWay \cup {q}) = Cardinality(UnderWay) + 1
    BY <1>4, <2>1, FS_AddElement
  <2>3. Cardinality(UnderWay') <= Cardinality(Requests)
    BY <1>4, FS_Subset, EnqueueAssumption
  <2> QED
    BY <1>4, <2>1, <2>2, <2>3
<1>6. /\ peak' \in 0..Cardinality(Requests) /\ Cardinality(UnderWay') <= peak' /\ peak <= peak'
  <2>1. peak \in 0..Cardinality(Requests) /\ Cardinality(Requests) \in Nat
    BY Typing DEF IndInv, TypeOK
  <2>2. \A a, b \in Nat : Max({a, b}) = IF a >= b THEN a ELSE b
    BY DEF Max
  <2>3. peak' = IF peak >= Cardinality(UnderWay) + 1 THEN peak ELSE Cardinality(UnderWay) + 1
    BY <1>1, <1>5, <2>1, <2>2
  <2> QED
    BY <1>5, <2>1, <2>3
<1>7. TypeOK'
  BY <1>1, <1>3, <1>6 DEF IndInv, TypeOK, RequestRecord
<1>8. Known'
  BY <1>1, <1>3 DEF IndInv, Known
<1>9. Counted'
  <2>1. \A j \in Rows : status[j] # "absent" => peak' >= 1
    BY <1>6, Typing DEF IndInv, Counted
  <2> QED
    BY <1>1, <1>6, <2>1 DEF Counted
<1>10. /\ \A w : PastWork(w)' \subseteq PastWork(w)
       /\ \A k : PastItem(k)' \subseteq PastItem(k) /\ Creating(k)' \subseteq Creating(k)
  BY <1>3 DEF PastWork, PastItem, Creating, Past
<1> QED
  BY <1>1, <1>6, <1>7, <1>8, <1>9, <1>10, RequestsOnly

\* A request is over, and nothing else happened.
LEMMA AnswerStep ==
    ASSUME IndInv, NEW q \in Requests, Answer(q),
           UNCHANGED <<status, item, spooled, slot, shown, clearing, late, peak>>
    PROVE  IndInv'
<1>1. /\ request' \in [Requests -> RequestRecord]
      /\ request'[q].pc = "idle"
      /\ \A p \in Requests \ {q} : request'[p] = request[p]
  BY AnswerFacts, Typing DEF IndInv
<1>2. TypeOK'
  BY <1>1 DEF IndInv, TypeOK, RequestRecord
<1>3. Known'
  BY <1>1 DEF IndInv, Known
<1>4. Counted'
  <2>1. UnderWay' \subseteq UnderWay
    BY <1>1 DEF UnderWay
  <2> QED
    BY <2>1, CountedStep DEF IndInv
<1>5. /\ \A w : PastWork(w)' \subseteq PastWork(w)
      /\ \A k : PastItem(k)' \subseteq PastItem(k) /\ Creating(k)' \subseteq Creating(k)
  BY <1>1 DEF PastWork, PastItem, Creating, Past
<1>6. peak <= peak'
  BY Typing DEF IndInv
<1> QED
  BY <1>2, <1>3, <1>4, <1>5, <1>6, RequestsOnly

\* A request goes on to its next query.
LEMMA GotoStep ==
    ASSUME IndInv, NEW q \in Requests, NEW pc \in RequestPcs \ {"idle", "revive"},
           Goto(q, pc), request[q].pc # "idle",
           UNCHANGED <<status, item, spooled, slot, shown, clearing, late, peak>>,
           pc \in Past => \/ request[q].pc \in Past
                          \/ WorkOf[request[q].item] = NoTitle
                          \/ LiveOfWork(WorkOf[request[q].item]) = {},
           \/ request[q].pc \in Past \cup {"sameWork"}
           \/ LiveOfItem(request[q].item) = {},
           pc = "create" => /\ request[q].pc \in Past
                            /\ ListedOf(request[q].item) = LiveOfItem(request[q].item)
    PROVE  IndInv'
<1>1. /\ request' \in [Requests -> RequestRecord]
      /\ request'[q].pc = pc /\ request'[q].item = request[q].item
      /\ \A p \in Requests \ {q} : request'[p] = request[p]
  BY GotoFacts, Typing DEF IndInv
<1>2. TypeOK'
  BY <1>1 DEF IndInv, TypeOK, RequestRecord
<1>3. Known'
  BY <1>1 DEF IndInv, Known
<1>4. Counted'
  <2>1. UnderWay' \subseteq UnderWay
    BY <1>1 DEF UnderWay
  <2> QED
    BY <2>1, CountedStep DEF IndInv
<1>5. \A w \in Works : PastWork(w)' \subseteq PastWork(w) \/ LiveOfWork(w) = {}
  <2> SUFFICES ASSUME NEW w \in Works, LiveOfWork(w) # {}
               PROVE  PastWork(w)' \subseteq PastWork(w)
    OBVIOUS
  <2>1. w # NoTitle
    BY DEF Works
  <2> QED
    BY <1>1, <2>1 DEF PastWork
<1>6. \A i \in Items : PastItem(i)' \subseteq PastItem(i) \/ LiveOfItem(i) = {}
  BY <1>1 DEF PastItem
<1>7. \A i \in Items : \/ Creating(i)' \subseteq Creating(i)
                       \/ /\ ListedOf(i) = LiveOfItem(i)
                          /\ Creating(i)' \subseteq PastItem(i)
  <2> SUFFICES ASSUME NEW i \in Items
               PROVE  \/ Creating(i)' \subseteq Creating(i)
                      \/ /\ ListedOf(i) = LiveOfItem(i)
                         /\ Creating(i)' \subseteq PastItem(i)
    OBVIOUS
  <2>1. CASE pc = "create" /\ request[q].item = i
    <3>1. Creating(i)' \subseteq PastItem(i)
      BY <1>1, <2>1 DEF Creating, PastItem, Past
    <3> QED
      BY <2>1, <3>1
  <2>2. CASE ~(pc = "create" /\ request[q].item = i)
    BY <1>1, <2>2 DEF Creating
  <2> QED
    BY <2>1, <2>2
<1>8. peak <= peak'
  BY Typing DEF IndInv
<1> QED
  BY <1>2, <1>3, <1>4, <1>5, <1>6, <1>7, <1>8, RequestsOnly

LEMMA FindSameItemStep ==
    ASSUME IndInv, NEW q \in Requests, FindSameItem(q)
    PROVE  IndInv'
<1>1. /\ request[q].pc = "sameItem"
      /\ UNCHANGED <<status, item, spooled, slot, shown, clearing, late, peak>>
  BY DEF FindSameItem, rows
<1>2. CASE Answer(q)
  BY <1>1, <1>2, AnswerStep
<1>3. CASE /\ LiveOfItem(request[q].item) = {}
           /\ Goto(q, IF WorkOf[request[q].item] = NoTitle THEN "stopped" ELSE "sameWork")
  <2>1. CASE WorkOf[request[q].item] = NoTitle
    <3>1. Goto(q, "stopped")
      BY <1>3, <2>1
    <3> QED
      BY <1>1, <1>3, <2>1, <3>1, GotoStep DEF RequestPcs, Past
  <2>2. CASE WorkOf[request[q].item] # NoTitle
    <3>1. Goto(q, "sameWork")
      BY <1>3, <2>2
    <3> QED
      BY <1>1, <1>3, <2>2, <3>1, GotoStep DEF RequestPcs, Past
  <2> QED
    BY <2>1, <2>2
<1> QED
  BY <1>2, <1>3 DEF FindSameItem

LEMMA FindSameWorkStep ==
    ASSUME IndInv, NEW q \in Requests, FindSameWork(q)
    PROVE  IndInv'
<1>1. /\ request[q].pc = "sameWork"
      /\ UNCHANGED <<status, item, spooled, slot, shown, clearing, late, peak>>
  BY DEF FindSameWork, rows
<1>2. CASE Answer(q)
  BY <1>1, <1>2, AnswerStep
<1>3. CASE LiveOfWork(WorkOf[request[q].item]) = {} /\ Goto(q, "stopped")
  BY <1>1, <1>3, GotoStep DEF RequestPcs, Past
<1> QED
  BY <1>2, <1>3 DEF FindSameWork

LEMMA FindStoppedStep ==
    ASSUME IndInv, NEW q \in Requests, FindStopped(q)
    PROVE  IndInv'
<1> DEFINE i == request[q].item
           S == {j \in OfItem(i) : status[j] \in Revivable}
<1>1. /\ request[q].pc = "stopped"
      /\ UNCHANGED <<status, item, spooled, slot, shown, clearing, late, peak>>
  BY DEF FindStopped, rows
<1>2. i \in Items
  BY <1>1 DEF IndInv, Known
<1>3. CASE S = {} /\ Goto(q, "create")
  <2>1. ListedOf(i) = LiveOfItem(i)
    <3>1. \A j \in Rows : status[j] \in Statuses
      BY DEF IndInv, TypeOK
    <3> QED
      BY <1>3, <3>1
         DEF ListedOf, LiveOfItem, OfItem, Listed, Statuses, Live, Stopped, Revivable
  <2> QED
    BY <1>1, <1>3, <2>1, GotoStep DEF RequestPcs, Past
<1>4. CASE /\ S # {}
           /\ request' = [request EXCEPT ![q].pc = "revive", ![q].previous = Previous(S)]
  <2> DEFINE j == Previous(S)
  <2>1. j \in S
    <3>1. S \in SUBSET Rows
      BY DEF OfItem
    <3> HIDE DEF S
    <3> QED
      BY <1>4, <3>1, PreviousRow
  <2>2. j \in Rows /\ item[j] = i /\ status[j] \in Revivable
    <3> HIDE DEF j
    <3> QED
      BY <2>1 DEF OfItem
  <2> HIDE DEF j
  <2>3. request' = [request EXCEPT ![q].pc = "revive", ![q].previous = j]
    BY <1>4 DEF j
  <2>4. /\ request' \in [Requests -> RequestRecord]
        /\ request'[q].pc = "revive" /\ request'[q].item = i /\ request'[q].previous = j
        /\ \A p \in Requests \ {q} : request'[p] = request[p]
    BY <2>2, <2>3, Typing DEF IndInv, RequestRecord, RequestPcs
  <2> HIDE DEF i, S
  <2>5. TypeOK'
    BY <1>1, <2>4 DEF IndInv, TypeOK, RequestRecord
  <2>6. Known'
    <3>1. \A p \in Requests : request'[p].pc # "idle" => request'[p].item \in Items
      BY <1>2, <2>4 DEF IndInv, Known
    <3>2. \A p \in Requests : request'[p].pc = "revive" =>
              /\ request'[p].previous \in Rows
              /\ item'[request'[p].previous] = request'[p].item
              /\ status'[request'[p].previous] # "absent"
      BY <1>1, <2>2, <2>4 DEF IndInv, Known, Revivable
    <3>3. \A k \in Rows : status'[k] # "absent" => item'[k] \in Items
      BY <1>1 DEF IndInv, Known
    <3> QED
      BY <3>1, <3>2, <3>3 DEF Known
  <2>7. Counted'
    <3>1. UnderWay' \subseteq UnderWay
      BY <1>1, <2>4 DEF UnderWay
    <3> QED
      BY <1>1, <3>1, CountedStep DEF IndInv
  <2>8. /\ \A w : PastWork(w)' \subseteq PastWork(w)
        /\ \A k : PastItem(k)' \subseteq PastItem(k) /\ Creating(k)' \subseteq Creating(k)
    BY <1>1, <2>4 DEF PastWork, PastItem, Creating, Past, i
  <2>9. peak <= peak'
    BY <1>1, Typing DEF IndInv
  <2> QED
    BY <1>1, <2>5, <2>6, <2>7, <2>8, <2>9, RequestsOnly
<1> QED
  BY <1>3, <1>4 DEF FindStopped

-----------------------------------------------------------------------------
(***************************************************************************)
(* Writes by id.                                                           *)
(***************************************************************************)
LEMMA TakenFacts ==
    ASSUME TypeOK, NEW W \in SUBSET Rows, Taken(W)
    PROVE  /\ late' \in 0..MaxLate /\ late <= late'
           /\ {j \in W : status[j] = "running"} \in SUBSET Rows
           /\ late + Cardinality({j \in W : status[j] = "running"}) <= late'
<1> DEFINE D == {j \in W : status[j] = "running"}
<1>1. D \in SUBSET Rows
  OBVIOUS
<1>2. late + Cardinality(D) <= MaxLate /\ late' = late + Cardinality(D)
  BY DEF Taken
<1> HIDE DEF D
<1>3. Cardinality(D) \in Nat
  BY <1>1, RowsFinite
<1>4. late \in Nat /\ MaxLate \in Nat
  BY Typing, EnqueueAssumption
<1>5. late' \in 0..MaxLate /\ late <= late' /\ late + Cardinality(D) <= late'
  BY <1>2, <1>3, <1>4
<1> QED
  BY <1>1, <1>5 DEF D

LEMMA WrittenRows ==
    ASSUME IndInv, slot' = slot, late' \in Nat, NEW D \in SUBSET Rows,
           late + Cardinality(D) <= late',
           \A j \in Rows :
             /\ status'[j] = "running" => status[j] = "running"
             /\ status[j] = "running" => status'[j] = "running" \/ j \in D
             /\ status'[j] = "absent" => status[j] = "absent"
    PROVE  RunKnown' /\ HiddenBound'
<1>1. RunKnown'
  BY DEF IndInv, RunKnown
<1>2. ASSUME NEW A \in SUBSET Rows
      PROVE  Cardinality(RunsNext(A)) <= Cardinality(RunningNext(A)) + late'
  <2>1. Cardinality(RunsOn(A)) <= Cardinality(RunningIn(A)) + late
    BY DEF IndInv, HiddenBound
  <2>2. /\ RunsOn(A) \in SUBSET Slots /\ RunsNext(A) \in SUBSET Slots
        /\ RunningIn(A) \in SUBSET Rows /\ RunningNext(A) \in SUBSET Rows
        /\ RunsNext(A) \subseteq RunsOn(A) /\ RunningIn(A) \subseteq RunningNext(A) \cup D
    BY DEF RunsOn, RunsNext, RunningIn, RunningNext
  <2>3. late \in Nat
    BY Typing DEF IndInv
  <2> QED
    BY <2>1, <2>2, <2>3, HiddenWrite
<1>3. HiddenBound'
  BY <1>2 DEF HiddenBound, RunsOn, RunningIn, RunsNext, RunningNext
<1> QED
  BY <1>1, <1>3

\* A request ends in row j, which is queued now, whether it was there before or not.
LEMMA LandStep ==
    ASSUME IndInv, NEW q \in Requests, NEW j \in Rows, Answer(q), request[q].pc \in Past,
           status' = [status EXCEPT ![j] = "queued"],
           item' = [item EXCEPT ![j] = request[q].item],
           UNCHANGED <<spooled, slot, shown, clearing, peak>>,
           late' \in 0..MaxLate, late <= late', NEW D \in SUBSET Rows,
           late + Cardinality(D) <= late', status[j] = "running" => j \in D,
           \/ request[q].pc = "create" /\ status[j] = "absent"
           \/ item[j] = request[q].item /\ status[j] \notin {"absent", "deleted"}
    PROVE  IndInv'
<1> DEFINE i == request[q].item
           n == peak + late
           n1 == peak' + late'
<1>1. /\ request' \in [Requests -> RequestRecord]
      /\ request'[q].pc = "idle"
      /\ \A p \in Requests \ {q} : request'[p] = request[p]
  BY AnswerFacts, Typing DEF IndInv
<1>2. i \in Items
  BY DEF IndInv, Known, Past
<1>3. /\ status \in [Rows -> Statuses] /\ item \in [Rows -> Items \cup {None}]
      /\ status' \in [Rows -> Statuses] /\ item' \in [Rows -> Items \cup {None}]
      /\ status'[j] = "queued" /\ item'[j] = i
      /\ \A k \in Rows \ {j} : status'[k] = status[k] /\ item'[k] = item[k]
  BY <1>2 DEF IndInv, TypeOK, Statuses, Live
<1>4. TypeOK'
  BY <1>1, <1>3 DEF IndInv, TypeOK, RequestRecord
<1>5. Known'
  <2>1. \A k \in Rows : status'[k] # "absent" => item'[k] \in Items
    BY <1>2, <1>3 DEF IndInv, Known
  <2>2. \A p \in Requests : request'[p].pc # "idle" => request'[p].item \in Items
    BY <1>1 DEF IndInv, Known
  <2>3. ASSUME NEW p \in Requests, request'[p].pc = "revive"
        PROVE  /\ request'[p].previous \in Rows
               /\ item'[request'[p].previous] = request'[p].item
               /\ status'[request'[p].previous] # "absent"
    <3>1. request'[p] = request[p]
      BY <1>1, <2>3
    <3>2. /\ request[p].previous \in Rows
          /\ item[request[p].previous] = request[p].item
          /\ status[request[p].previous] # "absent"
      BY <2>3, <3>1 DEF IndInv, Known
    <3> QED
      BY <1>3, <3>1, <3>2
  <2> QED
    BY <2>1, <2>2, <2>3 DEF Known
<1>6. Counted'
  <2>1. UnderWay' \subseteq UnderWay /\ q \in UnderWay
    BY <1>1 DEF UnderWay, Past
  <2>2. peak' = peak
    OBVIOUS
  <2> QED
    BY <2>1, <2>2, CountedStep DEF IndInv
<1>7. n \in Nat /\ n1 \in Nat /\ n <= n1 /\ late' \in Nat
  <2>1. peak \in Nat /\ late \in Nat /\ late' \in Nat /\ peak' = peak
    BY Typing, EnqueueAssumption DEF IndInv
  <2>2. \A a, b, c \in Nat : b <= c => a + b \in Nat /\ a + c \in Nat /\ a + b <= a + c
    OBVIOUS
  <2>3. late <= late'
    OBVIOUS
  <2> HIDE DEF i
  <2> QED
    BY <2>1, <2>2, <2>3
<1>8. RunKnown' /\ HiddenBound'
  <2>1. \A k \in Rows :
             /\ status'[k] = "running" => status[k] = "running"
             /\ status[k] = "running" => status'[k] = "running" \/ k \in D
             /\ status'[k] = "absent" => status[k] = "absent"
    BY <1>3
  <2> QED
    BY <1>7, <2>1, WrittenRows
<1>9. /\ \A w : PastWork(w)' \subseteq PastWork(w) \ {q}
      /\ \A k : /\ PastItem(k)' \subseteq PastItem(k) \ {q}
                /\ Creating(k)' \subseteq Creating(k) \ {q}
  BY <1>1 DEF PastWork, PastItem, Creating, Past
<1>10. /\ q \in PastWork(WorkOf[i]) /\ q \in PastItem(i)
       /\ status[j] = "absent" => q \in Creating(i)
  BY DEF PastWork, PastItem, Creating, Past
<1>11. \A s \in Slots : slot'[s] = slot[s]
  OBVIOUS
<1>12. \A s \in Slots : slot[s] = j => item[j] = i /\ status[j] # "absent"
  <2>1. ASSUME NEW s \in Slots, slot[s] = j PROVE status[j] # "absent"
    BY <2>1, EnqueueAssumption DEF IndInv, RunKnown
  <2> QED
    BY <2>1
<1> HIDE DEF i
<1>13. \A w : /\ OfWork(w)' \subseteq OfWork(w) \cup {j}
              /\ w # WorkOf[i] => OfWork(w)' \subseteq OfWork(w) \ {j}
  BY <1>3 DEF OfWork
<1>14. \A k : /\ OfItem(k)' \subseteq OfItem(k) \cup {j}
              /\ k # i => OfItem(k)' \subseteq OfItem(k) \ {j}
  BY <1>3 DEF OfItem
<1>15. /\ \A w : \A s \in Slots : slot[s] \in OfWork(w)' => slot[s] \in OfWork(w)
       /\ \A k : \A s \in Slots : slot[s] \in OfItem(k)' => slot[s] \in OfItem(k)
  BY <1>3, <1>12 DEF OfWork, OfItem
<1>16. ASSUME NEW G \in SUBSET Rows, NEW G1 \in SUBSET Rows, G1 \subseteq G \cup {j},
              \A s \in Slots : slot[s] \in G1 => slot[s] \in G
       PROVE  /\ TransfersNext(G1) \subseteq Transfers(G) \cup {j}
              /\ j \notin G1 => TransfersNext(G1) \subseteq Transfers(G)
  BY <1>3, <1>11, <1>16 DEF TransfersNext, Transfers
<1>17. /\ \A w : OfThisWork(w)' = TransfersNext(OfWork(w)')
       /\ \A k : OfThisItem(k)' = TransfersNext(OfItem(k)')
  BY DEF OfThisWork, OfThisItem, Transfers, TransfersNext
<1>18. /\ \A w : OfWork(w) \in SUBSET Rows /\ OfWork(w)' \in SUBSET Rows
       /\ \A k : OfItem(k) \in SUBSET Rows /\ OfItem(k)' \in SUBSET Rows
  BY DEF OfWork, OfItem
<1>19. /\ \A w : \/ OfThisWork(w)' \subseteq OfThisWork(w)
                 \/ w = WorkOf[i] /\ OfThisWork(w)' \subseteq OfThisWork(w) \cup {j}
       /\ \A k : \/ OfThisItem(k)' \subseteq OfThisItem(k)
                 \/ k = i /\ OfThisItem(k)' \subseteq OfThisItem(k) \cup {j}
  <2>1. \A w : \/ TransfersNext(OfWork(w)') \subseteq Transfers(OfWork(w))
               \/ /\ w = WorkOf[i]
                  /\ TransfersNext(OfWork(w)') \subseteq Transfers(OfWork(w)) \cup {j}
    BY <1>13, <1>15, <1>16, <1>18
  <2>2. \A k : \/ TransfersNext(OfItem(k)') \subseteq Transfers(OfItem(k))
               \/ /\ k = i
                  /\ TransfersNext(OfItem(k)') \subseteq Transfers(OfItem(k)) \cup {j}
    BY <1>14, <1>15, <1>16, <1>18
  <2> QED
    BY <1>17, <2>1, <2>2 DEF OfThisWork, OfThisItem
<1>20. \A k : \/ ListedOf(k)' \subseteq ListedOf(k)
              \/ /\ k = i /\ status[j] = "absent"
                 /\ ListedOf(k)' \subseteq ListedOf(k) \cup {j}
  <2>1. CASE status[j] = "absent"
    BY <1>3, <2>1 DEF ListedOf, OfItem, Listed
  <2>2. CASE status[j] # "absent"
    BY <1>3, <2>2 DEF ListedOf, OfItem, Listed, i
  <2> QED
    BY <2>1, <2>2
<1>21. peak + late = n /\ peak' + late' = n1
  OBVIOUS
<1> HIDE DEF n, n1
<1>22. ASSUME NEW w \in Works, Together(w)
       PROVE  Within(OfThisWork(w)', PastWork(w)', n1)
  <2>1. Within(OfThisWork(w), PastWork(w), n)
    BY <1>21, <1>22 DEF IndInv, WorkBound
  <2>2. \/ OfThisWork(w)' \subseteq OfThisWork(w) /\ PastWork(w)' \subseteq PastWork(w)
        \/ /\ q \in PastWork(w) /\ OfThisWork(w)' \subseteq OfThisWork(w) \cup {j}
           /\ PastWork(w)' \subseteq PastWork(w) \ {q}
    BY <1>9, <1>10, <1>19
  <2>3. /\ OfThisWork(w) \in SUBSET Tokens /\ PastWork(w) \in SUBSET Requests
        /\ OfThisWork(w)' \in SUBSET Tokens /\ PastWork(w)' \in SUBSET Requests
    BY Parts, PartsPrime
  <2> QED
    BY <1>7, <2>1, <2>2, <2>3, WithinStep
<1>23. ASSUME NEW k \in Items
       PROVE  Within(OfThisItem(k)', PastItem(k)', n1)
  <2>1. Within(OfThisItem(k), PastItem(k), n)
    BY <1>21 DEF IndInv, ItemBound
  <2>2. \/ OfThisItem(k)' \subseteq OfThisItem(k) /\ PastItem(k)' \subseteq PastItem(k)
        \/ /\ q \in PastItem(k) /\ OfThisItem(k)' \subseteq OfThisItem(k) \cup {j}
           /\ PastItem(k)' \subseteq PastItem(k) \ {q}
    BY <1>9, <1>10, <1>19
  <2>3. /\ OfThisItem(k) \in SUBSET Tokens /\ PastItem(k) \in SUBSET Requests
        /\ OfThisItem(k)' \in SUBSET Tokens /\ PastItem(k)' \in SUBSET Requests
    BY Parts, PartsPrime
  <2> QED
    BY <1>7, <2>1, <2>2, <2>3, WithinStep
<1>24. ASSUME NEW k \in Items
       PROVE  Within(ListedOf(k)', Creating(k)', n1)
  <2>1. Within(ListedOf(k), Creating(k), n)
    BY <1>21 DEF IndInv, ListBound
  <2>2. \/ ListedOf(k)' \subseteq ListedOf(k) /\ Creating(k)' \subseteq Creating(k)
        \/ /\ q \in Creating(k) /\ ListedOf(k)' \subseteq ListedOf(k) \cup {j}
           /\ Creating(k)' \subseteq Creating(k) \ {q}
    BY <1>9, <1>10, <1>20
  <2>3. /\ ListedOf(k) \in SUBSET Tokens /\ Creating(k) \in SUBSET Requests
        /\ ListedOf(k)' \in SUBSET Tokens /\ Creating(k)' \in SUBSET Requests
    BY Parts, PartsPrime
  <2> QED
    BY <1>7, <2>1, <2>2, <2>3, WithinStep
<1>25. WorkBound' /\ ItemBound' /\ ListBound'
  BY <1>21, <1>22, <1>23, <1>24 DEF WorkBound, ItemBound, ListBound, Together
<1> QED
  BY <1>4, <1>5, <1>6, <1>8, <1>25 DEF IndInv

LEMMA ReviveStep ==
    ASSUME IndInv, NEW q \in Requests, Revive(q)
    PROVE  IndInv'
<1>1. PICK j \in Rows : j = request[q].previous /\ item[j] = request[q].item
                        /\ status[j] # "absent"
  BY DEF Revive, IndInv, Known
<1>2. /\ request[q].pc = "revive" /\ Answer(q) /\ Taken({j})
      /\ UNCHANGED <<item, spooled, slot, shown, clearing, peak>>
      /\ status' = IF j \in Listed THEN [status EXCEPT ![j] = "queued"] ELSE status
  BY <1>1 DEF Revive, Overwrite
<1> DEFINE D == {k \in {j} : status[k] = "running"}
<1>3. /\ late' \in 0..MaxLate /\ late <= late' /\ D \in SUBSET Rows
      /\ late + Cardinality(D) <= late'
  BY <1>2, TakenFacts DEF IndInv
<1>4. CASE j \notin Listed
  <2>1. status[j] # "running"
    BY <1>4 DEF Listed
  <2>2. Cardinality(D) = 0
    <3>1. D = {}
      BY <2>1
    <3> QED
      BY <3>1, FS_EmptySet
  <2>3. late' = late
    BY <1>2, <2>2, Typing DEF Taken, IndInv
  <2> QED
    BY <1>2, <1>4, <2>3, AnswerStep
<1>5. CASE j \in Listed
  <2>1. status' = [status EXCEPT ![j] = "queued"]
    BY <1>2, <1>5
  <2>2. item' = [item EXCEPT ![j] = request[q].item]
    BY <1>1, <1>2 DEF IndInv, TypeOK
  <2>3. status[j] \notin {"absent", "deleted"} /\ request[q].pc \in Past /\ Answer(q)
    BY <1>2, <1>5 DEF Listed, Past
  <2>4. UNCHANGED <<spooled, slot, shown, clearing, peak>>
    BY <1>2
  <2>5. PICK E \in SUBSET Rows :
          late + Cardinality(E) <= late' /\ (status[j] = "running" => j \in E)
    BY <1>3
  <2>6. late' \in 0..MaxLate /\ late <= late' /\ item[j] = request[q].item
    BY <1>1, <1>3
  <2> HIDE DEF D
  <2> QED
    BY <2>1, <2>2, <2>3, <2>4, <2>5, <2>6, LandStep, Zenon
<1> QED
  BY <1>4, <1>5

LEMMA CreateStep ==
    ASSUME IndInv, NEW q \in Requests, NEW j \in Rows, Create(q, j)
    PROVE  IndInv'
<1>1. Cardinality({}) = 0 /\ late \in Nat
  BY FS_EmptySet, Typing DEF IndInv
<1>2. late' = late /\ late' \in 0..MaxLate /\ late + Cardinality({}) <= late' /\ late <= late'
  BY <1>1 DEF Create, IndInv, TypeOK
<1>3. /\ request[q].pc = "create" /\ status[j] = "absent" /\ Answer(q)
      /\ status' = [status EXCEPT ![j] = "queued"]
      /\ item' = [item EXCEPT ![j] = request[q].item]
      /\ UNCHANGED <<spooled, slot, shown, clearing, peak>>
  BY DEF Create
<1>4. request[q].pc \in Past /\ (status[j] = "running" => j \in {}) /\ {} \in SUBSET Rows
  BY <1>3 DEF Past
<1> QED
  BY <1>2, <1>3, <1>4, LandStep
-----------------------------------------------------------------------------
(***************************************************************************)
(* Steps of the rows, of the runs and of the list.                         *)
(***************************************************************************)
\* Rows end, or go on, and none is added.
LEMMA RowsStep ==
    ASSUME IndInv, TypeOK', RunKnown', HiddenBound', UNCHANGED <<item, request, peak>>,
           late <= late',
           \A j \in Rows : /\ status'[j] \notin {"absent", "deleted"} =>
                                status[j] \notin {"absent", "deleted"}
                           /\ status'[j] = "absent" <=> status[j] = "absent",
           \A G \in SUBSET Rows :
             Changed(Transfers(G), TransfersNext(G))
    PROVE  IndInv'
<1> DEFINE n == peak + late
           n1 == peak' + late'
<1>1. Known'
  BY DEF IndInv, Known
<1>2. Counted'
  <2>1. UnderWay' \subseteq UnderWay /\ peak' = peak
    BY DEF UnderWay
  <2> QED
    BY <2>1, CountedStep DEF IndInv
<1>3. n \in Nat /\ n1 \in Nat /\ n <= n1
  <2>1. peak \in Nat /\ late \in Nat /\ late' \in Nat /\ peak' = peak
    BY Typing, EnqueueAssumption DEF IndInv, TypeOK
  <2>2. \A a, b, c \in Nat : b <= c => a + b \in Nat /\ a + c \in Nat /\ a + b <= a + c
    OBVIOUS
  <2>3. late <= late'
    OBVIOUS
  <2> QED
    BY <2>1, <2>2, <2>3
<1>4. /\ \A w : PastWork(w)' = PastWork(w)
      /\ \A i : /\ PastItem(i)' = PastItem(i) /\ Creating(i)' = Creating(i)
                /\ ListedOf(i)' \subseteq ListedOf(i)
  BY DEF PastWork, PastItem, Creating, OfItem, ListedOf, Listed
<1>5. /\ \A w : OfThisWork(w)' = TransfersNext(OfWork(w)) /\ OfWork(w) \in SUBSET Rows
      /\ \A i : OfThisItem(i)' = TransfersNext(OfItem(i)) /\ OfItem(i) \in SUBSET Rows
  <2>1. \A w : OfWork(w)' = OfWork(w)
    BY DEF OfWork
  <2>2. \A i : OfItem(i)' = OfItem(i)
    BY DEF OfItem
  <2>3. /\ \A w : OfThisWork(w)' = TransfersNext(OfWork(w)')
        /\ \A i : OfThisItem(i)' = TransfersNext(OfItem(i)')
    BY DEF OfThisWork, OfThisItem, Transfers, TransfersNext
  <2>4. /\ \A w : OfWork(w) \in SUBSET Rows
        /\ \A i : OfItem(i) \in SUBSET Rows
    BY DEF OfWork, OfItem
  <2> QED
    BY <2>1, <2>2, <2>3, <2>4
<1>6. peak + late = n /\ peak' + late' = n1
  OBVIOUS
<1> HIDE DEF n, n1
<1>7. ASSUME NEW w \in Works, Together(w)
      PROVE  Within(OfThisWork(w)', PastWork(w)', n1)
  <2>1. Within(OfThisWork(w), PastWork(w), n)
    BY <1>6, <1>7 DEF IndInv, WorkBound
  <2>2. Changed(OfThisWork(w), OfThisWork(w)')
    BY <1>5 DEF OfThisWork
  <2>3. /\ OfThisWork(w) \in SUBSET Tokens /\ PastWork(w) \in SUBSET Requests
        /\ OfThisWork(w)' \in SUBSET Tokens /\ PastWork(w)' \subseteq PastWork(w)
    BY <1>4, Parts, PartsPrime
  <2> QED
    BY <1>3, <2>1, <2>2, <2>3, WithinStep DEF Changed
<1>8. ASSUME NEW i \in Items
      PROVE  Within(OfThisItem(i)', PastItem(i)', n1)
  <2>1. Within(OfThisItem(i), PastItem(i), n)
    BY <1>6 DEF IndInv, ItemBound
  <2>2. Changed(OfThisItem(i), OfThisItem(i)')
    BY <1>5 DEF OfThisItem
  <2>3. /\ OfThisItem(i) \in SUBSET Tokens /\ PastItem(i) \in SUBSET Requests
        /\ OfThisItem(i)' \in SUBSET Tokens /\ PastItem(i)' \subseteq PastItem(i)
    BY <1>4, Parts, PartsPrime
  <2> QED
    BY <1>3, <2>1, <2>2, <2>3, WithinStep DEF Changed
<1>9. ASSUME NEW i \in Items
      PROVE  Within(ListedOf(i)', Creating(i)', n1)
  <2>1. Within(ListedOf(i), Creating(i), n)
    BY <1>6 DEF IndInv, ListBound
  <2>2. /\ ListedOf(i) \in SUBSET Tokens /\ Creating(i) \in SUBSET Requests
        /\ ListedOf(i)' \in SUBSET Tokens /\ Creating(i)' \subseteq Creating(i)
    BY <1>4, Parts, PartsPrime
  <2> QED
    BY <1>3, <1>4, <2>1, <2>2, WithinStep
<1>10. WorkBound' /\ ItemBound' /\ ListBound'
  BY <1>6, <1>7, <1>8, <1>9 DEF WorkBound, ItemBound, ListBound, Together
<1> QED
  BY <1>1, <1>2, <1>10 DEF IndInv

\* Rows are written, none is queued by it, and the runs go on.
LEMMA WriteStep ==
    ASSUME IndInv, TypeOK', UNCHANGED <<item, slot, request, peak>>, NEW D \in SUBSET Rows,
           late + Cardinality(D) <= late',
           \A j \in Rows :
             /\ status'[j] # status[j] => status'[j] \in {"canceled", "deleted"}
             /\ status'[j] # status[j] => status[j] \notin {"absent", "deleted"}
             /\ status[j] = "running" /\ status'[j] # status[j] => j \in D
    PROVE  IndInv'
<1>1. late \in Nat /\ late' \in Nat /\ Cardinality(D) \in Nat
  BY Typing, EnqueueAssumption, RowsFinite DEF IndInv, TypeOK
<1>2. late <= late'
  BY <1>1
<1>3. RunKnown' /\ HiddenBound'
  <2>1. \A j \in Rows :
          /\ status'[j] = "running" => status[j] = "running"
          /\ status[j] = "running" => status'[j] = "running" \/ j \in D
          /\ status'[j] = "absent" => status[j] = "absent"
    BY Zenon
  <2> QED
    BY <1>1, <2>1, WrittenRows
<1>4. ASSUME NEW G \in SUBSET Rows PROVE Changed(Transfers(G), TransfersNext(G))
  BY DEF TransfersNext, Transfers, Changed
<1>5. \A j \in Rows : /\ status'[j] \notin {"absent", "deleted"} =>
                           status[j] \notin {"absent", "deleted"}
                      /\ status'[j] = "absent" <=> status[j] = "absent"
  OBVIOUS
<1> QED
  BY <1>2, <1>3, <1>4, <1>5, RowsStep

\* The rows keep their status.
LEMMA QuietStep ==
    ASSUME IndInv, TypeOK', UNCHANGED <<status, item, slot, request, late, peak>>
    PROVE  IndInv'
<1>1. late + Cardinality({}) <= late' /\ {} \in SUBSET Rows
  BY FS_EmptySet, Typing DEF IndInv
<1> QED
  BY <1>1, WriteStep

LEMMA CancelStep ==
    ASSUME IndInv, NEW j \in Rows, Cancel(j)
    PROVE  IndInv'
<1> DEFINE D == {k \in {j} : status[k] = "running"}
<1>1. /\ j \in Listed /\ Taken({j})
      /\ UNCHANGED <<item, spooled, slot, shown, clearing, request, peak>>
      /\ status' = [status EXCEPT ![j] = "canceled"]
  BY DEF Cancel, Overwrite, others
<1>2. late' \in 0..MaxLate /\ D \in SUBSET Rows /\ late + Cardinality(D) <= late'
  BY <1>1, TakenFacts DEF IndInv
<1>3. /\ status \in [Rows -> Statuses] /\ status' \in [Rows -> Statuses]
  BY <1>1 DEF IndInv, TypeOK, Statuses, Stopped
<1>4. TypeOK'
  BY <1>1, <1>2, <1>3 DEF IndInv, TypeOK
<1>5. \A k \in Rows :
        /\ status'[k] # status[k] => status'[k] \in {"canceled", "deleted"}
        /\ status'[k] # status[k] => status[k] \notin {"absent", "deleted"}
        /\ status[k] = "running" /\ status'[k] # status[k] => k \in D
  BY <1>1, <1>3 DEF Listed
<1>6. UNCHANGED <<item, slot, request, peak>>
  BY <1>1
<1> HIDE DEF D
<1> QED
  BY <1>2, <1>4, <1>5, <1>6, WriteStep

LEMMA ClearStep ==
    ASSUME IndInv, Clear
    PROVE  IndInv'
<1>1. CASE ReadFinished
  <2>1. TypeOK'
    BY <1>1 DEF ReadFinished, IndInv, TypeOK
  <2> QED
    BY <1>1, <2>1, QuietStep DEF ReadFinished
<1>2. CASE DeleteFinished
  <2> DEFINE D == {k \in clearing : status[k] = "running"}
  <2>1. clearing \in SUBSET Rows /\ status \in [Rows -> Statuses]
    BY DEF IndInv, TypeOK
  <2>2. /\ clearing' = {} /\ Taken(clearing)
        /\ UNCHANGED <<item, spooled, slot, shown, request, peak>>
        /\ status' = [j \in Rows |-> IF j \in clearing \cap Listed THEN "deleted" ELSE status[j]]
    BY <1>2 DEF DeleteFinished
  <2>3. late' \in 0..MaxLate /\ D \in SUBSET Rows /\ late + Cardinality(D) <= late'
    BY <2>1, <2>2, TakenFacts DEF IndInv
  <2>4. TypeOK'
    BY <2>1, <2>2, <2>3 DEF IndInv, TypeOK, Statuses
  <2>5. \A k \in Rows :
          /\ status'[k] # status[k] => status'[k] \in {"canceled", "deleted"}
          /\ status'[k] # status[k] => status[k] \notin {"absent", "deleted"}
          /\ status[k] = "running" /\ status'[k] # status[k] => k \in D
    BY <2>1, <2>2 DEF Listed
  <2>6. UNCHANGED <<item, slot, request, peak>>
    BY <2>2
  <2> HIDE DEF D
  <2> QED
    BY <2>3, <2>4, <2>5, <2>6, WriteStep
<1> QED
  BY <1>1, <1>2 DEF Clear

LEMMA RenderStep ==
    ASSUME IndInv, Render
    PROVE  IndInv'
<1>1. Offered \subseteq Rows
  BY OfferedAlone DEF IndInv, Listed
<1>2. /\ shown' = shown \cup Offered
      /\ UNCHANGED <<status, item, spooled, slot, clearing, request, late, peak>>
  BY DEF Render
<1>3. TypeOK'
  BY <1>1, <1>2 DEF IndInv, TypeOK
<1> QED
  BY <1>2, <1>3, QuietStep

LEMMA SpoolStep ==
    ASSUME IndInv,
           \/ \E j \in Rows : Evict(j)
           \/ \E s \in Slots : Download(s)
    PROVE  IndInv'
<1>1. /\ UNCHANGED <<status, item, slot, shown, clearing, request, late, peak>>
      /\ \E j \in Rows : \E b \in BOOLEAN : spooled' = [spooled EXCEPT ![j] = b]
  <2>1. ASSUME NEW j \in Rows, Evict(j)
        PROVE  spooled' = [spooled EXCEPT ![j] = FALSE]
    BY <2>1 DEF Evict
  <2>2. ASSUME NEW s \in Slots, Download(s)
        PROVE  slot[s] \in Rows /\ spooled' = [spooled EXCEPT ![slot[s]] = TRUE]
    BY <2>2 DEF Download, Listed
  <2>3. UNCHANGED <<status, item, slot, shown, clearing, request, late, peak>>
    BY DEF Evict, Download, others
  <2>4. \E j \in Rows : \E b \in BOOLEAN : spooled' = [spooled EXCEPT ![j] = b]
    BY <2>1, <2>2, Zenon
  <2> QED
    BY <2>3, <2>4
<1>2. TypeOK'
  BY <1>1 DEF IndInv, TypeOK
<1> QED
  BY <1>1, <1>2, QuietStep

\* A queued row becomes a run.
LEMMA ClaimStep ==
    ASSUME IndInv, NEW j \in Rows, NEW s \in Slots, Claim(j, s)
    PROVE  IndInv'
<1>1. /\ status[j] = "queued" /\ status' = [status EXCEPT ![j] = "running"]
      /\ slot[s] = None /\ slot' = [slot EXCEPT ![s] = j]
      /\ UNCHANGED <<item, spooled, shown, clearing, request, late, peak>>
  BY DEF Claim, others
<1>2. /\ status \in [Rows -> Statuses] /\ status' \in [Rows -> Statuses] /\ status'[j] = "running"
      /\ \A k \in Rows \ {j} : status'[k] = status[k]
      /\ slot \in [Slots -> Rows \cup {None}] /\ slot' \in [Slots -> Rows \cup {None}]
      /\ slot'[s] = j /\ \A t \in Slots \ {s} : slot'[t] = slot[t]
  BY <1>1 DEF IndInv, TypeOK, Statuses, Live
<1>3. None \notin Rows /\ late \in Nat /\ late' = late
  BY <1>1, EnqueueAssumption, Typing DEF IndInv
<1>4. TypeOK'
  BY <1>1, <1>2 DEF IndInv, TypeOK
<1>5. RunKnown'
  <2>1. ASSUME NEW t \in Slots, slot'[t] # None
        PROVE  slot'[t] \in Rows /\ status'[slot'[t]] # "absent"
    <3>1. CASE t = s
      BY <1>2, <3>1
    <3>2. CASE t # s
      <4>1. slot[t] \in Rows /\ status[slot[t]] # "absent"
        BY <1>2, <2>1, <3>2 DEF IndInv, RunKnown
      <4> QED
        BY <1>2, <3>2, <4>1
    <3> QED
      BY <3>1, <3>2
  <2>2. ASSUME NEW k \in Rows, status'[k] = "running"
        PROVE  \E t \in Slots : slot'[t] = k
    <3>1. CASE k = j
      BY <1>2, <3>1
    <3>2. CASE k # j
      <4>1. PICK t \in Slots : slot[t] = k
        BY <1>2, <2>2, <3>2 DEF IndInv, RunKnown
      <4>2. t # s
        BY <1>1, <1>3, <4>1
      <4> QED
        BY <1>2, <4>1, <4>2
    <3> QED
      BY <3>1, <3>2
  <2> QED
    BY <2>1, <2>2 DEF RunKnown
<1>6. ASSUME NEW A \in SUBSET Rows
      PROVE  Cardinality(RunsNext(A)) <= Cardinality(RunningNext(A)) + late'
  <2>1. Cardinality(RunsOn(A)) <= Cardinality(RunningIn(A)) + late
    BY DEF IndInv, HiddenBound
  <2>2. /\ RunsOn(A) \in SUBSET Slots /\ RunsNext(A) \in SUBSET Slots
        /\ RunningIn(A) \in SUBSET Rows /\ RunningNext(A) \in SUBSET Rows
    BY DEF RunsOn, RunsNext, RunningIn, RunningNext
  <2>3. CASE j \in A
    <3>1. /\ RunsNext(A) \subseteq RunsOn(A) \cup {s}
          /\ RunningIn(A) \cup {j} \subseteq RunningNext(A)
          /\ j \notin RunningIn(A)
      BY <1>1, <1>2, <2>3 DEF RunsOn, RunsNext, RunningIn, RunningNext
    <3>2. Cardinality(RunsNext(A)) <= Cardinality(RunsOn(A)) + 1
      BY <2>2, <3>1, HiddenSizes, OneMore
    <3>3. Cardinality(RunningIn(A)) + 1 <= Cardinality(RunningNext(A))
      BY <2>2, <3>1, HiddenSizes, OneLess
    <3> QED
      BY <1>3, <2>1, <2>2, <3>2, <3>3, HiddenSizes
  <2>4. CASE j \notin A
    <3>1. /\ RunsNext(A) \subseteq RunsOn(A) /\ RunningIn(A) \subseteq RunningNext(A) \cup {}
          /\ {} \in SUBSET Rows
      BY <1>2, <2>4 DEF RunsOn, RunsNext, RunningIn, RunningNext
    <3>2. late + Cardinality({}) <= late'
      BY <1>3, FS_EmptySet
    <3> QED
      BY <1>3, <2>1, <2>2, <3>1, <3>2, HiddenWrite
  <2> QED
    BY <2>3, <2>4
<1>7. HiddenBound'
  BY <1>6 DEF HiddenBound, RunsOn, RunningIn, RunsNext, RunningNext
<1>8. ASSUME NEW G \in SUBSET Rows
      PROVE  Changed(Transfers(G), TransfersNext(G))
  <2>1. j \notin Slots
    BY EnqueueAssumption
  <2>2. CASE j \in G
    <3>1. j \in Transfers(G)
      BY <1>1, <2>2 DEF Transfers
    <3>2. TransfersNext(G) \subseteq (Transfers(G) \ {j}) \cup {s}
      BY <1>2, <2>1 DEF Transfers, TransfersNext
    <3> QED
      BY <3>1, <3>2 DEF Changed
  <2>3. CASE j \notin G
    BY <1>2, <2>3 DEF Transfers, TransfersNext, Changed
  <2> QED
    BY <2>2, <2>3
<1>9. \A k \in Rows : /\ status'[k] \notin {"absent", "deleted"} =>
                           status[k] \notin {"absent", "deleted"}
                      /\ status'[k] = "absent" <=> status[k] = "absent"
  BY <1>1, <1>2
<1>10. UNCHANGED <<item, request, peak>> /\ late <= late'
  BY <1>1, <1>3
<1> QED
  BY <1>4, <1>5, <1>7, <1>8, <1>9, <1>10, RowsStep

\* A run is over, and its row says how it ended, if there is one.
LEMMA EndStep ==
    ASSUME IndInv, NEW s \in Slots, NEW outcome \in {"completed", "queued", "failed", "canceled"},
           End(s, outcome)
    PROVE  IndInv'
<1>1. PICK j \in Rows : j = slot[s] /\ status[j] # "absent"
  BY DEF End, IndInv, RunKnown
<1>2. /\ slot' = [slot EXCEPT ![s] = None]
      /\ status' = IF j \in Listed THEN [status EXCEPT ![j] = outcome] ELSE status
      /\ \E b \in BOOLEAN : spooled' = IF j \in Listed THEN [spooled EXCEPT ![j] = b] ELSE spooled
      /\ UNCHANGED <<item, shown, clearing, request, late, peak>>
  <2> DEFINE b == outcome \in {"queued", "failed"}
  <2>1. b \in BOOLEAN /\ spooled' = IF j \in Listed THEN [spooled EXCEPT ![j] = b] ELSE spooled
    BY <1>1 DEF End
  <2> HIDE DEF b
  <2>2. \E c \in BOOLEAN : spooled' = IF j \in Listed THEN [spooled EXCEPT ![j] = c] ELSE spooled
    BY <2>1
  <2> QED
    BY <1>1, <2>2 DEF End, Overwrite, others
<1>3. /\ status \in [Rows -> Statuses] /\ status' \in [Rows -> Statuses]
      /\ status'[j] = "deleted" \/ status'[j] = outcome
      /\ status'[j] = "deleted" => status[j] = "deleted"
      /\ status[j] = "deleted" => status'[j] = "deleted"
      /\ \A k \in Rows \ {j} : status'[k] = status[k]
      /\ slot \in [Slots -> Rows \cup {None}] /\ slot' \in [Slots -> Rows \cup {None}]
      /\ slot'[s] = None /\ \A t \in Slots \ {s} : slot'[t] = slot[t]
  <2>1. status \in [Rows -> Statuses] /\ slot \in [Slots -> Rows \cup {None}]
    BY DEF IndInv, TypeOK
  <2>2. outcome \in Statuses /\ outcome # "deleted"
    BY DEF Statuses, Live, Stopped
  <2> QED
    BY <1>1, <1>2, <2>1, <2>2 DEF Listed
<1>4. None \notin Rows /\ late \in Nat /\ late' = late
  BY <1>2, EnqueueAssumption, Typing DEF IndInv
<1>5. TypeOK'
  <2>1. spooled' \in [Rows -> BOOLEAN]
    BY <1>2 DEF IndInv, TypeOK
  <2> QED
    BY <1>2, <1>3, <2>1 DEF IndInv, TypeOK
<1>6. status'[j] # "running" /\ status'[j] # "absent"
  BY <1>3
<1>7. RunKnown'
  <2>1. ASSUME NEW t \in Slots, slot'[t] # None
        PROVE  slot'[t] \in Rows /\ status'[slot'[t]] # "absent"
    <3>1. slot'[t] = slot[t]
      BY <1>3, <2>1
    <3>2. slot[t] \in Rows /\ status[slot[t]] # "absent"
      BY <2>1, <3>1 DEF IndInv, RunKnown
    <3> QED
      BY <1>3, <1>6, <3>1, <3>2
  <2>2. ASSUME NEW k \in Rows, status'[k] = "running"
        PROVE  \E t \in Slots : slot'[t] = k
    <3>1. k # j /\ status[k] = "running"
      BY <1>3, <1>6, <2>2
    <3>2. PICK t \in Slots : slot[t] = k
      BY <3>1 DEF IndInv, RunKnown
    <3> QED
      BY <1>1, <1>3, <3>1, <3>2
  <2> QED
    BY <2>1, <2>2 DEF RunKnown
<1>8. ASSUME NEW A \in SUBSET Rows
      PROVE  Cardinality(RunsNext(A)) <= Cardinality(RunningNext(A)) + late'
  <2>1. Cardinality(RunsOn(A)) <= Cardinality(RunningIn(A)) + late
    BY DEF IndInv, HiddenBound
  <2>2. /\ RunsOn(A) \in SUBSET Slots /\ RunsNext(A) \in SUBSET Slots
        /\ RunningIn(A) \in SUBSET Rows /\ RunningNext(A) \in SUBSET Rows
    BY DEF RunsOn, RunsNext, RunningIn, RunningNext
  <2>3. CASE j \in A
    <3>1. /\ s \in RunsOn(A) /\ RunsNext(A) \subseteq RunsOn(A) \ {s}
          /\ RunningIn(A) \subseteq RunningNext(A) \cup {j}
      BY <1>1, <1>3, <1>4, <2>3 DEF RunsOn, RunsNext, RunningIn, RunningNext
    <3>2. Cardinality(RunsNext(A)) + 1 <= Cardinality(RunsOn(A))
      <4>1. RunsNext(A) \cup {s} \subseteq RunsOn(A) /\ s \notin RunsNext(A)
        BY <3>1
      <4> QED
        BY <2>2, <4>1, HiddenSizes, OneLess
    <3>3. Cardinality(RunningIn(A)) <= Cardinality(RunningNext(A)) + 1
      BY <2>2, <3>1, HiddenSizes, OneMore
    <3> QED
      BY <1>4, <2>1, <2>2, <3>2, <3>3, HiddenSizes
  <2>4. CASE j \notin A
    <3>1. /\ RunsNext(A) \subseteq RunsOn(A) /\ RunningIn(A) \subseteq RunningNext(A) \cup {}
          /\ {} \in SUBSET Rows
      BY <1>3, <1>4, <2>4 DEF RunsOn, RunsNext, RunningIn, RunningNext
    <3>2. late + Cardinality({}) <= late'
      BY <1>4, FS_EmptySet
    <3> QED
      BY <1>4, <2>1, <2>2, <3>1, <3>2, HiddenWrite
  <2> QED
    BY <2>3, <2>4
<1>9. HiddenBound'
  BY <1>8 DEF HiddenBound, RunsOn, RunningIn, RunsNext, RunningNext
<1>10. ASSUME NEW G \in SUBSET Rows
       PROVE  Changed(Transfers(G), TransfersNext(G))
  <2>1. s \notin Rows
    BY EnqueueAssumption
  <2>2. CASE j \in G
    <3>1. s \in Transfers(G)
      BY <1>1, <2>2 DEF Transfers
    <3>2. TransfersNext(G) \subseteq (Transfers(G) \ {s}) \cup {j}
      BY <1>3, <1>4, <2>1 DEF Transfers, TransfersNext
    <3> QED
      BY <3>1, <3>2 DEF Changed
  <2>3. CASE j \notin G
    BY <1>3, <1>4, <2>3 DEF Transfers, TransfersNext, Changed
  <2> QED
    BY <2>2, <2>3
<1>11. \A k \in Rows : /\ status'[k] \notin {"absent", "deleted"} =>
                            status[k] \notin {"absent", "deleted"}
                       /\ status'[k] = "absent" <=> status[k] = "absent"
  BY <1>1, <1>3, <1>6
<1>12. UNCHANGED <<item, request, peak>> /\ late <= late'
  BY <1>2, <1>4
<1> QED
  BY <1>5, <1>7, <1>9, <1>10, <1>11, <1>12, RowsStep

\* A retry queues a row: one of whose work and item nothing is live but for runs without
\* their rows, or one more.
LEMMA RetryStep ==
    ASSUME IndInv, NEW j \in Rows, Retry(j)
    PROVE  IndInv'
<1> DEFINE n == peak + late
           n1 == peak' + late'
           i == item[j]
<1>1. /\ j \in Listed /\ status' = [status EXCEPT ![j] = "queued"]
      /\ UNCHANGED <<item, spooled, slot, shown, clearing, request, peak>>
      /\ \/ j \in Offered /\ UnderWay = {} /\ late' = late
         \/ late < MaxLate /\ late' = late + 1
  BY DEF Retry, Overwrite, others
<1>2. /\ status \in [Rows -> Statuses] /\ status' \in [Rows -> Statuses]
      /\ status'[j] = "queued" /\ \A k \in Rows \ {j} : status'[k] = status[k]
      /\ status[j] \notin {"absent", "deleted"}
  BY <1>1 DEF IndInv, TypeOK, Statuses, Live, Listed
<1>3. TypeOK' /\ late' \in Nat /\ late \in Nat /\ peak \in Nat
  <2>1. late' \in 0..MaxLate
    BY <1>1, EnqueueAssumption DEF IndInv, TypeOK
  <2>2. late' \in Nat /\ late \in Nat /\ peak \in Nat
    BY <2>1, EnqueueAssumption, Typing DEF IndInv
  <2> QED
    BY <1>1, <1>2, <2>1, <2>2 DEF IndInv, TypeOK
<1>4. Known'
  BY <1>1, <1>2 DEF IndInv, Known
<1>5. Counted'
  <2>1. UnderWay' \subseteq UnderWay /\ peak' = peak
    BY <1>1 DEF UnderWay
  <2>2. \A k \in Rows : status'[k] # "absent" => status[k] # "absent"
    BY <1>1, <1>2
  <2> QED
    BY <2>1, <2>2, CountedStep DEF IndInv
<1>6. n \in Nat /\ n1 \in Nat /\ n <= n1 /\ peak >= 1 /\ (late' # late => n < n1)
  <2>1. peak >= 1 /\ peak' = peak
    BY <1>1, <1>2 DEF IndInv, Counted
  <2>2. late' = late \/ late' = late + 1
    BY <1>1
  <2>3. \A a, b, c \in Nat : c = b \/ c = b + 1 =>
          a + b \in Nat /\ a + c \in Nat /\ a + b <= a + c /\ (c # b => a + b < a + c)
    OBVIOUS
  <2> QED
    BY <1>3, <2>1, <2>2, <2>3, Zenon
<1>7. i \in Items
  BY <1>1, <1>2 DEF IndInv, Known
<1>8. RunKnown' /\ HiddenBound'
  <2>1. CASE late' = late
    <3>1. status[j] # "running"
      BY <1>1, <1>3, <2>1, OfferedAlone DEF IndInv, Stopped
    <3>2. late + Cardinality({}) <= late' /\ {} \in SUBSET Rows
      BY <1>3, <2>1, FS_EmptySet
    <3>3. \A k \in Rows :
            /\ status'[k] = "running" => status[k] = "running"
            /\ status[k] = "running" => status'[k] = "running" \/ k \in {}
            /\ status'[k] = "absent" => status[k] = "absent"
      BY <1>2, <3>1
    <3> QED
      BY <1>1, <1>3, <3>2, <3>3, WrittenRows
  <2>2. CASE late' # late
    <3>1. late + Cardinality({j}) <= late' /\ {j} \in SUBSET Rows
      <4>1. late' = late + 1 /\ j \in Rows
        BY <1>1, <2>2 DEF Listed
      <4>2. Cardinality({j}) = 1
        BY FS_Singleton
      <4> QED
        BY <1>3, <4>1, <4>2
    <3>2. \A k \in Rows :
            /\ status'[k] = "running" => status[k] = "running"
            /\ status[k] = "running" => status'[k] = "running" \/ k \in {j}
            /\ status'[k] = "absent" => status[k] = "absent"
      BY <1>2
    <3> QED
      BY <1>1, <1>3, <3>1, <3>2, WrittenRows
  <2> QED
    BY <2>1, <2>2
<1>9. /\ \A w : PastWork(w)' = PastWork(w)
      /\ \A k : /\ PastItem(k)' = PastItem(k) /\ Creating(k)' = Creating(k)
                /\ ListedOf(k)' \subseteq ListedOf(k)
  BY <1>1, <1>2 DEF PastWork, PastItem, Creating, ListedOf, OfItem, Listed
<1>10. /\ \A w : OfThisWork(w)' = TransfersNext(OfWork(w)) /\ OfWork(w) \in SUBSET Rows
       /\ \A k : OfThisItem(k)' = TransfersNext(OfItem(k)) /\ OfItem(k) \in SUBSET Rows
  <2>1. \A w : OfWork(w)' = OfWork(w)
    BY <1>1, <1>2 DEF OfWork
  <2>2. \A k : OfItem(k)' = OfItem(k)
    BY <1>1 DEF OfItem
  <2>3. /\ \A w : OfThisWork(w)' = TransfersNext(OfWork(w)')
        /\ \A k : OfThisItem(k)' = TransfersNext(OfItem(k)')
    BY DEF OfThisWork, OfThisItem, Transfers, TransfersNext
  <2>4. /\ \A w : OfWork(w) \in SUBSET Rows
        /\ \A k : OfItem(k) \in SUBSET Rows
    BY DEF OfWork, OfItem
  <2> QED
    BY <2>1, <2>2, <2>3, <2>4
<1>11. ASSUME NEW G \in SUBSET Rows
       PROVE  /\ TransfersNext(G) \subseteq Transfers(G) \cup {j}
              /\ j \notin G => TransfersNext(G) \subseteq Transfers(G)
  BY <1>1, <1>2 DEF TransfersNext, Transfers
<1>12. /\ \A w : \/ OfThisWork(w)' \subseteq OfThisWork(w)
                 \/ w = WorkOf[i] /\ OfThisWork(w)' \subseteq OfThisWork(w) \cup {j}
       /\ \A k : \/ OfThisItem(k)' \subseteq OfThisItem(k)
                 \/ k = i /\ OfThisItem(k)' \subseteq OfThisItem(k) \cup {j}
  <2>1. /\ \A w : j \in OfWork(w) => w = WorkOf[i]
        /\ \A k : j \in OfItem(k) => k = i
    BY DEF OfWork, OfItem
  <2> QED
    BY <1>10, <1>11, <2>1 DEF OfThisWork, OfThisItem
<1>13. ASSUME late' = late
       PROVE  /\ \A w \in Works : w = WorkOf[i] /\ Together(w) =>
                    Cardinality(OfThisWork(w)) <= late
              /\ Cardinality(OfThisItem(i)) <= late /\ UnderWay = {}
  <2>1. j \in Offered /\ UnderWay = {}
    BY <1>1, <1>3, <1>13
  <2>2. \A k \in Listed : GroupOf[item[k]] = GroupOf[i] => status[k] \in Stopped
    BY <2>1, OfferedAlone DEF IndInv
  <2>3. \A k \in Rows : status[k] \in Live =>
          k \in Listed /\ status[k] \notin Stopped /\ item[k] \in Items
    BY DEF IndInv, Known, Live, Stopped, Listed
  <2>4. LiveOfItem(i) = {}
    BY <2>2, <2>3 DEF LiveOfItem, OfItem
  <2>5. ASSUME Together(WorkOf[i]) PROVE LiveOfWork(WorkOf[i]) = {}
    <3>1. \A k \in Rows : status[k] \in Live /\ WorkOf[item[k]] = WorkOf[i] =>
            GroupOf[item[k]] = GroupOf[i]
      BY <2>3, <2>5, <1>7 DEF Together
    <3> QED
      BY <2>2, <2>3, <3>1 DEF LiveOfWork
  <2> QED
    BY <2>1, <2>4, <2>5, HiddenOf DEF IndInv
<1>14. late' # late => n < n1
  BY <1>6
<1>15. peak + late = n /\ peak' + late' = n1 /\ (late' = late => n1 = peak + late)
  BY <1>1
<1> HIDE DEF n, n1, i
<1>16. ASSUME NEW w \in Works, Together(w)
       PROVE  Within(OfThisWork(w)', PastWork(w)', n1)
  <2>1. Within(OfThisWork(w), PastWork(w), n)
    BY <1>15, <1>16 DEF IndInv, WorkBound
  <2>2. /\ OfThisWork(w) \in SUBSET Tokens /\ PastWork(w) \in SUBSET Requests
        /\ OfThisWork(w)' \in SUBSET Tokens /\ PastWork(w)' \in SUBSET Requests
    BY Parts, PartsPrime
  <2>3. CASE OfThisWork(w)' \subseteq OfThisWork(w)
    BY <1>6, <1>9, <2>1, <2>2, <2>3, WithinStep
  <2>4. CASE w = WorkOf[i] /\ OfThisWork(w)' \subseteq OfThisWork(w) \cup {j} /\ late' # late
    BY <1>6, <1>9, <1>14, <2>1, <2>2, <2>4, WithinStep
  <2>5. CASE w = WorkOf[i] /\ OfThisWork(w)' \subseteq OfThisWork(w) \cup {j} /\ late' = late
    <3>1. Cardinality(OfThisWork(w)) <= late /\ PastWork(w)' = {}
      BY <1>9, <1>13, <1>16, <2>5, Parts
    <3>2. Within(OfThisWork(w)', {}, peak + late)
      BY <1>3, <1>6, <2>2, <2>5, <3>1, WithinOne
    <3> QED
      BY <1>15, <2>5, <3>1, <3>2
  <2> QED
    BY <1>12, <2>3, <2>4, <2>5
<1>17. ASSUME NEW k \in Items
       PROVE  Within(OfThisItem(k)', PastItem(k)', n1)
  <2>1. Within(OfThisItem(k), PastItem(k), n)
    BY <1>15 DEF IndInv, ItemBound
  <2>2. /\ OfThisItem(k) \in SUBSET Tokens /\ PastItem(k) \in SUBSET Requests
        /\ OfThisItem(k)' \in SUBSET Tokens /\ PastItem(k)' \in SUBSET Requests
    BY Parts, PartsPrime
  <2>3. CASE OfThisItem(k)' \subseteq OfThisItem(k)
    BY <1>6, <1>9, <2>1, <2>2, <2>3, WithinStep
  <2>4. CASE k = i /\ OfThisItem(k)' \subseteq OfThisItem(k) \cup {j} /\ late' # late
    BY <1>6, <1>9, <1>14, <2>1, <2>2, <2>4, WithinStep
  <2>5. CASE k = i /\ OfThisItem(k)' \subseteq OfThisItem(k) \cup {j} /\ late' = late
    <3>1. Cardinality(OfThisItem(k)) <= late /\ PastItem(k)' = {}
      BY <1>9, <1>13, <2>5, Parts
    <3>2. Within(OfThisItem(k)', {}, peak + late)
      BY <1>3, <1>6, <2>2, <2>5, <3>1, WithinOne
    <3> QED
      BY <1>15, <2>5, <3>1, <3>2
  <2> QED
    BY <1>12, <2>3, <2>4, <2>5
<1>18. ASSUME NEW k \in Items
       PROVE  Within(ListedOf(k)', Creating(k)', n1)
  <2>1. Within(ListedOf(k), Creating(k), n)
    BY <1>15 DEF IndInv, ListBound
  <2>2. /\ ListedOf(k) \in SUBSET Tokens /\ Creating(k) \in SUBSET Requests
        /\ ListedOf(k)' \in SUBSET Tokens /\ Creating(k)' \in SUBSET Requests
    BY Parts, PartsPrime
  <2> QED
    BY <1>6, <1>9, <2>1, <2>2, WithinStep
<1>19. WorkBound' /\ ItemBound' /\ ListBound'
  BY <1>15, <1>16, <1>17, <1>18 DEF WorkBound, ItemBound, ListBound, Together
<1> QED
  BY <1>3, <1>4, <1>5, <1>8, <1>19 DEF IndInv

LEMMA IndInvStep == IndInv /\ [Next]_vars => IndInv'
<1> SUFFICES ASSUME IndInv, [Next]_vars PROVE IndInv'
  OBVIOUS
<1>1. ASSUME NEW q \in Requests, NEW i \in Items, Ask(q, i) PROVE IndInv'
  BY <1>1, AskStep
<1>2. ASSUME NEW q \in Requests, RequestStep(q) PROVE IndInv'
  BY <1>2, FindSameItemStep, FindSameWorkStep, FindStoppedStep, ReviveStep, CreateStep
     DEF RequestStep
<1>3. ASSUME NEW j \in Rows, RowStep(j) PROVE IndInv'
  BY <1>3, CancelStep, ClaimStep DEF RowStep
<1>4. ASSUME NEW s \in Slots, RunStep(s) PROVE IndInv'
  BY <1>4, SpoolStep, EndStep DEF RunStep
<1>5. ASSUME NEW j \in Rows, Retry(j) \/ Evict(j) PROVE IndInv'
  BY <1>5, RetryStep, SpoolStep
<1>6. CASE Clear \/ Render
  BY <1>6, ClearStep, RenderStep
<1>7. CASE UNCHANGED vars
  <2>1. UNCHANGED <<status, item, spooled, slot, shown, clearing, request, late, peak>>
    BY <1>7 DEF vars
  <2>2. TypeOK'
    BY <2>1 DEF IndInv, TypeOK
  <2> QED
    BY <2>1, <2>2, QuietStep
<1> QED
  BY <1>1, <1>2, <1>3, <1>4, <1>5, <1>6, <1>7 DEF Next

LEMMA Invariance == Spec => []IndInv
  BY InitHolds, IndInvStep, PTL DEF Spec
-----------------------------------------------------------------------------
\* Rows, runs, requests and the two counts keep their types.
THEOREM EnqueueTypesHold == Spec => []TypeOK
<1>1. IndInv => TypeOK
  BY DEF IndInv
<1> QED
  BY <1>1, Invariance, PTL

\* A work is transferred once, and an item has one row, but for a surplus of one for each
\* further call that was ever under way at once, for each write that took a row from its run
\* and for each late retry (enqueueSync's checks, cancelJob, retryJob, clearFinishedJobs,
\* what a run writes, and the groups of the list).
THEOREM SurplusBoundedHolds == Spec => []SurplusBounded
<1>1. IndInv => SurplusBounded
  <2> SUFFICES ASSUME IndInv PROVE SurplusBounded
    OBVIOUS
  <2>1. ASSUME NEW A \in SUBSET Tokens, NEW B \in SUBSET Requests, Within(A, B, peak + late)
        PROVE  Cardinality(A) <= peak + late
    <3>1. Cardinality(A) \in Nat /\ Cardinality(B) \in Nat /\ peak + late \in Nat
      BY TokensFinite, RequestsFinite, Typing DEF IndInv
    <3> QED
      BY <2>1, <3>1 DEF Within
  <2>2. ASSUME NEW w \in WorksTogether PROVE Cardinality(Transfers(OfWork(w))) <= peak + late
    <3>1. w \in Works /\ Together(w)
      BY <2>2 DEF Works, WorksTogether
    <3>2. Within(OfThisWork(w), PastWork(w), peak + late)
      BY <3>1 DEF IndInv, WorkBound
    <3> QED
      BY <2>1, <3>2, Parts DEF OfThisWork
  <2>3. ASSUME NEW i \in Items
        PROVE  /\ Cardinality(Transfers(OfItem(i))) <= peak + late
               /\ Cardinality(OfItem(i) \cap Listed) <= peak + late
    <3>1. Within(OfThisItem(i), PastItem(i), peak + late)
          /\ Within(ListedOf(i), Creating(i), peak + late)
      BY DEF IndInv, ItemBound, ListBound
    <3>2. /\ OfThisItem(i) \in SUBSET Tokens /\ PastItem(i) \in SUBSET Requests
          /\ ListedOf(i) \in SUBSET Tokens /\ Creating(i) \in SUBSET Requests
      BY Parts
    <3>3. /\ Cardinality(OfThisItem(i)) <= peak + late
          /\ Cardinality(ListedOf(i)) <= peak + late
      BY <2>1, <3>1, <3>2
    <3> QED
      BY <3>3 DEF OfThisItem, ListedOf
  <2> QED
    BY <2>2, <2>3 DEF SurplusBounded
<1> QED
  BY <1>1, Invariance, PTL
=============================================================================
