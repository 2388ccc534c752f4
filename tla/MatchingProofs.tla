--------------------------- MODULE MatchingProofs ---------------------------
(***************************************************************************)
(* What holds of the matching of books and of what is made of it, for any  *)
(* books, however alike, any number of sources and of watches: every       *)
(* audiobook of a comparison is accounted for once (Diff), what a watch    *)
(* queues is like nothing that the target has, and a pass asks for nothing *)
(* that its server had when the index was read (Watches).                  *)
(*                                                                         *)
(* Missing goes through the sources one by one, so what it returns is      *)
(* proved by its shortest part that would be wrong, after the existence of *)
(* the recursive function has been, in the same way.                       *)
(***************************************************************************)
EXTENDS Diff, Watches, FiniteSetTheorems, WellFoundedInduction, TLAPS

-----------------------------------------------------------------------------
(***************************************************************************)
(* What two books score.                                                   *)
(***************************************************************************)
\* Of some numbers one is the least.
LEMMA Least ==
    ASSUME NEW T \in SUBSET Nat, T # {}
    PROVE  \E m \in T : \A n \in T : m <= n
<1> DEFINE R == StrictSubsetOrdering(Nat)
           F == FiniteSubsetsOf(Nat)
           Below == {0..n : n \in T}
<1>1. IsWellFoundedOn(R, F)
  BY FS_StrictSubsetOrderingWellFounded
<1>2. \A n \in Nat : 0..n \in F
  <2>1. ASSUME NEW n \in Nat PROVE IsFiniteSet(0..n)
    <3>1. 0 \in Int /\ n \in Int
      OBVIOUS
    <3> QED
      BY <3>1, FS_Interval
  <2> QED
    BY <2>1 DEF FiniteSubsetsOf
<1>3. Below \subseteq F /\ Below # {}
  <2> HIDE DEF F
  <2> QED
    BY <1>2
<1>4. \A m, n \in Nat : n < m => <<0..n, 0..m>> \in R
  <2> SUFFICES ASSUME NEW m \in Nat, NEW n \in Nat, n < m PROVE <<0..n, 0..m>> \in R
    OBVIOUS
  <2>1. 0..n \subseteq 0..m /\ 0..n # 0..m /\ 0..m \subseteq Nat
    <3>1. m \in 0..m /\ m \notin 0..n
      OBVIOUS
    <3> QED
      BY <3>1
  <2> QED
    BY <2>1 DEF StrictSubsetOrdering
<1> HIDE DEF R, F
<1>5. PICK x \in Below : \A y \in Below : ~ (<<y, x>> \in R)
  <2> HIDE DEF Below
  <2> QED
    BY <1>1, <1>3, WFMin
<1>6. PICK m \in T : x = 0..m
  BY <1>5
<1>7. \A n \in T : m <= n
  <2>1. ASSUME NEW n \in T PROVE m <= n
    <3>1. 0..n \in Below
      OBVIOUS
    <3>2. ~ (<<0..n, 0..m>> \in R)
      BY <3>1, <1>5, <1>6
    <3> QED
      BY <3>2, <1>4
  <2> QED
    BY <2>1
<1> QED
  BY <1>7

\* The tables and the runtimes of two books are numbers.
LEMMA Tables ==
    ASSUME NEW b \in Books, NEW c \in Books
    PROVE  /\ TitleSimilarity[<<Identity[b].title, Identity[c].title>>] \in Nat
           /\ Known(Identity[b].author, Identity[c].author) =>
                NameSimilarity[<<Identity[b].author, Identity[c].author>>] \in Nat
           /\ Known(Identity[b].duration, Identity[c].duration) =>
                Identity[b].duration \in Nat /\ Identity[c].duration \in Nat
<1>1. /\ TitleSimilarity[<<Identity[b].title, Identity[c].title>>] \in 0..100
      /\ Known(Identity[b].author, Identity[c].author) =>
             NameSimilarity[<<Identity[b].author, Identity[c].author>>] \in 0..100
      /\ Identity[b].duration \in Nat \cup {Unknown}
      /\ Identity[c].duration \in Nat \cup {Unknown}
  BY MatchingAssumption, Zenon
<1> QED
  BY <1>1 DEF Known

\* Runtimes within a tenth are the same runtime, however the rest falls out.
LEMMA NearlyTheSame ==
    ASSUME NEW x \in Nat, NEW y \in Nat, Known(x, y),
           10 * (Longer(x, y) - Shorter(x, y)) <= Longer(x, y)
    PROVE  DurationRelation(x, y) = "same"
<1> DEFINE long == Longer(x, y)
           short == Shorter(x, y)
<1>1. long \in Nat /\ short \in Nat
  BY DEF Longer, Shorter
<1> HIDE DEF long, short
<1> QED
  BY <1>1, SMTT(30) DEF DurationRelation, long, short

\* Two known runtimes are alike to a degree that is a number: beyond a tenth, neither is zero.
LEMMA SimilarityType ==
    ASSUME NEW b \in Books, NEW c \in Books,
           Known(Identity[b].duration, Identity[c].duration)
    PROVE  DurationSimilarity(Identity[b].duration, Identity[c].duration) \in Nat
<1> DEFINE x == Identity[b].duration
           y == Identity[c].duration
<1>1. x \in Nat /\ y \in Nat
  BY Tables
<1> DEFINE long == Longer(x, y)
           short == Shorter(x, y)
<1>0. Known(x, y)
  OBVIOUS
<1> SUFFICES DurationSimilarity(x, y) \in Nat
  OBVIOUS
<1> HIDE DEF x, y
<1>2. long \in Nat /\ short \in Nat /\ short <= long
  BY <1>1 DEF Longer, Shorter
<1>3. CASE DurationRelation(x, y) = "same"
  BY <1>3 DEF DurationSimilarity
<1>4. CASE DurationRelation(x, y) # "same"
  <2>1. 10 * (long - short) > long
    <3>1. ~(10 * (long - short) <= long)
      BY <1>0, <1>1, <1>4, NearlyTheSame
    <3> QED
      BY <3>1, <1>2
  <2>2. long > 0
    BY <2>1, <1>2
  <2>3. (200 * (long - short)) \div long \in Int
    <3>1. 200 * (long - short) \in Int
      BY <1>2
    <3> HIDE DEF long, short
    <3> QED
      BY <3>1, <2>2, <1>2
  <2> DEFINE v == 120 - (200 * (long - short)) \div long
  <2>4. v \in Int
    BY <2>3
  <2>5. DurationSimilarity(x, y) = Max({0, v})
    BY <1>4 DEF DurationSimilarity
  <2> HIDE DEF v
  <2>6. Max({0, v}) \in {0, v} /\ Max({0, v}) >= 0
    <3>1. \E m \in {0, v} : \A n \in {0, v} : m >= n
      BY <2>4
    <3>2. (CHOOSE m \in {0, v} : \A n \in {0, v} : m >= n) \in {0, v}
      BY <3>1
    <3>3. \A n \in {0, v} : (CHOOSE m \in {0, v} : \A n1 \in {0, v} : m >= n1) >= n
      BY <3>1
    <3> QED
      BY <3>2, <3>3 DEF Max
  <2> QED
    BY <2>4, <2>5, <2>6
<1> QED
  BY <1>3, <1>4

\* The weighted mean is a number, and more than nothing if the titles are alike to the full.
LEMMA WeightedFacts ==
    ASSUME NEW b \in Books, NEW c \in Books,
           NEW x, x = Identity[b], NEW y, y = Identity[c]
    PROVE  /\ Weighted(x, y) \in Nat
           /\ /\ TitleSimilarity[<<x.title, y.title>>] = 100
              /\ Known(x.author, y.author) /\ NameSimilarity[<<x.author, y.author>>] = 100
              => Weighted(x, y) > 0
<1> DEFINE authors == Known(x.author, y.author)
           durations == Known(x.duration, y.duration)
                          /\ DurationRelation(x.duration, y.duration) # "artifact"
           t == TitleSimilarity[<<x.title, y.title>>]
           n == IF authors THEN 30 * NameSimilarity[<<x.author, y.author>>] ELSE 0
           d == IF durations THEN 15 * DurationSimilarity(x.duration, y.duration) ELSE 0
           whole == 55 + (IF authors THEN 30 ELSE 0) + (IF durations THEN 15 ELSE 0)
<1>1. t \in Nat
  BY Tables
<1>2. n \in Nat
  <2>1. authors => NameSimilarity[<<x.author, y.author>>] \in Nat
    BY Tables
  <2> HIDE DEF authors
  <2> QED
    BY <2>1
<1>3. d \in Nat
  <2>1. durations => DurationSimilarity(x.duration, y.duration) \in Nat
    BY SimilarityType
  <2> HIDE DEF durations
  <2> QED
    BY <2>1
<1>4. whole \in {55, 70, 85, 100}
  OBVIOUS
<1>5. Weighted(x, y) = (100 * (55 * t + n + d)) \div whole
  BY DEF Weighted
<1>6. t = 100 /\ authors /\ NameSimilarity[<<x.author, y.author>>] = 100 => t = 100 /\ n = 3000
  OBVIOUS
<1> HIDE DEF t, n, d, whole, authors
<1>7. (100 * (55 * t + n + d)) \div whole \in Nat
  BY <1>1, <1>2, <1>3, <1>4
<1>8. t = 100 => (100 * (55 * t + n + d)) \div whole > 0
  BY <1>1, <1>2, <1>3, <1>4
<1> QED
  BY <1>5, <1>6, <1>7, <1>8 DEF t, authors

\* The score is one of at most 10000, and what makes a tier has some.
LEMMA ScoreFacts ==
    ASSUME NEW b \in Books, NEW c \in Books,
           NEW x, x = Identity[b], NEW y, y = Identity[c]
    PROVE  /\ Score(x, y) \in Nat /\ Score(x, y) <= 10000
           /\ Tier(x, y, Score(x, y)) # "none" => Score(x, y) > 0
<1> DEFINE w == Weighted(x, y)
           plus == IF SameSeries(x, y) /\ x.sequence # Unknown /\ x.sequence = y.sequence
                   THEN 400 ELSE 0
           raised == Shorter(10000, w + plus)
<1>1. w \in Nat /\ plus \in Nat
  <2>1. w \in Nat
    BY WeightedFacts
  <2>2. plus \in Nat
    OBVIOUS
  <2> QED
    BY <2>1, <2>2
<1>2. raised \in Nat /\ raised <= 10000 /\ (w > 0 => raised > 0)
  <2> HIDE DEF w, plus
  <2> QED
    BY <1>1 DEF Shorter
<1>3. Score(x, y) = IF NamesConflict(x.author, y.author) THEN Longer(0, raised - 2000) ELSE raised
  BY DEF Score
<1>4. Score(x, y) \in Nat /\ Score(x, y) <= 10000
  <2> HIDE DEF raised
  <2> QED
    BY <1>2, <1>3 DEF Longer
<1>5. ASSUME Tier(x, y, Score(x, y)) # "none" PROVE Score(x, y) > 0
  <2>1. CASE Score(x, y) >= FuzzyThreshold \/ Score(x, y) >= StrongThreshold
    BY <2>1, <1>4 DEF FuzzyThreshold, StrongThreshold
  <2>2. CASE ~(Score(x, y) >= FuzzyThreshold \/ Score(x, y) >= StrongThreshold)
    <3>1. /\ TitleSimilarity[<<x.title, y.title>>] = 100
          /\ Known(x.author, y.author) /\ NameSimilarity[<<x.author, y.author>>] = 100
      BY <2>2, <1>5 DEF Tier
    <3>2. w > 0
      BY <3>1, WeightedFacts
    <3>3. ~NamesConflict(x.author, y.author)
      BY <3>1 DEF NamesConflict, NameConflict
    <3> QED
      BY <3>2, <3>3, <1>2, <1>3
  <2> QED
    BY <2>1, <2>2
<1> QED
  BY <1>4, <1>5

\* What two books score is a number of four digits at most, and more than nothing if they
\* match.
LEMMA MatchFacts ==
    ASSUME NEW b \in Books, NEW c \in Books
    PROVE  /\ Match(b, c).score \in Nat /\ Match(b, c).score <= 10000
           /\ Match(b, c) # NoMatch <=> Match(b, c).score > 0
<1> DEFINE x == Identity[b]
           y == Identity[c]
           score == Score(x, y)
<1>1. score \in Nat /\ score <= 10000 /\ (Tier(x, y, score) # "none" => score > 0)
  BY ScoreFacts
<1>2. /\ Graded(Tier(x, y, score), score).score \in Nat
      /\ Graded(Tier(x, y, score), score).score <= 10000
      /\ Graded(Tier(x, y, score), score) # NoMatch
           <=> Graded(Tier(x, y, score), score).score > 0
  <2> HIDE DEF score, x, y
  <2> QED
    BY <1>1 DEF Graded, NoMatch
<1>3. /\ ScoreIdentities(x, y).score \in Nat /\ ScoreIdentities(x, y).score <= 10000
      /\ ScoreIdentities(x, y) # NoMatch <=> ScoreIdentities(x, y).score > 0
  <2>1. \/ ScoreIdentities(x, y) = NoMatch
        \/ ScoreIdentities(x, y) = [tier |-> "asin", score |-> 10000]
        \/ ScoreIdentities(x, y) = [tier |-> "isbn", score |-> 9950]
        \/ ScoreIdentities(x, y) = Graded(Tier(x, y, score), score)
    BY DEF ScoreIdentities
  <2> HIDE DEF score, x, y
  <2> QED
    BY <2>1, <1>2 DEF NoMatch
<1> QED
  BY <1>3 DEF Match, NoMatch

-----------------------------------------------------------------------------
(***************************************************************************)
(* The best of several books.                                              *)
(***************************************************************************)
\* The best match there is, or that there is none.
LEMMA BestFacts ==
    ASSUME NEW b \in Books, NEW shelf \in Seq(Books),
           NEW found, found = FindBest(b, shelf)
    PROVE  \/ /\ found.match = NoMatch
              /\ \A n \in DOMAIN shelf : Match(b, shelf[n]) = NoMatch
           \/ /\ found.match # NoMatch
              /\ \E n \in DOMAIN shelf : /\ found.candidate = shelf[n]
                                         /\ found.match = Match(b, shelf[n])
<1> DEFINE matches == [n \in DOMAIN shelf |-> Match(b, shelf[n])]
           Beats(n, m) ==
               \/ matches[m].score < matches[n].score
               \/ /\ matches[m].score = matches[n].score
                  /\ Decisive(matches[m]) => Decisive(matches[n])
                  /\ (Decisive(matches[n]) => Decisive(matches[m])) => n <= m
           best == {n \in DOMAIN shelf :
                      matches[n] # NoMatch /\ \A m \in DOMAIN shelf : Beats(n, m)}
           first == CHOOSE n \in best : TRUE
<1>1. \A n \in DOMAIN shelf :
        /\ matches[n].score \in Nat /\ matches[n].score <= 10000
        /\ matches[n] # NoMatch <=> matches[n].score > 0
  BY MatchFacts
<1>2. DOMAIN shelf \subseteq Nat
  OBVIOUS
<1>3. found = IF best = {} THEN [candidate |-> Unknown, match |-> NoMatch]
              ELSE [candidate |-> shelf[first], match |-> matches[first]]
  BY DEF FindBest, BestOf
<1>4. ASSUME NEW k \in DOMAIN shelf, matches[k] # NoMatch PROVE best # {}
  <2> DEFINE gaps == {10000 - matches[n].score : n \in DOMAIN shelf}
  <2>1. gaps \subseteq Nat /\ gaps # {}
    <3>1. \A n \in DOMAIN shelf : 10000 - matches[n].score \in Nat
      <4> HIDE DEF matches
      <4> QED
        BY <1>1
    <3> QED
      BY <3>1, <1>4
  <2>2. /\ \A n \in DOMAIN shelf : 10000 - matches[n].score \in gaps
        /\ \A gap \in gaps : \E n \in DOMAIN shelf : gap = 10000 - matches[n].score
    OBVIOUS
  <2> HIDE DEF gaps, matches
  <2>3. PICK gap \in gaps : \A other \in gaps : gap <= other
    BY <2>1, Least
  <2>4. PICK n1 \in DOMAIN shelf : gap = 10000 - matches[n1].score
    BY <2>2
  <2>5. \A m \in DOMAIN shelf : matches[m].score <= matches[n1].score
    <3>1. ASSUME NEW m \in DOMAIN shelf PROVE matches[m].score <= matches[n1].score
      <4>1. 10000 - matches[m].score \in gaps
        BY <2>2
      <4>2. 10000 - matches[n1].score <= 10000 - matches[m].score
        <5> DEFINE other == 10000 - matches[m].score
        <5>1. other \in gaps
          BY <4>1
        <5> HIDE DEF other
        <5>2. gap <= other
          BY <5>1, <2>3
        <5> QED
          BY <5>2, <2>4 DEF other
      <4>3. matches[m].score \in Nat /\ matches[n1].score \in Nat
        BY <1>1
      <4> QED
        BY <4>2, <4>3
    <3> QED
      BY <3>1
  <2> DEFINE highest == {n \in DOMAIN shelf : matches[n].score = matches[n1].score}
         decisive == {n \in highest : Decisive(matches[n])}
         pool == IF decisive # {} THEN decisive ELSE highest
  <2>6. PICK n \in pool : \A m \in pool : n <= m
    <3>1. pool \subseteq Nat /\ pool # {}
      BY <1>2
    <3> QED
      BY <3>1, Least
  <2>7. matches[n] # NoMatch
    <3>1. matches[k].score > 0
      BY <1>1, <1>4
    <3>2. matches[k].score <= matches[n].score
      BY <2>5, <2>6
    <3>3. matches[k].score \in Nat /\ matches[n].score \in Nat
      BY <1>1
    <3>4. matches[n].score > 0
      BY <3>1, <3>2, <3>3
    <3> QED
      BY <3>4, <1>1
  <2>8. ASSUME NEW m \in DOMAIN shelf PROVE Beats(n, m)
    <3>1. matches[m].score <= matches[n].score
      BY <2>5, <2>6
    <3>2. matches[m].score \in Nat /\ matches[n].score \in Nat
      BY <1>1
    <3>3. ASSUME matches[m].score = matches[n].score
          PROVE  /\ Decisive(matches[m]) => Decisive(matches[n])
                 /\ (Decisive(matches[n]) => Decisive(matches[m])) => n <= m
      BY <2>6, <3>3
    <3> QED
      BY <3>1, <3>2, <3>3
  <2>9. n \in best
    BY <2>7, <2>8
  <2> QED
    BY <2>9
<1>5. CASE best = {}
  <2>1. found.match = NoMatch
    <3> HIDE DEF best, first, matches
    <3> QED
      BY <1>5, <1>3
  <2>2. \A n \in DOMAIN shelf : matches[n] = NoMatch
    BY <1>4, <1>5
  <2> QED
    BY <2>1, <2>2
<1>6. CASE best # {}
  <2>1. first \in best
    BY <1>6
  <2>2. found.candidate = shelf[first] /\ found.match = matches[first]
    <3> HIDE DEF best, first, matches
    <3> QED
      BY <1>6, <1>3
  <2>3. first \in DOMAIN shelf /\ matches[first] # NoMatch
    BY <2>1
  <2> HIDE DEF first
  <2> QED
    BY <2>2, <2>3
<1> QED
  BY <1>5, <1>6

\* A book resembles a shelf if it matches a book of it, whichever comes out best.
LEMMA ResemblesFacts ==
    ASSUME NEW b \in Books, NEW shelf \in Seq(Books)
    PROVE  Resembles(b, shelf) <=> \E n \in DOMAIN shelf : Match(b, shelf[n]) # NoMatch
  BY BestFacts DEF Resembles

-----------------------------------------------------------------------------
(***************************************************************************)
(* The rows of a comparison.                                               *)
(***************************************************************************)
Cluster == [copies : Seq(Books), uncertain : BOOLEAN]
CopiesOf(list, n) == ToSet(list[n].copies)

\* Each of the books that were taken is in one row; and one that a book of the target
\* resembles makes its row uncertain.
Sorted(list, taken, shelf) ==
    /\ list \in Seq(Cluster)
    /\ \A n \in DOMAIN list : Len(list[n].copies) > 0 /\ CopiesOf(list, n) \subseteq taken
    /\ \A b \in taken : \E n \in DOMAIN list : b \in CopiesOf(list, n)
    /\ \A n, m \in DOMAIN list : n # m => CopiesOf(list, n) \cap CopiesOf(list, m) = {}
    /\ \A n \in DOMAIN list : ~list[n].uncertain =>
         \A b \in CopiesOf(list, n) : ~Resembles(b, shelf)

\* What a longer sequence has.
LEMMA AppendToSet ==
    ASSUME NEW S, NEW s \in Seq(S), NEW x \in S
    PROVE  ToSet(Append(s, x)) = ToSet(s) \cup {x}
<1>1. DOMAIN Append(s, x) = DOMAIN s \cup {Len(s) + 1}
  OBVIOUS
<1>2. \A i \in DOMAIN s : Append(s, x)[i] = s[i]
  OBVIOUS
<1>3. Append(s, x)[Len(s) + 1] = x
  OBVIOUS
<1> QED
  BY <1>1, <1>2, <1>3 DEF ToSet

\* What changes a row or adds one to it, book by book.
LEMMA OneMore ==
    ASSUME NEW list, NEW taken, NEW shelf, Sorted(list, taken, shelf),
           NEW book \in Books \ taken, NEW after \in Seq(Cluster), NEW m \in DOMAIN after,
           \A n \in DOMAIN after \ {m} :
               n \in DOMAIN list /\ after[n] = list[n],
           DOMAIN list \subseteq DOMAIN after,
           Len(after[m].copies) > 0,
           \/ m \in DOMAIN list /\ CopiesOf(after, m) = CopiesOf(list, m) \cup {book}
           \/ m \notin DOMAIN list /\ CopiesOf(after, m) = {book},
           ~after[m].uncertain => /\ ~Resembles(book, shelf)
                                  /\ m \in DOMAIN list => ~list[m].uncertain
    PROVE  Sorted(after, taken \cup {book}, shelf)
<1>1. \A n \in DOMAIN after \ {m} : n \in DOMAIN list /\ CopiesOf(after, n) = CopiesOf(list, n)
  BY DEF CopiesOf
<1>2. \A n \in DOMAIN list : CopiesOf(list, n) \subseteq CopiesOf(after, n)
  BY <1>1
<1>3. book \in CopiesOf(after, m)
  OBVIOUS
<1>4. \A n \in DOMAIN after :
        Len(after[n].copies) > 0 /\ CopiesOf(after, n) \subseteq taken \cup {book}
  BY <1>1 DEF Sorted
<1>5. \A b \in taken \cup {book} : \E n \in DOMAIN after : b \in CopiesOf(after, n)
  BY <1>2, <1>3 DEF Sorted
<1>6. \A n, k \in DOMAIN after : n # k => CopiesOf(after, n) \cap CopiesOf(after, k) = {}
  <2>1. ASSUME NEW n \in DOMAIN after \ {m}, NEW k \in DOMAIN after \ {m}, n # k
        PROVE  CopiesOf(after, n) \cap CopiesOf(after, k) = {}
    BY <2>1, <1>1 DEF Sorted
  <2>2. ASSUME NEW n \in DOMAIN after \ {m}
        PROVE  CopiesOf(after, n) \cap CopiesOf(after, m) = {}
    <3>1. n \in DOMAIN list /\ CopiesOf(after, n) = CopiesOf(list, n)
      BY <1>1
    <3>2. book \notin CopiesOf(list, n)
      BY <3>1 DEF Sorted
    <3>3. m \in DOMAIN list => CopiesOf(list, n) \cap CopiesOf(list, m) = {}
      BY <3>1 DEF Sorted
    <3> QED
      BY <3>1, <3>2, <3>3
  <2> QED
    BY <2>1, <2>2
<1>7. ASSUME NEW n \in DOMAIN after, ~after[n].uncertain, NEW b \in CopiesOf(after, n)
      PROVE  ~Resembles(b, shelf)
  <2>1. CASE n # m
    <3>1. n \in DOMAIN list /\ after[n] = list[n] /\ b \in CopiesOf(list, n)
      BY <1>1, <1>7, <2>1
    <3> QED
      BY <3>1, <1>7 DEF Sorted
  <2>2. CASE n = m /\ b # book
    <3>1. m \in DOMAIN list /\ b \in CopiesOf(list, m) /\ ~list[m].uncertain
      BY <1>7, <2>2
    <3> QED
      BY <3>1 DEF Sorted
  <2>3. CASE n = m /\ b = book
    BY <1>7, <2>3
  <2> QED
    BY <2>1, <2>2, <2>3
<1> QED
  BY <1>4, <1>5, <1>6, <1>7 DEF Sorted

\* A record is what its fields are.
LEMMA TheRecord ==
    ASSUME NEW a, NEW b, NEW r \in [copies : {a}, uncertain : {b}]
    PROVE  r = [copies |-> a, uncertain |-> b]
OBVIOUS

\* A row of which both fields are written.
LEMMA BothFields ==
    ASSUME NEW S, NEW T, NEW r \in [copies : S, uncertain : T], NEW a, NEW b
    PROVE  [r EXCEPT !.copies = a, !.uncertain = b] = [copies |-> a, uncertain |-> b]
<1> DEFINE changed == [r EXCEPT !.copies = a, !.uncertain = b]
<1>1. changed \in [copies : {a}, uncertain : {b}]
  OBVIOUS
<1> HIDE DEF changed
<1>2. changed = [copies |-> a, uncertain |-> b]
  BY <1>1, TheRecord
<1> QED
  BY <1>2 DEF changed

\* One book more, in the row of the copy it is like or in one of its own, leaves the rows
\* sorted: also its doubt comes with it.
LEMMA JoinFacts ==
    ASSUME NEW list, NEW taken \in SUBSET Books, NEW shelf \in Seq(Books),
           Sorted(list, taken, shelf), NEW book \in Books \ taken
    PROVE  Sorted(Join(list, book, Resembles(book, shelf)), taken \cup {book}, shelf)
<1> DEFINE u == Resembles(book, shelf)
           best == FindBest(book, Founders(list))
           after == Join(list, book, u)
<1>1. /\ list \in Seq(Cluster)
      /\ \A n \in DOMAIN list : Len(list[n].copies) > 0
  BY DEF Sorted
<1>2. \A n \in DOMAIN list : list[n] \in Cluster /\ list[n].copies \in Seq(Books)
                             /\ list[n].uncertain \in BOOLEAN
  <2>1. \A n \in DOMAIN list : list[n] \in Cluster
    BY <1>1
  <2>2. \A r \in Cluster : r.copies \in Seq(Books) /\ r.uncertain \in BOOLEAN
    BY DEF Cluster
  <2> QED
    BY <2>1, <2>2
<1>3. u \in BOOLEAN
  BY DEF Resembles
<1>4. Founders(list) \in Seq(Books) /\ DOMAIN Founders(list) = DOMAIN list
  <2>1. \A n \in DOMAIN list : list[n].copies[1] \in Books
    BY <1>1, <1>2
  <2> QED
    BY <2>1, <1>1 DEF Founders
<1>5. CASE Confident(best.match)
  <2>1. best.match # NoMatch
    BY <1>5 DEF Confident, NoMatch
  <2>2. \E n \in DOMAIN list : list[n].copies[1] = best.candidate
    <3>1. PICK n \in DOMAIN Founders(list) : best.candidate = Founders(list)[n]
      BY <2>1, <1>4, BestFacts
    <3> QED
      BY <3>1, <1>4 DEF Founders
  <2> DEFINE m == CHOOSE k \in DOMAIN list : list[k].copies[1] = best.candidate
             new == [copies |-> Append(list[m].copies, book),
                     uncertain |-> list[m].uncertain \/ u]
  <2>3. m \in DOMAIN list
    BY <2>2
  <2>4. after = [list EXCEPT ![m].copies = Append(@, book), ![m].uncertain = @ \/ u]
    BY <1>5 DEF Join
  <2> HIDE DEF best, u, m
  <2>5. after = [list EXCEPT ![m] = new]
    <3> DEFINE both == list[m].uncertain \/ u
               copies == Append(list[m].copies, book)
    <3>1. after = [list EXCEPT ![m].copies = copies, ![m].uncertain = both]
      BY <2>4, <2>3, <1>1
    <3>2. list[m] \in Cluster
      BY <2>3, <1>2
    <3> HIDE DEF after, both, copies
    <3>3. [list[m] EXCEPT !.copies = copies, !.uncertain = both]
            = [copies |-> copies, uncertain |-> both]
      BY <3>2, BothFields DEF Cluster
    <3>4. after = [list EXCEPT ![m] = [list[m] EXCEPT !.copies = copies, !.uncertain = both]]
      BY <3>1, <2>3, <1>1
    <3> QED
      BY <3>3, <3>4 DEF both, copies
  <2> HIDE DEF after
  <2>6. new \in Cluster
    BY <2>3, <1>2, <1>3 DEF Cluster
  <2>7. after \in Seq(Cluster) /\ DOMAIN after = DOMAIN list
    BY <2>3, <2>5, <2>6, <1>1
  <2>8. after[m] = new /\ \A n \in DOMAIN list \ {m} : after[n] = list[n]
    BY <2>3, <2>5, <1>1
  <2>9. CopiesOf(after, m) = CopiesOf(list, m) \cup {book}
    BY <2>3, <2>8, <1>2, AppendToSet DEF CopiesOf
  <2>10. Len(after[m].copies) > 0
    BY <2>3, <2>8, <1>2
  <2>11. ~after[m].uncertain => ~u /\ ~list[m].uncertain
    <3>1. after[m].uncertain = (list[m].uncertain \/ u)
      BY <2>8
    <3> QED
      BY <3>1, Zenon
  <2>12. Sorted(after, taken \cup {book}, shelf)
    BY <2>3, <2>7, <2>8, <2>9, <2>10, <2>11, OneMore DEF u
  <2> QED
    BY <2>12 DEF after, u
<1>6. CASE ~Confident(best.match)
  <2> DEFINE m == Len(list) + 1
             new == [copies |-> <<book>>, uncertain |-> u]
  <2>1. after = Append(list, new)
    BY <1>6 DEF Join
  <2> HIDE DEF best, u, after
  <2>2. new \in Cluster
    BY <1>3 DEF Cluster
  <2> HIDE DEF new
  <2>3. /\ after \in Seq(Cluster) /\ DOMAIN after = DOMAIN list \cup {m}
        /\ m \notin DOMAIN list
    BY <2>1, <2>2, <1>1
  <2>4. after[m] = new /\ \A n \in DOMAIN list : after[n] = list[n]
    BY <2>1, <1>1
  <2> HIDE DEF m
  <2>5. CopiesOf(after, m) = {book}
    <3>1. CopiesOf(after, m) = ToSet(<<book>>)
      BY <2>4 DEF CopiesOf, new
    <3>2. ToSet(<<book>>) = {book}
      BY DEF ToSet
    <3> QED
      BY <3>1, <3>2
  <2>6. Len(after[m].copies) > 0 /\ after[m].uncertain = u
    BY <2>4 DEF new
  <2>7. Sorted(after, taken \cup {book}, shelf)
    BY <2>3, <2>4, <2>5, <2>6, OneMore DEF u
  <2> QED
    BY <2>7 DEF after, u
<1> QED
  BY <1>5, <1>6

\* What Missing has made after n of the sources, and from which of them.
After(s, shelf, made, n) ==
    IF n = 0 THEN <<>>
    ELSE IF ~Pending(s[n], shelf) THEN made[n - 1]
    ELSE Join(made[n - 1], s[n], Resembles(s[n], shelf))
TakenUpTo(s, shelf, n) == {b \in {s[m] : m \in 1..n} : Pending(b, shelf)}

\* There is a function that makes each step of the one before: a least number up to which
\* there is none would have a predecessor.
LEMMA StepByStep ==
    ASSUME NEW s, NEW shelf, NEW n \in Nat
    PROVE  \E made : made = [k \in 0..n |-> After(s, shelf, made, k)]
<1> DEFINE P(k) == \E made : made = [i \in 0..k |-> After(s, shelf, made, i)]
           Bad == {k \in Nat : ~P(k)}
<1> SUFFICES Bad = {}
  OBVIOUS
<1> SUFFICES ASSUME Bad # {} PROVE FALSE
  OBVIOUS
<1>1. PICK m \in Bad : \A k \in Bad : m <= k
  <2>1. Bad \in SUBSET Nat
    OBVIOUS
  <2> HIDE DEF Bad
  <2> QED
    BY <2>1, Least
<1>2. m \in Nat /\ ~P(m)
  BY <1>1
<1>3. P(0)
  <2> DEFINE made == [i \in 0..0 |-> <<>>]
  <2>1. made = [i \in 0..0 |-> After(s, shelf, made, i)]
    <3>1. \A i \in 0..0 : After(s, shelf, made, i) = <<>>
      BY DEF After
    <3> QED
      BY <3>1
  <2> QED
    BY <2>1
<1>4. m - 1 \in Nat /\ P(m - 1)
  <2>1. m # 0
    <3> HIDE DEF P
    <3> QED
      BY <1>2, <1>3
  <2>2. m - 1 \in Nat /\ ~(m <= m - 1)
    BY <1>2, <2>1
  <2>3. m - 1 \notin Bad
    <3> HIDE DEF Bad
    <3> QED
      BY <1>1, <2>2
  <2> HIDE DEF P
  <2> QED
    BY <2>2, <2>3
<1>5. PICK made : made = [i \in 0..(m - 1) |-> After(s, shelf, made, i)]
  BY <1>4
<1> DEFINE more == [i \in 0..m |-> IF i = m THEN After(s, shelf, made, m) ELSE made[i]]
<1>6. \A i \in 0..m : i # m => i \in 0..(m - 1)
  BY <1>2
<1>7. \A i \in 0..m : After(s, shelf, more, i) = After(s, shelf, made, i)
  <2>1. ASSUME NEW i \in 0..m, i # 0
        PROVE  more[i - 1] = made[i - 1]
    BY <2>1, <1>2
  <2> HIDE DEF more
  <2> QED
    BY <2>1 DEF After
<1>8. more = [i \in 0..m |-> After(s, shelf, more, i)]
  <2>1. \A i \in 0..m : more[i] = After(s, shelf, made, i)
    <3>1. ASSUME NEW i \in 0..m, i # m
          PROVE  made[i] = After(s, shelf, made, i)
      BY <3>1, <1>5, <1>6
    <3> QED
      BY <3>1
  <2>2. more = [i \in 0..m |-> more[i]]
    OBVIOUS
  <2> HIDE DEF more
  <2> QED
    BY <2>1, <2>2, <1>7
<1>9. P(m)
  <2> HIDE DEF more
  <2> QED
    BY <1>8
<1> QED
  BY <1>2, <1>9

\* The unfolding of the recursive function.
LEMMA MadeStepByStep ==
    ASSUME NEW s \in Seq(Books), NEW shelf
    PROVE  \E made : /\ made = [k \in 0..Len(s) |-> After(s, shelf, made, k)]
                     /\ Missing(s, shelf) = made[Len(s)]
<1> DEFINE made == CHOOSE f : f = [n \in 0..Len(s) |-> After(s, shelf, f, n)]
<1>1. Len(s) \in Nat
  OBVIOUS
<1>2. \E f : f = [n \in 0..Len(s) |-> After(s, shelf, f, n)]
  BY <1>1, StepByStep
<1>3. made = [n \in 0..Len(s) |-> After(s, shelf, made, n)]
  BY <1>2
<1>4. Missing(s, shelf) = made[Len(s)]
  BY Zenon DEF Missing, After
<1> HIDE DEF made
<1> QED
  BY <1>3, <1>4

\* The rows hold the books that are not owned, each in one row, and what resembles a book of
\* the target only in a row that is uncertain.
LEMMA MissingFacts ==
    ASSUME NEW s \in Seq(Books), NEW shelf \in Seq(Books),
           \A i, j \in DOMAIN s : s[i] = s[j] => i = j
    PROVE  Sorted(Missing(s, shelf), {b \in ToSet(s) : Pending(b, shelf)}, shelf)
<1>1. PICK made : /\ made = [k \in 0..Len(s) |-> After(s, shelf, made, k)]
                  /\ Missing(s, shelf) = made[Len(s)]
  BY MadeStepByStep
<1> DEFINE Good(n) == Sorted(made[n], TakenUpTo(s, shelf, n), shelf)
           Bad == {k \in 0..Len(s) : ~Good(k)}
<1>2. Len(s) \in Nat /\ DOMAIN s = 1..Len(s)
  OBVIOUS
<1>3. \A n \in 0..Len(s) : made[n] = After(s, shelf, made, n)
  BY <1>1
<1>4. Good(0)
  <2>1. made[0] = <<>>
    BY <1>2, <1>3 DEF After
  <2>2. TakenUpTo(s, shelf, 0) = {}
    BY DEF TakenUpTo
  <2> QED
    BY <2>1, <2>2 DEF Sorted, CopiesOf
<1>5. ASSUME NEW n \in 1..Len(s), Good(n - 1)
      PROVE  Good(n)
  <2>1. n \in 0..Len(s) /\ n # 0 /\ n \in DOMAIN s /\ n - 1 \in 0..Len(s)
    BY <1>2
  <2>2. made[n] = IF ~Pending(s[n], shelf) THEN made[n - 1]
                  ELSE Join(made[n - 1], s[n], Resembles(s[n], shelf))
    BY <2>1, <1>3 DEF After
  <2>3. s[n] \in Books
    BY <2>1
  <2>4. TakenUpTo(s, shelf, n - 1) \subseteq Books
    BY <1>2 DEF TakenUpTo
  <2>5. s[n] \notin TakenUpTo(s, shelf, n - 1)
    BY <1>2, <2>1 DEF TakenUpTo
  <2>6. TakenUpTo(s, shelf, n) = TakenUpTo(s, shelf, n - 1)
                               \cup (IF Pending(s[n], shelf) THEN {s[n]} ELSE {})
    <3>1. {s[m] : m \in 1..n} = {s[m] : m \in 1..(n - 1)} \cup {s[n]}
      <4>1. 1..n = 1..(n - 1) \cup {n}
        BY <2>1, <1>2
      <4> QED
        BY <4>1
    <3> QED
      BY <3>1 DEF TakenUpTo
  <2>7. CASE Pending(s[n], shelf)
    <3> DEFINE r == made[n - 1]
               t == TakenUpTo(s, shelf, n - 1)
               b == s[n]
    <3>1. made[n] = Join(r, b, Resembles(b, shelf)) /\ TakenUpTo(s, shelf, n) = t \cup {b}
      BY <2>2, <2>6, <2>7
    <3>2. Sorted(r, t, shelf) /\ t \in SUBSET Books /\ b \in Books \ t
      BY <1>5, <2>3, <2>4, <2>5
    <3> HIDE DEF r, t, b
    <3>3. Sorted(Join(r, b, Resembles(b, shelf)), t \cup {b}, shelf)
      BY <3>2, JoinFacts
    <3> QED
      BY <3>1, <3>3
  <2>8. CASE ~Pending(s[n], shelf)
    <3>1. made[n] = made[n - 1] /\ TakenUpTo(s, shelf, n) = TakenUpTo(s, shelf, n - 1)
      BY <2>2, <2>6, <2>8
    <3> QED
      BY <3>1, <1>5
  <2> QED
    BY <2>7, <2>8
<1>6. Good(Len(s))
  <2> SUFFICES ASSUME Bad # {} PROVE FALSE
    BY <1>2
  <2>1. PICK m \in Bad : \A k \in Bad : m <= k
    <3>1. Bad \in SUBSET Nat
      BY <1>2
    <3> HIDE DEF Bad
    <3> QED
      BY <3>1, Least
  <2>2. m \in 0..Len(s) /\ ~Good(m)
    BY <2>1
  <2>3. m # 0
    <3> HIDE DEF Good
    <3> QED
      BY <2>2, <1>4
  <2>4. m \in 1..Len(s) /\ m - 1 \in 0..Len(s) /\ ~(m <= m - 1)
    BY <2>2, <2>3, <1>2
  <2>5. m - 1 \notin Bad
    <3> HIDE DEF Bad
    <3> QED
      BY <2>1, <2>4
  <2> HIDE DEF Good
  <2>6. Good(m - 1)
    BY <2>4, <2>5
  <2> QED
    BY <2>2, <2>4, <2>6, <1>5
<1>7. TakenUpTo(s, shelf, Len(s)) = {b \in ToSet(s) : Pending(b, shelf)}
  BY <1>2 DEF TakenUpTo, ToSet
<1> QED
  BY <1>1, <1>6, <1>7

-----------------------------------------------------------------------------
(***************************************************************************)
(* Diff: any comparison.                                                   *)
(***************************************************************************)
Injective(s) == \A i, j \in DOMAIN s : s[i] = s[j] => i = j

DiffInv ==
    /\ sources \in Seq(Books) /\ Len(sources) <= MaxSources /\ Injective(sources)
    /\ owned \in Seq(Books) /\ Len(owned) <= MaxOwned

\* The choices are books, those of the sources without repetition.
LEMMA DiffInductive == DiffSpec => []DiffInv
<1>1. DiffInit => DiffInv
  BY DiffAssumption DEF DiffInit, DiffInv, Injective
<1>2. DiffInv /\ [DiffNext]_diffVars => DiffInv'
  <2> SUFFICES ASSUME DiffInv, [DiffNext]_diffVars PROVE DiffInv'
    OBVIOUS
  <2>1. CASE UNCHANGED diffVars
    BY <2>1 DEF DiffInv, diffVars, Injective
  <2>2. ASSUME NEW b \in Books, AddSource(b) PROVE DiffInv'
    <3>1. Len(sources) < MaxSources /\ sources' = Append(sources, b) /\ owned' = owned
      BY <2>2 DEF AddSource
    <3>2. \A i \in DOMAIN sources : sources[i] # b
      BY <2>2 DEF AddSource, ToSet
    <3>3. sources' \in Seq(Books) /\ Len(sources') <= MaxSources
      BY <3>1, DiffAssumption DEF DiffInv
    <3>4. /\ DOMAIN sources' = DOMAIN sources \cup {Len(sources) + 1}
          /\ sources'[Len(sources) + 1] = b
          /\ \A i \in DOMAIN sources : sources'[i] = sources[i]
      BY <3>1 DEF DiffInv
    <3>5. Injective(sources)'
      BY <3>2, <3>4 DEF DiffInv, Injective
    <3> QED
      BY <3>1, <3>3, <3>5 DEF DiffInv
  <2>3. ASSUME NEW b \in Books, AddOwned(b) PROVE DiffInv'
    BY <2>3, DiffAssumption DEF AddOwned, DiffInv, Injective
  <2> QED
    BY <2>1, <2>2, <2>3 DEF DiffNext
<1> QED
  BY <1>1, <1>2, PTL DEF DiffSpec

\* What is short enough is one of the bounded sequences.
LEMMA Bounded ==
    ASSUME NEW S, NEW n \in Nat, NEW s \in Seq(S), Len(s) <= n
    PROVE  s \in BoundedSeq(S, n)
<1>1. Len(s) \in 0..n /\ s \in [1..Len(s) -> S]
  OBVIOUS
<1> QED
  BY <1>1 DEF BoundedSeq, SeqOf

\* Type correctness of the comparison: no more than the bounds allow is chosen.
THEOREM DiffTypes == DiffSpec => []DiffTypeOK
<1>1. DiffInv => DiffTypeOK
  BY DiffAssumption, Bounded DEF DiffInv, DiffTypeOK
<1> QED
  BY <1>1, DiffInductive, PTL

\* Every audiobook of the sources that the target does not have for certain is in exactly one
\* row of the comparison, and what it has or what is no audiobook is in none (diffSteps).
THEOREM AccountedHolds == DiffSpec => []Accounted
<1>1. DiffInv => Accounted
  <2> SUFFICES ASSUME DiffInv PROVE Accounted
    OBVIOUS
  <2> DEFINE list == Missing(sources, owned)
             taken == {b \in ToSet(sources) : Pending(b, owned)}
             Of(b) == {n \in DOMAIN list : b \in ToSet(list[n].copies)}
  <2>1. Sorted(list, taken, owned)
    BY MissingFacts DEF DiffInv, Injective
  <2>2. ASSUME NEW b \in ToSet(sources)
        PROVE  Cardinality(Of(b)) = IF Eligible(b) /\ ~Present(b, owned) THEN 1 ELSE 0
    <3>1. Pending(b, owned) <=> Eligible(b) /\ ~Present(b, owned)
      BY DEF Pending
    <3>2. CASE Pending(b, owned)
      <4>1. PICK n \in DOMAIN list : b \in CopiesOf(list, n)
        BY <2>1, <3>2 DEF Sorted
      <4>2. \A m \in DOMAIN list : b \in CopiesOf(list, m) => m = n
        BY <2>1, <4>1 DEF Sorted
      <4>3. Of(b) = {n}
        <5> HIDE DEF list
        <5> QED
          BY <4>1, <4>2 DEF CopiesOf
      <4>4. Cardinality(Of(b)) = 1
        BY <4>3, FS_Singleton
      <4> QED
        BY <3>1, <3>2, <4>4
    <3>3. CASE ~Pending(b, owned)
      <4>1. b \notin taken
        BY <3>3
      <4>2. \A m \in DOMAIN list : b \notin CopiesOf(list, m)
        <5> HIDE DEF list, taken
        <5> QED
          BY <2>1, <4>1 DEF Sorted
      <4>3. Of(b) = {}
        <5> HIDE DEF list
        <5> QED
          BY <4>2 DEF CopiesOf
      <4>4. Cardinality(Of(b)) = 0
        BY <4>3, FS_EmptySet
      <4> QED
        BY <3>1, <3>3, <4>4
    <3> QED
      BY <3>2, <3>3
  <2> QED
    BY <2>2 DEF Accounted, Clusters
<1> QED
  BY <1>1, DiffInductive, PTL

\* No copy in a row that a watch queues resembles any book of the target, and no two copies
\* are different recordings (diffSteps, evaluateWatch).
THEOREM QueuedSafelyHolds == DiffSpec => []QueuedSafely
<1>1. DiffInv => QueuedSafely
  <2> SUFFICES ASSUME DiffInv PROVE QueuedSafely
    OBVIOUS
  <2> DEFINE list == Missing(sources, owned)
             taken == {b \in ToSet(sources) : Pending(b, owned)}
  <2>1. Sorted(list, taken, owned)
    BY MissingFacts DEF DiffInv, Injective
  <2>2. taken \subseteq Books
    BY DEF DiffInv, ToSet
  <2> HIDE DEF list, taken
  <2>3. ASSUME NEW n \in DOMAIN list, Queued(list[n]), NEW b \in ToSet(list[n].copies)
        PROVE  /\ \A o \in ToSet(owned) : Match(b, o) = NoMatch
               /\ \A c \in ToSet(list[n].copies) : ~EditionConflict(Identity[b], Identity[c])
    <3>1. ~list[n].uncertain /\ ~EditionsDiffer(list[n])
      BY <2>3 DEF Queued
    <3>2. b \in Books /\ ~Resembles(b, owned)
      BY <2>1, <2>2, <2>3, <3>1 DEF Sorted, CopiesOf
    <3>3. \A o \in ToSet(owned) : Match(b, o) = NoMatch
      BY <3>2, ResemblesFacts DEF DiffInv, ToSet
    <3> QED
      BY <2>3, <3>1, <3>3 DEF EditionsDiffer
  <2> QED
    BY <2>3 DEF QueuedSafely, Clusters, list
<1> QED
  BY <1>1, DiffInductive, PTL

-----------------------------------------------------------------------------
(***************************************************************************)
(* Watches: any pass.                                                      *)
(***************************************************************************)
\* The books of a set, in some order.
LEMMA InSomeOrder ==
    ASSUME NEW S \in SUBSET Books, IsFiniteSet(S)
    PROVE  /\ SetToSeq(S) \in Seq(Books) /\ Injective(SetToSeq(S))
           /\ ToSet(SetToSeq(S)) = S
<1> DEFINE n == Cardinality(S)
           s == SetToSeq(S)
<1>1. n \in Nat /\ ExistsBijection(1..n, S)
  BY FS_CardinalityType
<1>2. IsFiniteSet(1..n) /\ Cardinality(1..n) = n
  <2>1. 1 \in Int /\ n \in Int
    BY <1>1
  <2>2. IsFiniteSet(1..n) /\ Cardinality(1..n) = IF 1 > n THEN 0 ELSE n - 1 + 1
    BY <2>1, FS_Interval
  <2> HIDE DEF n
  <2> QED
    BY <1>1, <2>2
<1>3. \E f \in [1..n -> S] : IsInjective(f)
  BY <1>1 DEF ExistsBijection, Bijection, Injection
<1>4. s \in [1..n -> S] /\ IsInjective(s)
  BY <1>3 DEF SetToSeq
<1>5. s \in Injection(1..n, S)
  <2> HIDE DEF s
  <2> QED
    BY <1>4 DEF Injection
<1>6. s \in Surjection(1..n, S)
  <2> HIDE DEF s
  <2> QED
    BY <1>2, <1>5, FS_Injection
<1> HIDE DEF s, n
<1>7. DOMAIN s = 1..n
  BY <1>4
<1>8. s \in Seq(Books)
  BY <1>1, <1>4
<1>9. Injective(s)
  BY <1>4 DEF Injective, IsInjective
<1>10. ToSet(s) = S
  <2>1. \A b \in S : \E i \in 1..n : s[i] = b
    BY <1>6 DEF Surjection
  <2> QED
    BY <1>4, <1>7, <2>1 DEF ToSet
<1> QED
  BY <1>8, <1>9, <1>10 DEF s

PassPcs == {"idle", "load", "next", "sources", "candidates", "records", "diff", "enqueue"}
PassRecord ==
    [pc : PassPcs, todo : SUBSET Watches, watch : Watches \cup {None},
     owner : Servers \cup {None}, loaded : BOOLEAN, records : SUBSET Books,
     found : SUBSET Books, queue : Seq(Cluster), seen : SUBSET Books, steady : BOOLEAN]

\* What is left to ask for.
Doubtless(list, records) ==
    \A n \in DOMAIN list : Queued(list[n]) =>
        \A b \in ToSet(list[n].copies) : b \in Books /\ \A o \in records : Match(b, o) = NoMatch

SeenOf(p, s) == {b \in p.seen : ServerOf[b] = s}

\* What a pass compares with: of all watches, the books of the target as it was when the pass
\* began; of one, those of the server of the watch.
Grounded(p) ==
    /\ p.pc \in {"sources", "candidates", "records", "diff", "enqueue"} => p.watch \in Watches
    /\ p.pc \in {"idle", "load", "records"} => ~p.loaded
    /\ p.pc = "load" => (p.steady => p.owner = target)
    /\ p.loaded => (p.steady => p.records = SeenOf(p, target))
    /\ p.pc \in {"diff", "enqueue"} =>
         (~p.loaded => p.records = SeenOf(p, WatchTarget[p.watch]))
    /\ p.pc = "enqueue" => p.records # {} /\ Doubtless(p.queue, p.records)

PassInv ==
    /\ index \in SUBSET Books /\ target \in Servers /\ moves \in 0..MaxMoves
    /\ pass \in [Requests -> PassRecord]
    /\ request = [q \in Requests |-> request[q]]
    /\ \A q \in Requests : Grounded(pass[q])

\* A pass begins as a record of its kind.
LEMMA IdleFacts ==
    IdlePass \in PassRecord /\ IdlePass.pc = "idle" /\ IdlePass.loaded = FALSE
<1>1. IdlePass \in PassRecord
  BY DEF PassRecord, PassPcs, IdlePass
<1>2. IdlePass.pc = "idle" /\ IdlePass.loaded = FALSE
  BY DEF IdlePass
<1> QED
  BY <1>1, <1>2

\* What a comparison leaves without doubt resembles no record it was made with.
LEMMA ComparedFacts ==
    ASSUME NEW found \in SUBSET Books, NEW records \in SUBSET Books
    PROVE  LET list == Missing(SetToSeq(found), SetToSeq(records))
           IN  list \in Seq(Cluster) /\ Doubtless(list, records)
<1> DEFINE s == SetToSeq(found)
           shelf == SetToSeq(records)
           list == Missing(s, shelf)
           taken == {b \in ToSet(s) : Pending(b, shelf)}
<1>1. IsFiniteSet(found) /\ IsFiniteSet(records)
  BY FS_Subset, WatchesAssumption
<1>2. s \in Seq(Books) /\ Injective(s) /\ ToSet(s) = found
  BY <1>1, InSomeOrder
<1>3. shelf \in Seq(Books) /\ ToSet(shelf) = records
  BY <1>1, InSomeOrder
<1> HIDE DEF s, shelf
<1>4. Sorted(list, taken, shelf)
  BY <1>2, <1>3, MissingFacts DEF Injective
<1>5. taken \subseteq Books
  BY <1>2
<1> HIDE DEF list, taken
<1>6. list \in Seq(Cluster)
  BY <1>4 DEF Sorted
<1>7. ASSUME NEW n \in DOMAIN list, Queued(list[n]), NEW b \in ToSet(list[n].copies)
      PROVE  b \in Books /\ \A o \in records : Match(b, o) = NoMatch
  <2>1. ~list[n].uncertain
    BY <1>7 DEF Queued
  <2>2. b \in Books /\ ~Resembles(b, shelf)
    BY <1>4, <1>5, <1>7, <2>1 DEF Sorted, CopiesOf
  <2> QED
    BY <2>2, <1>3, ResemblesFacts DEF ToSet
<1>8. Doubtless(list, records)
  BY <1>7 DEF Doubtless
<1> QED
  BY <1>6, <1>8 DEF list, s, shelf

\* The rows after the first are no worse.
LEMMA Relieved ==
    ASSUME NEW list \in Seq(Cluster), NEW records, Doubtless(list, records), list # <<>>
    PROVE  /\ Head(list) = list[1] /\ 1 \in DOMAIN list /\ Head(list) \in Cluster
           /\ Tail(list) \in Seq(Cluster) /\ Doubtless(Tail(list), records)
<1>1. /\ Head(list) = list[1] /\ 1 \in DOMAIN list /\ Head(list) \in Cluster
      /\ Tail(list) \in Seq(Cluster)
  OBVIOUS
<1>2. \A n \in DOMAIN Tail(list) : n + 1 \in DOMAIN list /\ Tail(list)[n] = list[n + 1]
  OBVIOUS
<1>3. Doubtless(Tail(list), records)
  BY <1>2 DEF Doubtless
<1> QED
  BY <1>1, <1>3

\* The copy asked for is one of the row.
LEMMA ChosenFacts ==
    ASSUME NEW row \in Cluster, Asked(row)
    PROVE  Queued(row) /\ Chosen(row) \in ToSet(row.copies)
<1>1. Downloads(row) \subseteq DOMAIN row.copies /\ Downloads(row) # {} /\ Queued(row)
  BY DEF Asked, Downloads
<1>2. row.copies \in Seq(Books)
  BY DEF Cluster
<1>3. Downloads(row) \in SUBSET Nat
  BY <1>1, <1>2
<1>4. \E n \in Downloads(row) : \A m \in Downloads(row) : n <= m
  BY <1>1, <1>3, Least
<1> DEFINE n == CHOOSE k \in Downloads(row) : \A m \in Downloads(row) : k <= m
<1>5. n \in Downloads(row)
  BY <1>4
<1>6. Chosen(row) = row.copies[n]
  BY DEF Chosen
<1> HIDE DEF n
<1> QED
  BY <1>1, <1>5, <1>6 DEF ToSet

\* One call of the many goes from one record to another; what it was is not touched.
LEMMA OnePass ==
    ASSUME PassInv, NEW q \in Requests, NEW new \in PassRecord, Become(q, new),
           Grounded(new), UNCHANGED <<index, target, moves>>,
           request' = [r \in Requests |-> request'[r]]
    PROVE  PassInv'
<1>1. pass' \in [Requests -> PassRecord]
  BY DEF Become, PassInv
<1>2. pass'[q] = new /\ \A r \in Requests \ {q} : pass'[r] = pass[r]
  BY DEF Become, PassInv
<1>3. ASSUME NEW r \in Requests PROVE Grounded(pass[r])'
  <2>1. Grounded(pass'[r])
    BY <1>2 DEF PassInv
  <2>2. Grounded(pass[r])' <=> Grounded(pass'[r])
    BY DEF Grounded, Doubtless, SeenOf
  <2> QED
    BY <2>1, <2>2
<1> QED
  BY <1>1, <1>3 DEF PassInv

\* The end of a watch's turn keeps the invariant.
LEMMA OverFacts ==
    ASSUME PassInv, NEW q \in Requests, Over(q), UNCHANGED <<index, target, moves>>,
           request' = [r \in Requests |-> request'[r]]
    PROVE  PassInv'
<1> DEFINE p == pass[q]
           new == [p EXCEPT !.pc = "next", !.watch = None, !.owner = None,
                            !.found = {}, !.queue = <<>>]
<1>1. p \in PassRecord /\ Grounded(p)
  BY DEF PassInv
<1>2. Become(q, new)
  BY DEF Over
<1> HIDE DEF p
<1>3. new \in PassRecord
  <2>1. <<>> \in Seq(Cluster)
    OBVIOUS
  <2> QED
    BY <1>1, <2>1 DEF PassRecord, PassPcs
<1>4. /\ new.pc = "next" /\ new.loaded = p.loaded /\ new.steady = p.steady
      /\ new.records = p.records /\ new.seen = p.seen
  BY <1>1 DEF PassRecord
<1> HIDE DEF new
<1>5. Grounded(new)
  BY <1>1, <1>4 DEF Grounded, SeenOf
<1> QED
  BY <1>2, <1>3, <1>5, OnePass

\* So does every step of a pass.
LEMMA PassStepInv ==
    ASSUME PassInv, NEW q \in Requests, PassStep(q)
    PROVE  PassInv'
<1> DEFINE p == pass[q]
<1>0. p \in PassRecord /\ Grounded(p)
  BY DEF PassInv
<1>1. CASE EvaluateAll(q)
  <2> DEFINE new == [IdlePass EXCEPT !.pc = "load", !.todo = Watches, !.owner = target]
  <2>1. Become(q, new) /\ UNCHANGED <<index, target, moves>> /\ request' = request
    BY <1>1 DEF EvaluateAll, unmoved, vars
  <2>2. new \in PassRecord
    BY IdleFacts DEF PassRecord, PassPcs, PassInv
  <2>3. new.pc = "load" /\ new.loaded = FALSE /\ new.owner = target
    BY IdleFacts DEF PassRecord
  <2> HIDE DEF new
  <2>4. Grounded(new)
    BY <2>3 DEF Grounded
  <2> QED
    BY <2>1, <2>2, <2>4, OnePass DEF PassInv
<1>2. CASE Load(q)
  <2> DEFINE new == [p EXCEPT !.pc = "next", !.loaded = TRUE, !.owner = None,
                              !.records = RowsOf(p.owner), !.seen = index]
  <2>1. /\ p.pc = "load" /\ Become(q, new) /\ UNCHANGED <<index, target, moves>>
        /\ request' = request
    BY <1>2 DEF Load, unmoved, vars
  <2> HIDE DEF p
  <2>2. new \in PassRecord
    BY <1>0 DEF PassRecord, PassPcs, PassInv, RowsOf
  <2>3. /\ new.pc = "next" /\ new.loaded = TRUE /\ new.steady = p.steady
        /\ new.records = RowsOf(p.owner) /\ new.seen = index
    BY <1>0 DEF PassRecord
  <2> HIDE DEF new
  <2>4. Grounded(new)
    BY <1>0, <2>1, <2>3 DEF Grounded, SeenOf, RowsOf
  <2> QED
    BY <2>1, <2>2, <2>4, OnePass DEF PassInv
<1>3. ASSUME NEW w \in Watches, EvaluateOne(q, w) PROVE PassInv'
  <2> DEFINE new == [IdlePass EXCEPT !.pc = "next", !.todo = {w}]
  <2>1. Become(q, new) /\ UNCHANGED <<index, target, moves>> /\ request' = request
    BY <1>3 DEF EvaluateOne, unmoved, vars
  <2>2. new \in PassRecord
    BY IdleFacts DEF PassRecord, PassPcs
  <2>3. new.pc = "next" /\ new.loaded = FALSE
    BY IdleFacts DEF PassRecord
  <2> HIDE DEF new
  <2>4. Grounded(new)
    BY <2>3 DEF Grounded
  <2> QED
    BY <2>1, <2>2, <2>4, OnePass DEF PassInv
<1>4. ASSUME NEW w \in Watches, Guard(q, w) PROVE PassInv'
  <2> DEFINE none == RowsOf(WatchTarget[w]) = {}
             new == [p EXCEPT !.todo = @ \ {w}, !.watch = IF none THEN None ELSE w,
                              !.pc = IF none THEN "next" ELSE "sources"]
  <2>1. /\ p.pc = "next" /\ Become(q, new) /\ UNCHANGED <<index, target, moves>>
        /\ request' = request
    BY <1>4 DEF Guard, unmoved, vars
  <2> HIDE DEF p, none
  <2>2. new \in PassRecord
    BY <1>0 DEF PassRecord, PassPcs
  <2>3. /\ new.pc \in {"next", "sources"} /\ (new.pc = "sources" => new.watch = w)
        /\ new.loaded = p.loaded /\ new.steady = p.steady
        /\ new.records = p.records /\ new.seen = p.seen
    BY <1>0 DEF PassRecord
  <2> HIDE DEF new
  <2>4. Grounded(new)
    BY <1>0, <2>1, <2>3 DEF Grounded, SeenOf
  <2> QED
    BY <2>1, <2>2, <2>4, OnePass DEF PassInv
<1>5. CASE Done(q)
  <2>1. Become(q, IdlePass) /\ UNCHANGED <<index, target, moves>> /\ request' = request
    BY <1>5 DEF Done, unmoved, vars
  <2>2. Grounded(IdlePass)
    BY IdleFacts DEF Grounded
  <2> QED
    BY <2>1, <2>2, IdleFacts, OnePass DEF PassInv
<1>6. CASE Sources(q)
  <2> DEFINE new == [p EXCEPT !.pc = "candidates", !.owner = target]
  <2>1. /\ p.pc = "sources" /\ Become(q, new) /\ UNCHANGED <<index, target, moves>>
        /\ request' = request
    BY <1>6 DEF Sources, unmoved, vars
  <2> HIDE DEF p
  <2>2. new \in PassRecord
    BY <1>0 DEF PassRecord, PassPcs, PassInv
  <2>3. /\ new.pc = "candidates" /\ new.watch = p.watch
        /\ new.loaded = p.loaded /\ new.steady = p.steady
        /\ new.records = p.records /\ new.seen = p.seen
    BY <1>0 DEF PassRecord
  <2> HIDE DEF new
  <2>4. Grounded(new)
    BY <1>0, <2>1, <2>3 DEF Grounded, SeenOf
  <2> QED
    BY <2>1, <2>2, <2>4, OnePass DEF PassInv
<1>7. CASE Candidates(q)
  <2> DEFINE found == {b \in index : /\ ServerOf[b] # p.owner
                                     /\ Identity[b].series = WatchSeries[p.watch]}
             new == [p EXCEPT !.found = found, !.pc = IF p.loaded THEN "diff" ELSE "records"]
  <2>1. /\ p.pc = "candidates" /\ (Over(q) \/ Become(q, new))
        /\ UNCHANGED <<index, target, moves>> /\ request' = request
    BY <1>7 DEF Candidates, unmoved, vars
  <2>2. CASE Over(q)
    BY <2>1, <2>2, OverFacts DEF PassInv
  <2>3. CASE Become(q, new)
    <3>1. found \subseteq Books
      BY DEF PassInv
    <3> HIDE DEF p, found
    <3>2. new \in PassRecord
      BY <1>0, <3>1 DEF PassRecord, PassPcs
    <3>3. /\ new.pc = (IF p.loaded THEN "diff" ELSE "records") /\ new.watch = p.watch
          /\ new.loaded = p.loaded /\ new.steady = p.steady
          /\ new.records = p.records /\ new.seen = p.seen
      BY <1>0 DEF PassRecord
    <3> HIDE DEF new
    <3>4. Grounded(new)
      BY <1>0, <2>1, <3>3 DEF Grounded, SeenOf
    <3> QED
      BY <2>1, <2>3, <3>2, <3>4, OnePass DEF PassInv
  <2> QED
    BY <2>1, <2>2, <2>3
<1>8. CASE Records(q)
  <2> DEFINE new == [p EXCEPT !.records = RowsOf(WatchTarget[p.watch]), !.seen = index,
                              !.pc = "diff"]
  <2>1. /\ p.pc = "records" /\ Become(q, new) /\ UNCHANGED <<index, target, moves>>
        /\ request' = request
    BY <1>8 DEF Records, unmoved, vars
  <2> HIDE DEF p
  <2>2. new \in PassRecord
    BY <1>0 DEF PassRecord, PassPcs, PassInv, RowsOf
  <2>3. /\ new.pc = "diff" /\ new.loaded = p.loaded /\ new.watch = p.watch
        /\ new.records = RowsOf(WatchTarget[p.watch]) /\ new.seen = index
    BY <1>0 DEF PassRecord
  <2> HIDE DEF new
  <2>4. ~p.loaded
    BY <1>0, <2>1 DEF Grounded
  <2>5. Grounded(new)
    BY <1>0, <2>1, <2>3, <2>4 DEF Grounded, SeenOf, RowsOf
  <2> QED
    BY <2>1, <2>2, <2>5, OnePass DEF PassInv
<1>9. CASE Compare(q)
  <2> DEFINE queue == Missing(SetToSeq(p.found), SetToSeq(p.records))
             new == [p EXCEPT !.pc = "enqueue", !.queue = queue]
  <2>1. /\ p.pc = "diff" /\ (Over(q) \/ (Become(q, new) /\ p.records # {}))
        /\ UNCHANGED <<index, target, moves>> /\ request' = request
    BY <1>9 DEF Compare, unmoved, vars, Indexed
  <2>2. CASE Over(q)
    BY <2>1, <2>2, OverFacts DEF PassInv
  <2>3. CASE Become(q, new) /\ p.records # {}
    <3>1. p.found \in SUBSET Books /\ p.records \in SUBSET Books
      BY <1>0 DEF PassRecord
    <3>2. queue \in Seq(Cluster) /\ Doubtless(queue, p.records)
      BY <3>1, ComparedFacts
    <3> HIDE DEF p, queue
    <3>3. new \in PassRecord
      BY <1>0, <3>2 DEF PassRecord, PassPcs
    <3>4. /\ new.pc = "enqueue" /\ new.queue = queue /\ new.watch = p.watch
          /\ new.loaded = p.loaded /\ new.steady = p.steady
          /\ new.records = p.records /\ new.seen = p.seen
      BY <1>0 DEF PassRecord
    <3> HIDE DEF new
    <3>5. Grounded(new)
      BY <1>0, <2>1, <2>3, <3>2, <3>4 DEF Grounded, SeenOf
    <3> QED
      BY <2>1, <2>3, <3>3, <3>5, OnePass DEF PassInv
  <2> QED
    BY <2>1, <2>2, <2>3
<1>10. CASE AskNext(q)
  <2> DEFINE new == [p EXCEPT !.queue = Tail(@)]
  <2>1. /\ p.pc = "enqueue" /\ (Over(q) \/ (Become(q, new) /\ p.queue # <<>>))
        /\ UNCHANGED <<index, target, moves>>
    BY <1>10 DEF AskNext
  <2>2. request' = [r \in Requests |-> request'[r]]
    <3>1. request' = request \/ \E r : request' = [request EXCEPT ![q] = r]
      BY <1>10 DEF AskNext, Ask, vars
    <3> QED
      BY <3>1 DEF PassInv
  <2>3. CASE Over(q)
    BY <2>1, <2>2, <2>3, OverFacts
  <2>4. CASE Become(q, new) /\ p.queue # <<>>
    <3>1. p.queue \in Seq(Cluster) /\ Doubtless(p.queue, p.records) /\ p.records # {}
      BY <1>0, <2>1 DEF PassRecord, Grounded
    <3>2. Tail(p.queue) \in Seq(Cluster) /\ Doubtless(Tail(p.queue), p.records)
      BY <2>4, <3>1, Relieved
    <3> HIDE DEF p
    <3>3. new \in PassRecord
      BY <1>0, <3>2 DEF PassRecord, PassPcs
    <3>4. /\ new.pc = p.pc /\ new.queue = Tail(p.queue) /\ new.watch = p.watch
          /\ new.loaded = p.loaded /\ new.steady = p.steady
          /\ new.records = p.records /\ new.seen = p.seen
      BY <1>0 DEF PassRecord
    <3> HIDE DEF new
    <3>5. Grounded(new)
      BY <1>0, <2>1, <3>1, <3>2, <3>4 DEF Grounded, SeenOf
    <3> QED
      BY <2>1, <2>2, <2>4, <3>3, <3>5, OnePass
  <2> QED
    BY <2>1, <2>3, <2>4
<1> HIDE DEF p
<1> QED
  BY <1>1, <1>2, <1>3, <1>4, <1>5, <1>6, <1>7, <1>8, <1>9, <1>10 DEF PassStep

\* A step of a call of enqueueSync leaves a function of the calls.
LEMMA CallsStay ==
    ASSUME PassInv, NEW q \in Requests, RequestStep(q)
    PROVE  request' = [r \in Requests |-> request'[r]]
<1>1. \E r : request' = [request EXCEPT ![q] = r]
  <2>1. CASE FindSameItem(q)
    <3>1. PICK pc : request' = [request EXCEPT ![q].pc = pc] \/ Answer(q)
      BY <2>1 DEF FindSameItem, Goto
    <3> QED
      BY <3>1 DEF Answer
  <2>2. CASE FindSameWork(q)
    <3>1. PICK pc : request' = [request EXCEPT ![q].pc = pc] \/ Answer(q)
      BY <2>2 DEF FindSameWork, Goto
    <3> QED
      BY <3>1 DEF Answer
  <2>3. CASE FindStopped(q)
    <3>1. PICK pc, x : \/ request' = [request EXCEPT ![q].pc = pc]
                       \/ request' = [request EXCEPT ![q].pc = pc, ![q].previous = x]
      BY <2>3 DEF FindStopped, Goto
    <3> QED
      BY <3>1 DEF PassInv
  <2>4. CASE Revive(q) \/ \E j \in Rows : Create(q, j)
    BY <2>4 DEF Revive, Create, Answer
  <2> QED
    BY <2>1, <2>2, <2>3, <2>4 DEF RequestStep
<1> QED
  BY <1>1 DEF PassInv

\* Another target: what a pass has loaded is no longer known to be the target's.
LEMMA RetargetInv ==
    ASSUME PassInv, NEW s \in Servers, Retarget(s)
    PROVE  PassInv'
<1>1. /\ index' = index /\ target' = s /\ request' = request
      /\ moves < MaxMoves /\ moves' = moves + 1
      /\ pass' = [q \in Requests |-> IF pass[q].pc = "idle" THEN pass[q]
                                     ELSE [pass[q] EXCEPT !.steady = FALSE]]
  BY DEF Retarget, vars
<1>2. moves' \in 0..MaxMoves
  BY <1>1, WatchesAssumption DEF PassInv
<1>3. ASSUME NEW q \in Requests
      PROVE  pass'[q] \in PassRecord /\ Grounded(pass[q])'
  <2>0. pass[q] \in PassRecord /\ Grounded(pass[q])
    BY DEF PassInv
  <2>1. CASE pass[q].pc = "idle"
    <3>1. pass'[q] = pass[q]
      BY <1>1, <2>1
    <3> DEFINE p == pass[q]
    <3>2. ~p.loaded
      BY <2>0, <2>1 DEF Grounded
    <3>3. pass'[q].pc = "idle" /\ pass'[q].loaded = p.loaded
      BY <3>1, <2>1
    <3> HIDE DEF p
    <3>4. Grounded(pass[q])'
      BY <3>2, <3>3 DEF Grounded
    <3> QED
      BY <2>0, <3>1, <3>4
  <2>2. CASE pass[q].pc # "idle"
    <3> DEFINE new == [pass[q] EXCEPT !.steady = FALSE]
    <3>1. pass'[q] = new
      BY <1>1, <2>2
    <3>2. new \in PassRecord
      BY <2>0 DEF PassRecord, PassPcs
    <3>3. /\ new.pc = pass[q].pc /\ new.watch = pass[q].watch /\ new.steady = FALSE
          /\ new.loaded = pass[q].loaded /\ new.records = pass[q].records
          /\ new.seen = pass[q].seen /\ new.queue = pass[q].queue
      BY <2>0 DEF PassRecord
    <3> HIDE DEF new
    <3>4. Grounded(pass[q])'
      BY <2>0, <3>1, <3>3 DEF Grounded, Doubtless, SeenOf
    <3> QED
      BY <3>1, <3>2, <3>4
  <2> QED
    BY <2>1, <2>2
<1>4. pass' \in [Requests -> PassRecord]
  <2>1. pass' = [q \in Requests |-> pass'[q]]
    BY <1>1
  <2> QED
    BY <2>1, <1>3
<1> QED
  BY <1>1, <1>2, <1>3, <1>4 DEF PassInv

\* The invariant of the passes.
LEMMA PassInductive == WatchesSpec => []PassInv
<1>1. WatchesInit => PassInv
  <2> SUFFICES ASSUME WatchesInit PROVE PassInv
    OBVIOUS
  <2>1. request = [q \in Requests |-> request[q]]
    <3>1. request = [q \in Requests |-> IdleRequest]
      BY DEF WatchesInit, Init
    <3> QED
      BY <3>1
  <2>2. \A q \in Requests : pass[q] = IdlePass
    BY DEF WatchesInit
  <2>3. Grounded(IdlePass)
    BY IdleFacts DEF Grounded
  <2>4. pass \in [Requests -> PassRecord]
    BY IdleFacts DEF WatchesInit
  <2>5. index \in SUBSET Books /\ target \in Servers /\ moves \in 0..MaxMoves
    BY WatchesAssumption DEF WatchesInit
  <2> QED
    BY <2>1, <2>2, <2>3, <2>4, <2>5 DEF PassInv
<1>2. PassInv /\ [WatchesNext]_allVars => PassInv'
  <2> SUFFICES ASSUME PassInv, [WatchesNext]_allVars PROVE PassInv'
    OBVIOUS
  <2>1. ASSUME UNCHANGED watchVars, request' = [r \in Requests |-> request'[r]]
        PROVE  PassInv'
    BY <2>1 DEF PassInv, Grounded, Doubtless, SeenOf, watchVars
  <2>2. CASE UNCHANGED allVars
    <3>1. UNCHANGED watchVars /\ request' = request
      BY <2>2 DEF allVars, vars
    <3> QED
      BY <2>1, <3>1 DEF PassInv
  <2>3. ASSUME NEW q \in Requests, PassStep(q) PROVE PassInv'
    BY <2>3, PassStepInv
  <2>4. ASSUME NEW q \in Requests, RequestStep(q), UNCHANGED watchVars PROVE PassInv'
    BY <2>1, <2>4, CallsStay
  <2>5. ASSUME NEW j \in Rows, RowStep(j), UNCHANGED watchVars PROVE PassInv'
    <3>1. request' = request
      BY <2>5 DEF RowStep, Claim, Cancel, others
    <3> QED
      BY <2>1, <2>5, <3>1 DEF PassInv
  <2>8. ASSUME NEW s \in Slots, RunStep(s), UNCHANGED watchVars PROVE PassInv'
    <3>1. request' = request
      BY <2>8 DEF RunStep, Download, End, others
    <3> QED
      BY <2>1, <2>8, <3>1 DEF PassInv
  <2>6. CASE Reindex
    <3>1. /\ pass' = pass /\ target' = target /\ request' = request
          /\ moves < MaxMoves /\ moves' = moves + 1
      BY <2>6 DEF Reindex, vars
    <3>2. index' \in SUBSET Books
      BY <2>6 DEF Reindex, PassInv
    <3>3. moves' \in 0..MaxMoves
      BY <3>1, WatchesAssumption DEF PassInv
    <3>4. ASSUME NEW q \in Requests PROVE Grounded(pass[q])'
      BY <3>1 DEF PassInv, Grounded, Doubtless, SeenOf
    <3> QED
      BY <3>1, <3>2, <3>3, <3>4 DEF PassInv
  <2>7. ASSUME NEW s \in Servers, Retarget(s) PROVE PassInv'
    BY <2>7, RetargetInv
  <2> QED
    BY <2>2, <2>3, <2>4, <2>5, <2>6, <2>7, <2>8 DEF WatchesNext
<1> QED
  BY <1>1, <1>2, PTL DEF WatchesSpec

\* Type correctness of the watches.
THEOREM WatchesTypes == WatchesSpec => []WatchesTypeOK
<1>1. PassInv => WatchesTypeOK
  <2> SUFFICES ASSUME PassInv PROVE WatchesTypeOK
    OBVIOUS
  <2>1. index \in SUBSET Books /\ target \in Servers /\ moves \in 0..MaxMoves
    BY DEF PassInv
  <2>2. ASSUME NEW q \in Requests
        PROVE  /\ pass[q].pc \in PassPcs /\ pass[q].todo \subseteq Watches
               /\ pass[q].watch \in Watches \cup {None}
               /\ pass[q].owner \in Servers \cup {None}
               /\ pass[q].loaded \in BOOLEAN /\ pass[q].records \subseteq Books
               /\ pass[q].found \subseteq Books /\ pass[q].queue \in Seq(Cluster)
               /\ pass[q].seen \subseteq Books /\ pass[q].steady \in BOOLEAN
    BY DEF PassInv, PassRecord
  <2>3. ASSUME NEW q \in Requests, NEW n \in DOMAIN pass[q].queue
        PROVE  ToSet(pass[q].queue[n].copies) \subseteq Books
    <3>1. pass[q].queue[n] \in Cluster
      BY <2>2
    <3>2. pass[q].queue[n].copies \in Seq(Books)
      BY <3>1 DEF Cluster
    <3> QED
      BY <3>2 DEF ToSet
  <2> QED
    BY <2>1, <2>2, <2>3 DEF WatchesTypeOK, PassPcs
<1> QED
  BY <1>1, PassInductive, PTL

\* However queries, index runs and other calls interleave, a pass whose target stays asks for
\* no book for a server that had it, or anything that matches it, when the pass read the
\* index, and for nothing on the strength of an empty index (evaluateWatch).
THEOREM UnownedHolds == WatchesSpec => Unowned
<1> DEFINE Asking ==
        \A q \in Requests : AskNext(q) /\ request'[q].pc # "idle" =>
            /\ pass[q].records # {}
            /\ pass[q].steady =>
                 Resembling(request'[q].item[1], WatchTarget[pass[q].watch],
                            pass[q].seen) = {}
<1>1. PassInv => Asking
  <2> SUFFICES ASSUME PassInv, NEW q \in Requests, AskNext(q), request'[q].pc # "idle"
               PROVE  /\ pass[q].records # {}
                      /\ pass[q].steady =>
                           Resembling(request'[q].item[1], WatchTarget[pass[q].watch],
                                      pass[q].seen) = {}
    OBVIOUS
  <2> DEFINE p == pass[q]
             row == Head(p.queue)
             b == Chosen(row)
  <2>1. p.pc = "enqueue" /\ request[q].pc = "idle" /\ p \in PassRecord /\ Grounded(p)
    BY DEF AskNext, PassInv
  <2>2. /\ p.queue # <<>> /\ Asked(row) /\ target = WatchTarget[p.watch]
        /\ Ask(q, <<b, target>>)
    <3>1. request' # request
      BY <2>1
    <3> QED
      BY <3>1 DEF AskNext, AcceptedBy, vars
  <2>3. request'[q].item = <<b, target>>
    <3>1. \A x : [IdleRequest EXCEPT !.pc = "sameItem", !.item = x].item = x
      BY DEF IdleRequest
    <3>2. request' = [request EXCEPT ![q] = [IdleRequest EXCEPT !.pc = "sameItem",
                                                              !.item = <<b, target>>]]
      BY <2>2 DEF Ask
    <3> HIDE DEF b
    <3>3. request'[q] = [IdleRequest EXCEPT !.pc = "sameItem", !.item = <<b, target>>]
      BY <3>2 DEF PassInv
    <3> QED
      BY <3>1, <3>3
  <2>4. p.queue \in Seq(Cluster) /\ p.records # {} /\ Doubtless(p.queue, p.records)
    BY <2>1 DEF PassRecord, Grounded
  <2>5. row = p.queue[1] /\ 1 \in DOMAIN p.queue /\ row \in Cluster
    BY <2>2, <2>4, Relieved
  <2>6. Queued(row) /\ b \in ToSet(row.copies)
    BY <2>2, <2>5, ChosenFacts
  <2>7. \A o \in p.records : Match(b, o) = NoMatch
    <3> HIDE DEF row, b, p
    <3> QED
      BY <2>4, <2>5, <2>6 DEF Doubtless
  <2>8. p.steady => p.records = SeenOf(p, WatchTarget[p.watch])
    <3>1. p.loaded \in BOOLEAN
      BY <2>1 DEF PassRecord
    <3> HIDE DEF p
    <3> QED
      BY <2>1, <2>2, <3>1 DEF Grounded
  <2>9. request'[q].item[1] = b
    <3> HIDE DEF b
    <3> QED
      BY <2>3
  <2>10. p.steady => Resembling(b, WatchTarget[p.watch], p.seen) = {}
    <3> HIDE DEF row, b, p
    <3> QED
      BY <2>7, <2>8 DEF Resembling, SeenOf
  <2> QED
    BY <2>4, <2>9, <2>10
<1>2. []PassInv => [][Asking]_allVars
  BY <1>1, PTL
<1> QED
  BY <1>2, PassInductive, PTL DEF Unowned
=============================================================================
