------------------------------ MODULE Matching ------------------------------
(***************************************************************************)
(* When two books are one (packages/core/src/match.ts) and which books the *)
(* target lacks (packages/core/src/diff.ts), as operators.                 *)
(*                                                                         *)
(* Strings are compared by tables: how alike two titles or two names are,  *)
(* in percent (similarity.ts, normalize.ts).  A book has at most one       *)
(* author, narrator and series.  Scores count in 1/10000.  The limits on   *)
(* candidates per lookup (400, 1500) are out of reach of small instances.  *)
(***************************************************************************)
EXTENDS Integers, FiniteSets, FiniteSetsExt, Sequences, SequencesExt

CONSTANTS
    Books,             \* bound: the keys of BookRecord
    Identity,          \* of each: its title, number, author, narrator, series, sequence,
                       \* asin, isbn, duration, and whether it has audio
    TitleSimilarity,   \* of two titles, 0..100, symmetric, 100 for equal ones
    NameSimilarity,    \* of two names, likewise
    SharedTokens,      \* the pairs of titles with a longer word in common
    Unknown               \* no such value in the metadata

\* DEFAULT_MATCH_OPTIONS.
StrongThreshold == 9000
FuzzyThreshold == 7800
TitleGate == 72
NameConflict == 60
MaxArtifact == 4

Known(x, y) == x # Unknown /\ y # Unknown

\* What the tables hold of any two books.
ASSUME MatchingAssumption ==
    \A b, c \in Books :
        /\ TitleSimilarity[<<Identity[b].title, Identity[c].title>>] \in 0..100
        /\ Known(Identity[b].author, Identity[c].author) =>
             NameSimilarity[<<Identity[b].author, Identity[c].author>>] \in 0..100
        /\ Identity[b].duration \in Nat \cup {Unknown}

Longer(x, y) == IF x > y THEN x ELSE y
Shorter(x, y) == IF x > y THEN y ELSE x

\* Runtimes: within a tenth of each other, or nearly a whole multiple, or different.
DurationRelation(x, y) ==
    LET long == Longer(x, y)  short == Shorter(x, y) IN
    CASE ~Known(x, y) -> "unknown"
      [] Known(x, y) /\ 10 * (long - short) <= long -> "same"
      [] Known(x, y) /\ 10 * (long - short) > long
           /\ \E n \in 2..MaxArtifact : 100 * long \in (100*n - 2) * short .. (100*n + 2) * short
             -> "artifact"
      [] OTHER -> "differs"

\* From 100 at a tenth down to 0 at six tenths.
DurationSimilarity(x, y) ==
    LET long == Longer(x, y)  short == Shorter(x, y) IN
    IF DurationRelation(x, y) = "same" THEN 100
    ELSE Max({0, 120 - (200 * (long - short)) \div long})

NamesConflict(x, y) == Known(x, y) /\ NameSimilarity[<<x, y>>] < NameConflict

\* describeEditionConflict.
EditionConflict(a, b) ==
    \/ NamesConflict(a.narrator, b.narrator)
    \/ DurationRelation(a.duration, b.duration) = "differs"

SameSeries(a, b) == a.series # Unknown /\ a.series = b.series
VolumeConflict(a, b) ==
    \/ Known(a.number, b.number) /\ a.number # b.number
    \/ SameSeries(a, b) /\ Known(a.sequence, b.sequence) /\ a.sequence # b.sequence

\* The weighted mean of what is known of both.
Weighted(a, b) ==
    LET authors == Known(a.author, b.author)
        durations == Known(a.duration, b.duration)
                       /\ DurationRelation(a.duration, b.duration) # "artifact"
    IN  (100 * (55 * TitleSimilarity[<<a.title, b.title>>]
                + (IF authors THEN 30 * NameSimilarity[<<a.author, b.author>>] ELSE 0)
                + (IF durations THEN 15 * DurationSimilarity(a.duration, b.duration) ELSE 0)))
          \div (55 + (IF authors THEN 30 ELSE 0) + (IF durations THEN 15 ELSE 0))

Score(a, b) ==
    LET corroborated == SameSeries(a, b) /\ a.sequence # Unknown /\ a.sequence = b.sequence
        raised == Shorter(10000, Weighted(a, b) + (IF corroborated THEN 400 ELSE 0))
    IN  IF NamesConflict(a.author, b.author) THEN Longer(0, raised - 2000) ELSE raised

SameAsin(a, b) == a.asin # Unknown /\ a.asin = b.asin
SameIsbn(a, b) == a.isbn # Unknown /\ a.isbn = b.isbn

NoMatch == [tier |-> "none", score |-> 0]

\* The tier that titles this alike and this score make.
Tier(a, b, score) ==
    IF /\ TitleSimilarity[<<a.title, b.title>>] = 100
       /\ Known(a.author, b.author) /\ NameSimilarity[<<a.author, b.author>>] = 100
    THEN "exact"
    ELSE IF score >= StrongThreshold THEN "strong"
    ELSE IF score >= FuzzyThreshold THEN "fuzzy" ELSE "none"

Graded(tier, score) == IF tier = "none" THEN NoMatch ELSE [tier |-> tier, score |-> score]

\* scoreIdentities.
ScoreIdentities(a, b) ==
    IF VolumeConflict(a, b) THEN NoMatch
    ELSE IF SameAsin(a, b) THEN [tier |-> "asin", score |-> 10000]
    ELSE IF SameIsbn(a, b) THEN [tier |-> "isbn", score |-> 9950]
    ELSE IF TitleSimilarity[<<a.title, b.title>>] < TitleGate THEN NoMatch
    ELSE LET score == Score(a, b) IN Graded(Tier(a, b, score), score)

Confident(match) == match.tier \in {"asin", "isbn", "exact", "strong"}

\* A lookup scores what has an identifier, a longer word, the author or the series in
\* common with the book.
Shares(a, b) ==
    \/ SameAsin(a, b) \/ SameIsbn(a, b) \/ SameSeries(a, b)
    \/ <<a.title, b.title>> \in SharedTokens
    \/ a.author # Unknown /\ a.author = b.author

\* What a lookup makes of another book.
Match(book, other) ==
    IF Shares(Identity[book], Identity[other])
    THEN ScoreIdentities(Identity[book], Identity[other]) ELSE NoMatch

\* findBest: the highest score wins, whatever its tier.  Of several it is one with an
\* identifier in common, which a lookup looks up first, or else the first.
Decisive(match) == match.tier \in {"asin", "isbn"}

BestOf(index, matches) ==
    LET Beats(n, m) ==
            \/ matches[m].score < matches[n].score
            \/ /\ matches[m].score = matches[n].score
               /\ Decisive(matches[m]) => Decisive(matches[n])
               /\ (Decisive(matches[n]) => Decisive(matches[m])) => n <= m
        best == {n \in DOMAIN index : matches[n] # NoMatch /\ \A m \in DOMAIN index : Beats(n, m)}
    IN  IF best = {} THEN [candidate |-> Unknown, match |-> NoMatch]
        ELSE LET n == CHOOSE n \in best : TRUE
             IN  [candidate |-> index[n], match |-> matches[n]]

FindBest(book, index) == BestOf(index, [n \in DOMAIN index |-> Match(book, index[n])])

-----------------------------------------------------------------------------
\* diffSteps, first pass: what the target has, and what it has nothing like.
Eligible(book) == Identity[book].hasAudio
Present(book, owned) == Confident(FindBest(book, owned).match)
Resembles(book, owned) == FindBest(book, owned).match # NoMatch
Pending(book, owned) == Eligible(book) /\ ~Present(book, owned)

Founders(clusters) == [n \in DOMAIN clusters |-> clusters[n].copies[1]]

\* Second pass: a book joins the cluster whose first copy it is like, and makes it
\* uncertain if it is.  (Variants: the first copy decides; it founds one, too.)
JoinAsFounded(clusters, book, uncertain) ==
    LET best == FindBest(book, Founders(clusters)) IN
    IF Confident(best.match)
    THEN LET n == CHOOSE m \in DOMAIN clusters : clusters[m].copies[1] = best.candidate
         IN  [clusters EXCEPT ![n].copies = Append(@, book)]
    ELSE Append(clusters, [copies |-> <<book>>, uncertain |-> uncertain])

JoinAndFound(clusters, book, uncertain) ==
    Append(JoinAsFounded(clusters, book, uncertain), [copies |-> <<book>>, uncertain |-> uncertain])

Join(clusters, book, uncertain) ==
    LET best == FindBest(book, Founders(clusters)) IN
    IF Confident(best.match)
    THEN LET n == CHOOSE m \in DOMAIN clusters : clusters[m].copies[1] = best.candidate
         IN  [clusters EXCEPT ![n].copies = Append(@, book), ![n].uncertain = @ \/ uncertain]
    ELSE Append(clusters, [copies |-> <<book>>, uncertain |-> uncertain])

\* The rows that come of the sources, one book after the other.
Missing(sources, owned) ==
    LET clusters[n \in 0..Len(sources)] ==
            IF n = 0 THEN <<>>
            ELSE IF ~Pending(sources[n], owned) THEN clusters[n - 1]
            ELSE Join(clusters[n - 1], sources[n], Resembles(sources[n], owned))
    IN  clusters[Len(sources)]

\* describeClusterDivergence: any two of the copies.
EditionsDiffer(cluster) ==
    \E b, c \in ToSet(cluster.copies) : EditionConflict(Identity[b], Identity[c])

\* What evaluateWatch (lib/watches.ts) does not leave to a person.
Queued(cluster) == ~cluster.uncertain /\ ~EditionsDiffer(cluster)
=============================================================================
