-------------------------------- MODULE Diff --------------------------------
(***************************************************************************)
(* The comparison of a choice of source books with a choice of books at    *)
(* the target (diffAgainstTarget in packages/core/src/diff.ts): every      *)
(* choice is reached, book by book, and what Matching makes of it checked. *)
(***************************************************************************)
EXTENDS Matching

CONSTANTS
    MaxSources,   \* bound: source books in one comparison
    MaxOwned      \* bound: books at the target

ASSUME DiffAssumption == MaxSources \in Nat /\ MaxOwned \in Nat

VARIABLES
    sources,  \* the books of the sources, in order
    owned     \* those of the target

diffVars == <<sources, owned>>

DiffTypeOK == sources \in BoundedSeq(Books, MaxSources) /\ owned \in BoundedSeq(Books, MaxOwned)

DiffInit == sources = <<>> /\ owned = <<>>

AddSource(b) ==
    /\ Len(sources) < MaxSources /\ b \notin ToSet(sources)
    /\ sources' = Append(sources, b) /\ UNCHANGED owned

AddOwned(b) ==
    /\ Len(owned) < MaxOwned /\ b \notin ToSet(owned)
    /\ owned' = Append(owned, b) /\ UNCHANGED sources

DiffNext == \E b \in Books : AddSource(b) \/ AddOwned(b)

DiffSpec == DiffInit /\ [][DiffNext]_diffVars

Clusters == Missing(sources, owned)

\* Every audiobook of the sources is owned already or in exactly one row, once.
Accounted ==
    LET clusters == Clusters IN
    \A b \in ToSet(sources) :
        LET rows == {n \in DOMAIN clusters : b \in ToSet(clusters[n].copies)} IN
        Cardinality(rows) = IF Eligible(b) /\ ~Present(b, owned) THEN 1 ELSE 0

\* What a watch queues is beyond doubt.  No copy of it resembles a book that the target
\* has: "possible duplicates are logged for you to review".  And no two copies, not only
\* neighbours, are different recordings.
QueuedSafely ==
    LET clusters == Clusters IN
    \A n \in DOMAIN clusters : Queued(clusters[n]) =>
        \A b \in ToSet(clusters[n].copies) :
            /\ \A o \in ToSet(owned) : Match(b, o) = NoMatch
            /\ \A c \in ToSet(clusters[n].copies) : ~EditionConflict(Identity[b], Identity[c])

\* Parts of one release, or positions in one series, are never one row.
VolumesApart ==
    LET clusters == Clusters IN
    \A n \in DOMAIN clusters : \A b, c \in ToSet(clusters[n].copies) :
        ~VolumeConflict(Identity[b], Identity[c])
=============================================================================
