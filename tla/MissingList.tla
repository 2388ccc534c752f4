---------------------------- MODULE MissingList ----------------------------
(***************************************************************************)
(* The page that lists what the target lacks (apps/web/app/compare: the    *)
(* rows of missing-list.tsx and the filters of filter-bar.tsx), the views  *)
(* that compare makes of clusters for it (lib/compare.ts), and the actions *)
(* that its buttons send (syncBookAction and syncManyAction in             *)
(* app/actions.ts).                                                        *)
(*                                                                         *)
(* The choices and the selection are kept by the page, under the ids of    *)
(* rows, while the rows are rendered anew: the filters change, an action   *)
(* returns, and the index is another one by then.  Every action of a page  *)
(* waits for the one before it.  What enqueueSync does is in Enqueue.tla;  *)
(* the button of a row that is being transferred or was is left out.       *)
(***************************************************************************)
EXTENDS Matching

CONSTANTS
    Records,      \* the source books in the order they are read in
    Owned,        \* those of the target
    ServerOf,     \* the server of each source book
    Downloadable, \* the servers whose account may download
    Size, Files,  \* of each source book
    MaxMoves,     \* bound: changes of the index and of the filters
    Unset         \* no choice, no copy

ASSUME ListAssumption ==
    /\ Records \in Seq(Books) /\ Owned \in Seq(Books)
    /\ Unset \notin Nat \cup Books
    /\ MaxMoves \in Nat

VARIABLES
    indexed,   \* the source books with a row in the index
    chosen,    \* ?source: the servers to compare against, {} for all
    uncertain, \* ?uncertain: whether possible duplicates are shown
    shown,     \* the rows as last rendered, by id
    choices,   \* the choice made for each id: a copy's place, or Best
    selected,  \* the ids that are ticked
    bulk,      \* the action under way
    meant,     \* history: for each id the copy last picked, and among which
    moves

listVars == <<indexed, chosen, uncertain, shown, choices, selected, bulk, meant, moves>>

Best == 0
Ids == ToSet(Records)
Servers == {ServerOf[b] : b \in Ids}
NoChoices == [id \in Ids |-> Unset]
NoPick == [copy |-> Unset, among |-> <<>>]
IdleBulk == [of |-> "none", here |-> TRUE, todo |-> <<>>, ticked |-> {}, answered |-> {},
             failed |-> FALSE]
Asks == [id : Ids, copy : Ids]

ListTypeOK ==
    /\ indexed \subseteq Ids /\ chosen \subseteq Servers /\ uncertain \in BOOLEAN
    /\ DOMAIN shown \subseteq Ids
    /\ \A id \in DOMAIN shown :
         /\ ToSet(shown[id].copies) \subseteq Ids /\ shown[id].copies[1] = id
         /\ shown[id].differ \in BOOLEAN /\ shown[id].best \in ToSet(shown[id].copies)
    /\ choices \in [Ids -> {Unset} \cup (Best..Len(Records))]
    /\ selected \subseteq Ids
    /\ bulk.of \in {"none", "ticked", "group", "row"} /\ ToSet(bulk.todo) \subseteq Asks
    /\ bulk.here \in BOOLEAN   \* whether the list that sent it is still there
    /\ bulk.answered \subseteq Ids /\ bulk.failed \in BOOLEAN
    /\ bulk.ticked \subseteq Ids  \* history: what was ticked and could be asked for
    /\ \A id \in Ids : meant[id].copy \in Ids \cup {Unset} /\ ToSet(meant[id].among) \subseteq Ids
    /\ moves \in 0..MaxMoves

-----------------------------------------------------------------------------
(***************************************************************************)
(* What the server renders.                                                *)
(***************************************************************************)
CanDownload(copy) == ServerOf[copy] \in Downloadable

\* pickBestCopy: longer by more than a minute, then larger, then of more files.
Length(copy) == IF Identity[copy].duration = Unknown THEN 0 ELSE Identity[copy].duration
Better(a, b) ==
    IF Length(a) - Length(b) \notin -60..60 THEN Length(a) > Length(b)
    ELSE Size[a] > Size[b] \/ (Size[a] = Size[b] /\ Files[a] > Files[b])

\* The first that none is better than, if that orders them; else what a sort makes of it.
Representatives(copies) ==
    LET orders == \A a, b, c \in ToSet(copies) : Better(a, c) => Better(a, b) \/ Better(b, c)
        unbeaten == {n \in DOMAIN copies : \A b \in ToSet(copies) : ~Better(b, copies[n])}
    IN  IF orders THEN {copies[Min(unbeaten)]} ELSE ToSet(copies)

\* Another one takes its place if it cannot be downloaded.
Preferred(copies, representative) ==
    LET offered == SelectSeq(copies, CanDownload) IN
    IF CanDownload(representative) \/ offered = <<>> THEN representative ELSE Head(offered)

View(cluster, representative) ==
    [copies |-> cluster.copies, differ |-> EditionsDiffer(cluster),
     best |-> Preferred(cluster.copies, representative),
     group |-> Identity[representative].series]

\* One row for each cluster, under its founder's key.
Tables(clusters) ==
    LET founders == {id \in Ids : \E c \in clusters : Head(c.copies) = id}
        Of(id) == CHOOSE c \in clusters : Head(c.copies) = id
        bests == {f \in [founders -> Ids] :
                    \A id \in founders : f[id] \in Representatives(Of(id).copies)}
    IN  {[id \in founders |-> View(Of(id), best[id])] : best \in bests}

\* compare, as the page asks for it.
Rows(books, servers, doubtful) ==
    LET compared == {b \in books : servers = {} \/ ServerOf[b] \in servers}
        clusters == Missing(SelectSeq(Records, LAMBDA b : b \in compared), Owned)
    IN  Tables({c \in ToSet(clusters) : doubtful \/ ~c.uncertain})

ListInit ==
    /\ indexed \in {Ids, Ids \ {Head(Records)}}
    /\ chosen = {} /\ uncertain = FALSE
    /\ shown \in Rows(indexed, chosen, FALSE)
    /\ choices = NoChoices
    /\ selected = {} /\ bulk = IdleBulk
    /\ meant = [id \in Ids |-> NoPick] /\ moves = 0

Move == moves < MaxMoves /\ moves' = moves + 1

\* An index run writes or removes a row.
Reindex(b) ==
    /\ Move
    /\ indexed' = IF b \in indexed THEN indexed \ {b} ELSE indexed \cup {b}
    /\ UNCHANGED <<chosen, uncertain, shown, choices, selected, bulk, meant>>

\* The list is rendered anew and keeps what is ticked and chosen, unless it is empty: then
\* it goes, and a new one comes later.
Render(ticked) ==
    /\ shown' \in Rows(indexed, chosen', uncertain')
    /\ LET gone == DOMAIN shown' = {} IN
         /\ choices' = IF gone THEN NoChoices ELSE choices
         /\ meant' = IF gone THEN [id \in Ids |-> NoPick] ELSE meant
         /\ selected' = IF gone THEN {} ELSE ticked

\* toggleSource: without any in the address all boxes are ticked.
ToggleSource(s) ==
    /\ Move
    /\ chosen' = IF chosen = {} \/ s \in chosen THEN chosen \ {s} ELSE chosen \cup {s}
    /\ UNCHANGED <<uncertain, indexed>>
    /\ Render(selected)
    /\ bulk' = [bulk EXCEPT !.here = @ /\ DOMAIN shown' # {}]

ToggleUncertain ==
    /\ Move
    /\ uncertain' = ~uncertain
    /\ UNCHANGED <<chosen, indexed>>
    /\ Render(selected)
    /\ bulk' = [bulk EXCEPT !.here = @ /\ DOMAIN shown' # {}]

-----------------------------------------------------------------------------
(***************************************************************************)
(* The page.                                                               *)
(***************************************************************************)
\* resolveCopy: the chosen copy; without a choice the best, but none of several
\* recordings.  (Variant: the best of those, too.)
ResolveAlways(view, choice) ==
    IF choice \notin {Unset, Best}
    THEN (IF choice \in DOMAIN view.copies THEN view.copies[choice] ELSE Unset)
    ELSE view.best

Resolve(view, choice) ==
    IF choice \notin {Unset, Best}
    THEN (IF choice \in DOMAIN view.copies THEN view.copies[choice] ELSE Unset)
    ELSE IF view.differ THEN Unset ELSE view.best

Syncable(id) ==
    LET copy == Resolve(shown[id], choices[id]) IN
    IF copy # Unset /\ CanDownload(copy) THEN copy ELSE Unset

SyncableIds == {id \in DOMAIN shown : Syncable(id) # Unset}

\* onChoose, from a menu of the copies that may be downloaded, and of "best".
Choose(id, place) ==
    LET view == shown[id] IN
    /\ Len(view.copies) > 1
    /\ IF place = Best THEN ~view.differ
       ELSE place \in DOMAIN view.copies /\ CanDownload(view.copies[place])
    /\ choices' = [choices EXCEPT ![id] = place]
    /\ meant' = [meant EXCEPT ![id] =
                   IF place = Best THEN NoPick
                   ELSE [copy |-> view.copies[place], among |-> view.copies]]
    /\ UNCHANGED <<indexed, chosen, uncertain, shown, selected, bulk, moves>>

ticking == <<indexed, chosen, uncertain, shown, choices, bulk, meant, moves>>

Tick(id) ==
    /\ id \in SyncableIds
    /\ selected' = IF id \in selected THEN selected \ {id} ELSE selected \cup {id}
    /\ UNCHANGED ticking

Group(g) == {id \in DOMAIN shown : shown[id].group = g}
TickGroup(g) ==
    LET ids == SyncableIds \cap Group(g) IN
    /\ ids # {}
    /\ selected' = IF ids \subseteq selected THEN selected \ ids ELSE selected \cup ids
    /\ UNCHANGED ticking

Clear == selected # {} /\ selected' = {} /\ UNCHANGED ticking

\* One request for each row that has a copy to ask for; nothing happens without any.
RequestsFor(ids) == SetToSeq({[id |-> id, copy |-> Syncable(id)] : id \in ids \cap SyncableIds})

Send(of, ids) ==
    /\ bulk.of = "none"
    /\ RequestsFor(ids) # <<>>
    /\ bulk' = [IdleBulk EXCEPT !.of = of, !.todo = RequestsFor(ids),
                                !.ticked = IF of = "ticked" THEN selected \cap SyncableIds ELSE {}]
    /\ UNCHANGED <<indexed, chosen, uncertain, shown, choices, selected, meant, moves>>

SyncSelected == Send("ticked", selected)
SyncGroup(g) == Send("group", Group(g))
SyncBook(id) == Send("row", {id})

\* syncManyAction: enqueueSync queues a book or knows it ...
EnqueueNext ==
    /\ bulk.todo # <<>>
    /\ bulk' = [bulk EXCEPT !.todo = Tail(@), !.answered = @ \cup {Head(bulk.todo).id}]
    /\ UNCHANGED <<indexed, chosen, uncertain, shown, choices, selected, meant, moves>>

\* ... or turns it down or throws, which is that book's failure.  (Variant: and the end of
\* the others.)
EnqueueFailsAll ==
    /\ bulk.todo # <<>>
    /\ bulk' = [bulk EXCEPT !.todo = <<>>, !.failed = TRUE,
                           !.answered = @ \cup {Head(bulk.todo).id}]
    /\ UNCHANGED <<indexed, chosen, uncertain, shown, choices, selected, meant, moves>>

EnqueueFails ==
    /\ bulk.todo # <<>>
    /\ bulk' = [bulk EXCEPT !.todo = Tail(@), !.failed = TRUE,
                           !.answered = @ \cup {Head(bulk.todo).id}]
    /\ UNCHANGED <<indexed, chosen, uncertain, shown, choices, selected, meant, moves>>

\* The action returns, and the page is rendered anew with it but for a row's failure.  The
\* selection is emptied if it is what was asked for.
Return ==
    LET ticked == IF bulk.of = "ticked" /\ bulk.here THEN {} ELSE selected IN
    /\ bulk.of # "none" /\ bulk.todo = <<>>
    /\ bulk' = IdleBulk
    /\ UNCHANGED <<indexed, chosen, uncertain, moves>>
    /\ IF bulk.of = "row" /\ bulk.failed
       THEN UNCHANGED <<shown, choices, meant, selected>>
       ELSE Render(ticked)

ListNext ==
    \/ \E b \in Ids : Reindex(b)
    \/ \E s \in Servers : ToggleSource(s)
    \/ ToggleUncertain
    \/ \E id \in DOMAIN shown :
         Tick(id) \/ SyncBook(id) \/ \E place \in Best..Len(Records) : Choose(id, place)
    \/ \E g \in {shown[id].group : id \in DOMAIN shown} : TickGroup(g) \/ SyncGroup(g)
    \/ Clear \/ SyncSelected \/ EnqueueNext \/ EnqueueFails \/ Return

ListSpec == ListInit /\ [][ListNext]_listVars
-----------------------------------------------------------------------------
Sent == IF bulk.of = "none" THEN ToSet(bulk'.todo) ELSE {}

\* What was picked is what every button asks for, if the row is still of those copies: by
\* the row's button, with its group or with the selection, and whatever the list has been
\* meanwhile.  And of several recordings none is asked for unless somebody has picked one.
PickKept ==
    [][\A r \in Sent :
         /\ shown[r.id].differ => meant[r.id] # NoPick
         /\ meant[r.id] # NoPick /\ meant[r.id].among = shown[r.id].copies
              => r.copy = meant[r.id].copy]_listVars

\* "Where copies of one work turn out to be different recordings, nothing picks one for
\* you": whatever the row is of by now, a pick of one never becomes another.
PickedOrNothing ==
    [][\A r \in Sent : shown[r.id].differ => r.copy = meant[r.id].copy]_listVars

\* The selection is not emptied over a book in it that could be asked for, and was not:
\* one that fails does not take the others with it.
SelectionAnswered ==
    [][Return => bulk.ticked \subseteq bulk.answered]_listVars
=============================================================================
