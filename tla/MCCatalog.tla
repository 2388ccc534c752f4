------------------------------ MODULE MCCatalog ------------------------------
(* Seven small instances.  While one moves the others stay in their initial states.  *)
(*   "servers"      calls about two servers and a library, interleaved             *)
(*   "comparisons"  two comparisons, two index runs and a switch of a library      *)
(*   "diff"         every choice of three of eight books, and of two at the target *)
(*   "serial"       requests for a transfer that do not overlap, the list with its   *)
(*                  retries and clears, and as many late writes as MaxLate allows   *)
(*   "untitled"     the same, for an item whose title is not compared              *)
(*   "race"         requests that overlap, claims, cancels and ends; no list       *)
(*   "watch"        an evaluation of two watches, while the index changes          *)
EXTENDS Watches, Diff, Servers, CompareCache, TLC

CONSTANTS ours, theirs    \* items of CompareCache

VARIABLE part

-----------------------------------------------------------------------------
\* The books of "diff": a work whole and in parts, an abridgement, another reader's, one
\* whose identifiers clash, one that is only near, and one that is no audiobook.
Book == [title |-> "sword", number |-> Unknown, author |-> "ann", narrator |-> Unknown,
         series |-> Unknown, sequence |-> Unknown, asin |-> Unknown, isbn |-> Unknown,
         duration |-> Unknown, hasAudio |-> TRUE]

Shelf == [
    whole |-> [Book EXCEPT !.duration = 400],
    part1 |-> [Book EXCEPT !.title = "sword 1", !.number = 1],
    part2 |-> [Book EXCEPT !.title = "sword 2", !.number = 2, !.series = "saga", !.sequence = 2],
    brief |-> [Book EXCEPT !.narrator = "bob", !.duration = 150, !.asin = "x"],
    read  |-> [Book EXCEPT !.narrator = "cid", !.duration = 365, !.isbn = "y"],
    like  |-> [Book EXCEPT !.title = "sworn", !.author = Unknown, !.duration = 800,
                           !.asin = "x", !.isbn = "y"],
    near  |-> [Book EXCEPT !.title = "sworn", !.author = "eve", !.duration = 440,
                           !.series = "saga", !.sequence = 2],
    text  |-> [Book EXCEPT !.title = "other", !.hasAudio = FALSE]]

\* Those of "watch": two copies of one work, and a book like one that the server mine has.
Saga(title, author, duration) ==
    [Book EXCEPT !.title = title, !.author = author, !.duration = duration, !.series = "saga"]

Sagas == [
    hereBlade  |-> Saga("blade", "ann", 400),
    thereBlade |-> Saga("blade", "ann", 400),
    mineSpear  |-> Saga("spear", "bob", 700),
    hereSpears |-> Saga("spears", "bob", 500)]

MCIdentity == Shelf @@ Sagas
MCBooks == DOMAIN MCIdentity
MCServerOf == [hereBlade |-> "here", thereBlade |-> "there", mineSpear |-> "mine",
               hereSpears |-> "here"] @@ [b \in DOMAIN Shelf |-> "here"]

Titles == {"sword", "sword 1", "sword 2", "sworn", "other", "blade", "spear", "spears"}
Parts == {"sword", "sword 1", "sword 2"}
MCTitleSimilarity == [p \in Titles \X Titles |->
    LET pair == {p[1], p[2]} IN
    CASE p[1] = p[2] -> 100
      [] p[1] # p[2] /\ pair \subseteq Parts -> IF "sword" \in pair THEN 100 ELSE 86
      [] pair = {"sword", "sworn"} -> 80
      [] pair = {"spear", "spears"} -> 84
      [] OTHER -> 50]
MCSharedTokens == {p \in Titles \X Titles :
    p[1] = p[2] \/ {p[1], p[2]} \subseteq Parts \/ {p[1], p[2]} = {"sword", "sworn"}}
Names == {"ann", "bob", "cid", "eve"}
MCNameSimilarity == [p \in Names \X Names |-> IF p[1] = p[2] THEN 100 ELSE 33]

MCWatchTarget == [w1 |-> "mine", w2 |-> "here"]
MCWatches == DOMAIN MCWatchTarget
MCWatchSeries == [w \in MCWatches |-> "saga"]

\* Items of transfers: every book to every server, and one whose title is not compared.
Untitled == <<"untitled", "mine">>
MCItems == ((DOMAIN Sagas) \X Servers) \cup {Untitled}
MCGroupOf == [i \in MCItems |-> IF i = Untitled THEN "untitled" ELSE MCIdentity[i[1]].title]
MCWorkOf == [i \in MCItems |-> IF i = Untitled THEN NoTitle ELSE <<i[2], MCGroupOf[i]>>]
TwoCopies == {<<"hereBlade", "mine">>, <<"thereBlade", "mine">>}

MCItemIds == {ours, theirs}
MCServerOfItem == ours :> "mine" @@ theirs :> "here"
-----------------------------------------------------------------------------
MCInit ==
    /\ part \in {"servers", "comparisons", "diff", "serial", "untitled", "race", "watch"}
    /\ index = DOMAIN Sagas /\ WatchesInit
    /\ ServersInit /\ CacheInit /\ DiffInit
    /\ part # "watch" => target = "mine"

\* Asking for a transfer, with what else may happen to the list.
SerialNext(asked) ==
    \/ UnderWay = {} /\ \E q \in Requests, i \in asked : Ask(q, i)
    \/ \E q \in Requests : RequestStep(q)
    \/ \E j \in Rows : RowStep(j) \/ Retry(j) \/ Evict(j)
    \/ \E s \in Slots : RunStep(s)
    \/ Clear \/ Render

RaceNext ==
    \/ \E q \in Requests, i \in TwoCopies : Ask(q, i)
    \/ \E q \in Requests : RequestStep(q)
    \/ \E j \in Rows : RowStep(j)
    \/ \E s \in Slots, outcome \in {"completed", "canceled"} : End(s, outcome)

OnePass ==
    /\ Cardinality({q \in Requests : pass[q] # IdlePass}) <= 1
    /\ Cardinality({s \in Slots : slot[s] # None}) <= 1
    /\ \A j \in Rows : ~spooled[j]
    /\ late = 0

\* Two comparisons at once only while no library has been switched (CompareCacheProofs has
\* no such limit).
Overlapping == Cardinality({q \in Requests : comparer[q] # IdleComparer}) > 1
SwitchedAlone == switches = 0 \/ ~Overlapping

MCNext ==
    /\ \/ part = "servers" /\ ServersNext /\ UNCHANGED <<allVars, cacheVars, diffVars>>
       \/ part = "comparisons" /\ CacheNext /\ SwitchedAlone'
            /\ UNCHANGED <<allVars, serverVars, diffVars>>
       \/ part = "diff" /\ DiffNext /\ ToSet(sources' \o owned') \subseteq DOMAIN Shelf
            /\ UNCHANGED <<allVars, serverVars, cacheVars>>
       \/ part = "serial" /\ SerialNext(TwoCopies) /\ status'[MaxRows] = "absent"
            /\ UNCHANGED <<watchVars, serverVars, cacheVars, diffVars>>
       \/ part = "untitled" /\ SerialNext({Untitled})
            /\ UNCHANGED <<watchVars, serverVars, cacheVars, diffVars>>
       \/ part = "race" /\ RaceNext
            /\ UNCHANGED <<watchVars, serverVars, cacheVars, diffVars>>
       \/ part = "watch" /\ WatchesNext /\ OnePass' /\ index' \subseteq DOMAIN Sagas
            /\ UNCHANGED <<serverVars, cacheVars, diffVars>>
    /\ UNCHANGED part

MCSpec == MCInit /\ [][MCNext]_<<allVars, serverVars, cacheVars, diffVars, part>>

Symmetry == Permutations(Requests) \cup Permutations(Slots) \cup Permutations(Ids)

TypesOK ==
    /\ part \in {"serial", "untitled", "race", "watch"} => TypeOK
    /\ part = "watch" => WatchesTypeOK
    /\ part = "servers" => ServersTypeOK
    /\ part = "comparisons" => CacheTypeOK
    /\ part = "diff" => DiffTypeOK
=============================================================================
