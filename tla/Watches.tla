------------------------------ MODULE Watches ------------------------------
(***************************************************************************)
(* Series watches (apps/web/lib/watches.ts), as the scheduler evaluates    *)
(* them all and as somebody evaluates one.                                 *)
(*                                                                         *)
(* An evaluation reads the index, compares (Matching) and asks for each    *)
(* book with enqueueSync (Enqueue), one query after the other, while index *)
(* runs write and remove rows and the target may become another server.    *)
(* All servers are enabled and all libraries included, one per server; the *)
(* optional author of a watch is not set.  An item is a book and a target. *)
(***************************************************************************)
EXTENDS Enqueue, Matching

CONSTANTS
    Servers,       \* all of them
    ServerOf,      \* the server of each book
    Downloadable,  \* the servers whose account may download
    Watches,       \* SeriesWatch rows, all enabled, with autoEnqueue
    WatchTarget,   \* the server of each watch's targetLibraryId
    WatchSeries,   \* normSeries of each watch
    MaxMoves       \* bound: changes of the index and of the target

ASSUME WatchesAssumption == IsFiniteSet(Books) /\ MaxMoves \in Nat

VARIABLES
    index,   \* the books with a row in the index
    target,  \* the server that is the target
    pass,    \* what each call of evaluateAllWatches or evaluateWatch is at
    moves    \* changes so far

watchVars == <<index, target, pass, moves>>
allVars == <<vars, watchVars>>

IdlePass == [pc |-> "idle", todo |-> {}, watch |-> None, owner |-> None, loaded |-> FALSE,
             records |-> {}, found |-> {}, queue |-> <<>>, seen |-> {}, steady |-> TRUE]

RowsOf(s) == {b \in index : ServerOf[b] = s}

WatchesTypeOK ==
    /\ index \in SUBSET Books
    /\ target \in Servers
    /\ moves \in 0..MaxMoves
    /\ \A q \in Requests :
         /\ pass[q].pc \in {"idle", "load", "next", "sources", "candidates", "records", "diff",
                            "enqueue"}
         /\ pass[q].todo \subseteq Watches /\ pass[q].watch \in Watches \cup {None}
         /\ pass[q].owner \in Servers \cup {None}   \* the target, as last read
         /\ pass[q].loaded \in BOOLEAN /\ pass[q].records \subseteq Books
         /\ pass[q].found \subseteq Books 
         /\ \A n \in DOMAIN pass[q].queue : ToSet(pass[q].queue[n].copies) \subseteq Books
         /\ pass[q].seen \subseteq Books            \* history: index, when the records were read
         /\ pass[q].steady \in BOOLEAN              \* history: still the same target

WatchesInit ==
    /\ Init
    /\ index \in SUBSET Books
    /\ target \in Servers
    /\ pass = [q \in Requests |-> IdlePass]
    /\ moves = 0

Become(q, new) == pass' = [pass EXCEPT ![q] = new]
Over(q) == Become(q, [pass[q] EXCEPT !.pc = "next", !.watch = None, !.owner = None,
                                     !.found = {}, !.queue = <<>>])
unmoved == <<vars, index, target, moves>>

-----------------------------------------------------------------------------
\* evaluateAllWatches reads the rows of the target once, for all watches.
EvaluateAll(q) ==
    /\ pass[q].pc = "idle" /\ request[q].pc = "idle"
    /\ Become(q, [IdlePass EXCEPT !.pc = "load", !.todo = Watches, !.owner = target])
    /\ UNCHANGED unmoved

Load(q) ==
    /\ pass[q].pc = "load"
    /\ Become(q, [pass[q] EXCEPT !.pc = "next", !.loaded = TRUE, !.owner = None,
                                 !.records = RowsOf(pass[q].owner), !.seen = index])
    /\ UNCHANGED unmoved

\* evaluateWatch of one, from its page.
EvaluateOne(q, w) ==
    /\ pass[q].pc = "idle" /\ request[q].pc = "idle"
    /\ Become(q, [IdlePass EXCEPT !.pc = "next", !.todo = {w}])
    /\ UNCHANGED unmoved

\* The guard: nothing is done for a watch whose server has no index.
Guard(q, w) ==
    /\ pass[q].pc = "next" /\ w \in pass[q].todo
    /\ Become(q, [pass[q] EXCEPT !.todo = @ \ {w},
                                 !.watch = IF RowsOf(WatchTarget[w]) = {} THEN None ELSE w,
                                 !.pc = IF RowsOf(WatchTarget[w]) = {} THEN "next" ELSE "sources"])
    /\ UNCHANGED unmoved

Done(q) ==
    /\ pass[q].pc = "next" /\ pass[q].todo = {}
    /\ Become(q, IdlePass)
    /\ UNCHANGED unmoved

\* The other servers, and then their books of the series.
Sources(q) ==
    /\ pass[q].pc = "sources"
    /\ Become(q, [pass[q] EXCEPT !.pc = "candidates", !.owner = target])
    /\ UNCHANGED unmoved

Candidates(q) ==
    LET p == pass[q]
        found == {b \in index : /\ ServerOf[b] # p.owner
                                /\ Identity[b].series = WatchSeries[p.watch]}
    IN
    /\ p.pc = "candidates"
    /\ IF found = {} THEN Over(q)
       ELSE Become(q, [p EXCEPT !.found = found, !.pc = IF p.loaded THEN "diff" ELSE "records"])
    /\ UNCHANGED unmoved

\* Its own server's rows, unless they were loaded before.
Records(q) ==
    /\ pass[q].pc = "records"
    /\ Become(q, [pass[q] EXCEPT !.records = RowsOf(WatchTarget[pass[q].watch]), !.seen = index,
                                 !.pc = "diff"])
    /\ UNCHANGED unmoved

\* A row is not left to a person, and has a copy that may be downloaded (enqueueSync
\* rejects the others): the first of them is asked for.
Downloads(cluster) == {n \in DOMAIN cluster.copies : ServerOf[cluster.copies[n]] \in Downloadable}
Asked(cluster) == Queued(cluster) /\ Downloads(cluster) # {}
Chosen(cluster) ==
    cluster.copies[CHOOSE n \in Downloads(cluster) : \A m \in Downloads(cluster) : n <= m]

\* The records may be empty although the guard saw some.
Indexed(records) == records # {}

Compare(q) ==
    LET p == pass[q] IN
    /\ p.pc = "diff"
    /\ IF Indexed(p.records)
       THEN Become(q, [p EXCEPT !.pc = "enqueue",
                                !.queue = Missing(SetToSeq(p.found), SetToSeq(p.records))])
       ELSE Over(q)
    /\ UNCHANGED unmoved

\* enqueueSync first: the watch's library must be one of the target's.  (Variant: it is
\* enough that there is a target.)
AnyTarget(w) == target \in Servers
AcceptedBy(w) == target = WatchTarget[w]

\* The next row of the comparison.
AskNext(q) ==
    LET p == pass[q] IN
    /\ p.pc = "enqueue" /\ request[q].pc = "idle"
    /\ IF p.queue = <<>> THEN Over(q) /\ UNCHANGED vars
       ELSE /\ Become(q, [p EXCEPT !.queue = Tail(@)])
            /\ IF Asked(Head(p.queue)) /\ AcceptedBy(p.watch)
               THEN Ask(q, <<Chosen(Head(p.queue)), target>>) ELSE UNCHANGED vars
    /\ UNCHANGED <<index, target, moves>>

-----------------------------------------------------------------------------
\* An index run writes a row or removes one, or all rows of a server go with its library.
Reindex ==
    /\ moves < MaxMoves
    /\ moves' = moves + 1
    /\ \/ \E b \in Books : index' = (IF b \in index THEN index \ {b} ELSE index \cup {b})
       \/ \E s \in Servers : RowsOf(s) # {} /\ index' = index \ RowsOf(s)
    /\ UNCHANGED <<vars, target, pass>>

Retarget(s) ==
    /\ moves < MaxMoves /\ s # target
    /\ moves' = moves + 1
    /\ target' = s
    /\ pass' = [q \in Requests |-> IF pass[q].pc = "idle" THEN pass[q]
                                   ELSE [pass[q] EXCEPT !.steady = FALSE]]
    /\ UNCHANGED <<vars, index>>

PassStep(q) ==
    \/ EvaluateAll(q) \/ Load(q) \/ (\E w \in Watches : EvaluateOne(q, w) \/ Guard(q, w)) \/ Done(q)
    \/ Sources(q) \/ Candidates(q) \/ Records(q) \/ Compare(q) \/ AskNext(q)

WatchesNext ==
    \/ \E q \in Requests : PassStep(q) \/ (RequestStep(q) /\ UNCHANGED watchVars)
    \/ (\E j \in Rows : RowStep(j)) /\ UNCHANGED watchVars
    \/ (\E s \in Slots : RunStep(s)) /\ UNCHANGED watchVars
    \/ Reindex \/ \E s \in Servers : Retarget(s)

WatchesSpec == WatchesInit /\ [][WatchesNext]_allVars

-----------------------------------------------------------------------------
Resembling(b, s, among) ==
    {o \in among : ServerOf[o] = s /\ Match(b, o) # NoMatch}

\* No evaluation asks for a book for a server that had it, or anything like it, when the
\* evaluation read the index; although the records that a pass compares with are those of
\* the target and the watch may be for another server.  (Unless the target becomes another
\* in the middle: then they may be the wrong ones.)  And a server with an empty index looks
\* as if it owned nothing: nothing is asked for on the strength of that, also when its rows
\* go while an evaluation is under way.
Unowned ==
    [][\A q \in Requests : AskNext(q) /\ request'[q].pc # "idle" =>
         /\ pass[q].records # {}
         /\ pass[q].steady =>
              Resembling(request'[q].item[1], WatchTarget[pass[q].watch],
                         pass[q].seen) = {}]_allVars
=============================================================================
