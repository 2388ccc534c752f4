------------------------------ MODULE MCIndexer ------------------------------
(* Indexer on small instances.  For the run `index` two of them at once: in       *)
(* "crawl" there are faults, cancellations and a library that changes during full *)
(* runs, too; in "newest" there is an item and a change more, and none of those. *)
EXTENDS Indexer

VARIABLE part

LastItem == NumItems
Calm == faults' = 0 /\ \A r \in Runs : ~run'[r].aborted
FullUndisturbed == \A r \in Active : run[r].mode = "full" => lib' = lib
NothingRemoved == \A i \in Items : lib'[i] # Gone

MCInit ==
    /\ Init
    /\ part \in {"crawl", "newest"}
    /\ part = "crawl" => lib[LastItem] = 0

MCNext ==
    /\ Next
    /\ part = "crawl" => lib'[LastItem] = 0 /\ changes' < MaxChanges
    /\ part = "newest" => Calm /\ FullUndisturbed /\ NothingRemoved
    /\ UNCHANGED part

MCSpec == MCInit /\ [][MCNext]_<<vars, part>>

\* Findable, of a library that stays as it is during full runs.
FindableAtRest == part = "newest" => Findable
=============================================================================
