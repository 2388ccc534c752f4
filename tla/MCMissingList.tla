--------------------------- MODULE MCMissingList ---------------------------
(* The list of missing books on a small instance: a work with two copies of one    *)
(* reading, the first on a server that allows no downloads, and a third copy of   *)
(* another reading; and a book that is like one the target has.                    *)
EXTENDS MissingList

Entry == [title |-> "blade", number |-> Unknown, author |-> "ann", narrator |-> "bob",
          series |-> "saga", sequence |-> Unknown, asin |-> Unknown, isbn |-> Unknown,
          duration |-> 36000, hasAudio |-> TRUE]

MCIdentity == [
    one   |-> Entry,
    two   |-> [Entry EXCEPT !.duration = 36040],
    other |-> [Entry EXCEPT !.narrator = "cid", !.duration = 36030],
    near  |-> [Entry EXCEPT !.title = "spears"],
    mine  |-> [Entry EXCEPT !.title = "spear", !.duration = 46000]]
MCBooks == DOMAIN MCIdentity

MCRecords == <<"one", "two", "other", "near">>
MCOwned == <<"mine">>
MCServerOf == [one |-> "s2", two |-> "s1", other |-> "s1", near |-> "s1"]
MCSize == [one |-> 9, two |-> 5, other |-> 7, near |-> 1]
MCFiles == [one |-> 1, two |-> 1, other |-> 1, near |-> 1]

EntryTitles == {"blade", "spear", "spears"}
MCTitleSimilarity == [p \in EntryTitles \X EntryTitles |->
    IF p[1] = p[2] THEN 100 ELSE IF "blade" \in {p[1], p[2]} THEN 50 ELSE 84]
MCSharedTokens == {p \in EntryTitles \X EntryTitles : p[1] = p[2]}

Voices == {"ann", "bob", "cid"}
MCNameSimilarity == [p \in Voices \X Voices |-> IF p[1] = p[2] THEN 100 ELSE 33]
=============================================================================
