------------------------------ MODULE Servers ------------------------------
(***************************************************************************)
(* The configured servers and their libraries (apps/web/lib/servers.ts).   *)
(*                                                                         *)
(* A server is asked who it takes the account for and which libraries it   *)
(* has, and what it answers is written afterwards in one transaction.      *)
(* Other calls, and changes at the servers themselves, come in between.    *)
(***************************************************************************)
EXTENDS Naturals, FiniteSets

CONSTANTS
    Ids,          \* bound: rows ever created
    Addresses,    \* what baseUrl and name may be
    Libraries,    \* bound: the book libraries a server may have
    Callers,      \* bound: calls under way at once
    MaxUpstream,  \* bound: changes at the servers, and changed rows
    Absent        \* no row, no address

ASSUME ServersAssumption ==
    /\ Absent \notin [address : Addresses, target : BOOLEAN, canUpload : BOOLEAN]
    /\ MaxUpstream \in Nat

VARIABLES
    row,       \* Server: None before it is created and once it is deleted
    used,      \* the ids given out
    library,   \* Library of each server: "none", or whether it is included
    upstream,  \* the libraries that each address lists (upstream)
    call,      \* each call of createServer, updateServer, ...
    changes,   \* changes so far
    steady     \* history: what a server has listed ever since its row was created

serverVars == <<row, used, library, upstream, call, changes, steady>>

Calls == {"idle", "test", "find", "insert", "update", "target", "delete",
          "ask", "commit"}
IdleCall == [pc |-> "idle", server |-> Absent, address |-> Absent, target |-> FALSE,
             listing |-> {}]
Existing == {s \in Ids : row[s] # Absent}
Targets == {s \in Existing : row[s].target}

ServersTypeOK ==
    /\ row \in [Ids -> [address : Addresses, target : BOOLEAN, canUpload : BOOLEAN]
                      \cup {Absent}]
    /\ used \in SUBSET Ids /\ Existing \subseteq used
    /\ library \in [Ids -> [Libraries -> {"none", "in", "out"}]]
    /\ upstream \in [Addresses -> SUBSET Libraries]
    /\ call \in [Callers -> [pc : Calls, server : Ids \cup {Absent},
                             address : Addresses \cup {Absent}, target : BOOLEAN,
                             listing : SUBSET Libraries]]
    /\ changes \in 0..MaxUpstream
    /\ steady \in SUBSET (Ids \X Libraries)

NoLibraries == [l \in Libraries |-> "none"]

ServersInit ==
    /\ row = [s \in Ids |-> Absent]
    /\ used = {}
    /\ library = [s \in Ids |-> NoLibraries]
    /\ upstream = [a \in Addresses |-> Libraries]
    /\ call = [c \in Callers |-> IdleCall]
    /\ changes = 0
    /\ steady = {}

stored == <<row, used, library, steady>>
CallBecomes(c, new) == call' = [call EXCEPT ![c] = new]
Return(c) == CallBecomes(c, IdleCall)

\* Another server becomes the target, or a new one does.
Cleared == [s \in Ids |-> IF s \in Targets THEN [row[s] EXCEPT !.target = FALSE] ELSE row[s]]

-----------------------------------------------------------------------------
\* createServer.
CreateServer(c, a, target) ==
    /\ call[c].pc = "idle"
    /\ CallBecomes(c, [IdleCall EXCEPT !.pc = "test", !.address = a, !.target = target])
    /\ UNCHANGED <<stored, upstream, changes>>

\* testConnection: it answers, or nothing is saved.
Test(c) ==
    LET a == call[c].address IN
    /\ call[c].pc = "test"
    /\ \/ CallBecomes(c, [call[c] EXCEPT !.pc = "find", !.listing = upstream[a]])
       \/ Return(c)
    /\ UNCHANGED <<stored, upstream, changes>>

FindTwin(c) ==
    /\ call[c].pc = "find"
    /\ IF \E s \in Existing : row[s].address = call[c].address
       THEN Return(c)
       ELSE CallBecomes(c, [call[c] EXCEPT !.pc = "insert"])
    /\ UNCHANGED <<stored, upstream, changes>>

\* Whether the account may upload is what the server has said.
Saved(k, may) == [address |-> k.address, target |-> k.target, canUpload |-> may]

\* The transaction.
Insert(c, s) ==
    LET k == call[c]
        others == IF k.target THEN Cleared ELSE row
    IN
    /\ k.pc = "insert" /\ s \notin used
    /\ \E may \in BOOLEAN : row' = [others EXCEPT ![s] = Saved(k, may)]
    /\ library' = [library EXCEPT ![s] =
           [l \in Libraries |-> IF l \in k.listing THEN "in" ELSE "none"]]
    /\ used' = used \cup {s}
    /\ steady' = steady \cup ({s} \X upstream[k.address])
    /\ Return(c)
    /\ UNCHANGED <<upstream, changes>>

-----------------------------------------------------------------------------
\* The calls that find their row first; there is nothing to do without one.
BeginCall(c, s, pc) ==
    /\ call[c].pc = "idle" /\ s \in Existing
    /\ pc = "target" => row[s].canUpload
    /\ CallBecomes(c, [IdleCall EXCEPT !.pc = pc, !.server = s,
                                       !.address = IF pc = "ask" THEN row[s].address ELSE Absent])
    /\ UNCHANGED <<stored, upstream, changes>>

\* updateServer writes the row, wherever it is to be found now, and verifies it: a
\* query of its own.
Update(c, a) ==
    LET s == call[c].server IN
    /\ call[c].pc = "update" /\ changes < MaxUpstream
    /\ IF s \in Existing
       THEN /\ row' = [row EXCEPT ![s].address = a]
            /\ CallBecomes(c, [call[c] EXCEPT !.pc = "ask", !.address = a])
       ELSE UNCHANGED row /\ Return(c)
    /\ steady' = {p \in steady : p[1] # s}
    /\ changes' = changes + 1
    /\ UNCHANGED <<used, library, upstream>>

\* setTargetServer: both updates or none, if the row is gone.  (Variant: they are two
\* transactions.)
SetTargetInTwo(c) ==
    LET s == call[c].server IN
    /\ call[c].pc = "target"
    /\ row' = IF s \in Existing THEN [Cleared EXCEPT ![s].target = TRUE] ELSE Cleared
    /\ Return(c)
    /\ UNCHANGED <<used, library, steady, upstream, changes>>

SetTarget(c) ==
    LET s == call[c].server IN
    /\ call[c].pc = "target"
    /\ row' = IF s \in Existing THEN [Cleared EXCEPT ![s].target = TRUE] ELSE row
    /\ Return(c)
    /\ UNCHANGED <<used, library, steady, upstream, changes>>

\* deleteServer; libraries go with the row.
Delete(c) ==
    LET s == call[c].server IN
    /\ call[c].pc = "delete"
    /\ row' = [row EXCEPT ![s] = Absent]
    /\ library' = [library EXCEPT ![s] = NoLibraries]
    /\ Return(c)
    /\ UNCHANGED <<used, steady, upstream, changes>>

-----------------------------------------------------------------------------
\* verifyAndRefresh: the server at the address read before answers, or does not.
AskServer(c) ==
    LET a == call[c].address IN
    /\ call[c].pc = "ask"
    /\ CallBecomes(c, [call[c] EXCEPT !.pc = "commit", !.listing = upstream[a]])
    /\ UNCHANGED <<stored, upstream, changes>>

\* lastError is all that is written.  (Variant: a server that does not answer lists
\* nothing.)
AskFailsEmpty(c) ==
    /\ call[c].pc = "ask"
    /\ CallBecomes(c, [call[c] EXCEPT !.pc = "commit"])
    /\ UNCHANGED <<stored, upstream, changes>>

AskFails(c) ==
    /\ call[c].pc = "ask"
    /\ Return(c)
    /\ UNCHANGED <<stored, upstream, changes>>

\* The libraries after a listing: those it names are kept as they are or created, the
\* others dropped.
Reconciled(old, listing) ==
    [l \in Libraries |-> IF l \notin listing THEN "none"
                         ELSE IF old[l] = "none" THEN "in" ELSE old[l]]

\* The transaction; nothing is written when the row is gone.
Commit(c) ==
    LET k == call[c] s == k.server IN
    /\ k.pc = "commit"
    /\ \/ /\ s \in Existing
          /\ \E may \in BOOLEAN : row' = [row EXCEPT ![s].canUpload = may]
          /\ library' = [library EXCEPT ![s] = Reconciled(library[s], k.listing)]
       \/ s \notin Existing /\ UNCHANGED <<row, library>>
    /\ Return(c)
    /\ UNCHANGED <<used, steady, upstream, changes>>

SetIncluded(s, l) ==
    /\ library[s][l] # "none"
    /\ library' = [library EXCEPT ![s][l] = IF @ = "in" THEN "out" ELSE "in"]
    /\ UNCHANGED <<row, used, steady, call, upstream, changes>>

-----------------------------------------------------------------------------
\* Somebody adds a library to a server, or removes one.
Upstream(a, l) ==
    /\ changes < MaxUpstream
    /\ changes' = changes + 1
    /\ upstream' = [upstream EXCEPT ![a] = IF l \in @ THEN @ \ {l} ELSE @ \cup {l}]
    /\ steady' = {p \in steady : row[p[1]] # Absent /\ p[2] \in upstream'[row[p[1]].address]}
    /\ UNCHANGED <<row, used, library, call>>

Step(c) ==
    \/ Test(c) \/ FindTwin(c) \/ SetTarget(c) \/ Delete(c)
    \/ AskServer(c) \/ AskFails(c) \/ Commit(c)
    \/ \E s \in Ids : Insert(c, s)
    \/ \E a \in Addresses : Update(c, a)

ServersNext ==
    \/ \E c \in Callers, a \in Addresses, target \in BOOLEAN : CreateServer(c, a, target)
    \/ \E c \in Callers, s \in Ids, pc \in {"update", "target", "delete", "ask"} :
         BeginCall(c, s, pc)
    \/ \E c \in Callers : Step(c)
    \/ \E s \in Ids, l \in Libraries : SetIncluded(s, l)
    \/ \E a \in Addresses, l \in Libraries : Upstream(a, l)

ServersSpec == ServersInit /\ [][ServersNext]_serverVars

-----------------------------------------------------------------------------
\* Books go to one server: however creations, choices and deletions interleave, two
\* servers are never the target, and the target is given up only for another one, or
\* because its own row is deleted; a choice of a server that is deleted meanwhile leaves it
\* in force.
OneTarget ==
    /\ [](Cardinality(Targets) <= 1)
    /\ [][Targets # {} /\ Targets \subseteq {s \in Ids : row'[s] # Absent}
            => Targets' # {}]_serverVars

\* A library that its server has listed all along is never dropped, and stays chosen or
\* left out as the person at the settings decided, whichever verifications fail, are
\* late or overlap; and one that ends after its server was deleted brings none back.
LibraryKept ==
    /\ [](\A s \in Ids \ Existing : library[s] = NoLibraries)
    /\ [][\A s \in Ids, l \in Libraries :
            /\ <<s, l>> \in steady /\ library[s][l] # "none" /\ row'[s] # Absent
            /\ library'[s][l] # library[s][l]
            => SetIncluded(s, l)]_serverVars
=============================================================================
