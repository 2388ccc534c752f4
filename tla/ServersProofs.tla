---------------------------- MODULE ServersProofs ----------------------------
(***************************************************************************)
(* What holds of Servers for any number of servers, addresses, libraries   *)
(* and calls under way, and any number of changes at the servers.          *)
(***************************************************************************)
EXTENDS Servers, FiniteSetTheorems, TLAPS

RowRecord == [address : Addresses, target : BOOLEAN, canUpload : BOOLEAN]
CallRecord == [pc : Calls, server : Ids \cup {Absent}, address : Addresses \cup {Absent},
               target : BOOLEAN, listing : SUBSET Libraries]

\* What the proofs use of the constants.
AbsentIsNoRow == Absent \notin RowRecord

\* A call knows the address that it asks or writes, and the server that it is about.
Knows(k, ids) ==
    /\ k.pc \in {"test", "find", "insert", "ask"} => k.address \in Addresses
    /\ k.pc \in {"update", "target", "delete", "ask", "commit"} => k.server \in ids

RowType == row \in [Ids -> RowRecord \cup {Absent}] /\ Existing \subseteq used
LibraryType ==
    /\ used \in SUBSET Ids
    /\ library \in [Ids -> [Libraries -> {"none", "in", "out"}]]
    /\ upstream \in [Addresses -> SUBSET Libraries]
CallType == call \in [Callers -> CallRecord] /\ \A c \in Callers : Knows(call[c], used)
Typed == RowType /\ LibraryType /\ CallType

\* Two servers that are the target are one.
SingleTarget == \A s, t \in Targets : s = t

\* The libraries of a server that is not there are not there.
NoOrphans == \A s \in Ids \ Existing : library[s] = NoLibraries

\* What is steady is listed where the server is, and whoever asks for it asks there; so it
\* is in every listing that may still be written.
Fits(k, s, l, r) ==
    k.server = s =>
      /\ k.pc = "ask" => k.address = r.address
      /\ k.pc = "commit" => l \in k.listing
SteadyListed ==
    \A s \in Ids, l \in Libraries : <<s, l>> \in steady =>
        /\ s \in used
        /\ s \in Existing => /\ l \in upstream[row[s].address]
                             /\ \A c \in Callers : Fits(call[c], s, l, row[s])
-----------------------------------------------------------------------------
(***************************************************************************)
(* What a step may do to the rows.                                         *)
(***************************************************************************)
ClearedRow(r) == IF r # Absent /\ r.target THEN [r EXCEPT !.target = FALSE] ELSE r

LEMMA RowFacts ==
    ASSUME AbsentIsNoRow, NEW r \in RowRecord
    PROVE  /\ r # Absent /\ r.address \in Addresses /\ r.target \in BOOLEAN
           /\ [r EXCEPT !.target = FALSE] \in RowRecord
           /\ [r EXCEPT !.target = FALSE].target = FALSE
           /\ [r EXCEPT !.target = FALSE].address = r.address
           /\ [r EXCEPT !.target = TRUE] \in RowRecord
           /\ [r EXCEPT !.target = TRUE].target = TRUE
           /\ [r EXCEPT !.target = TRUE].address = r.address
           /\ \A a \in Addresses : /\ [r EXCEPT !.address = a] \in RowRecord
                                   /\ [r EXCEPT !.address = a].target = r.target
           /\ \A b \in BOOLEAN : /\ [r EXCEPT !.canUpload = b] \in RowRecord
                                 /\ [r EXCEPT !.canUpload = b].target = r.target
                                 /\ [r EXCEPT !.canUpload = b].address = r.address
  BY DEF AbsentIsNoRow, RowRecord

LEMMA ClearedRowFacts ==
    ASSUME AbsentIsNoRow, NEW r \in RowRecord
    PROVE  /\ ClearedRow(r) \in RowRecord /\ ClearedRow(r) # Absent
           /\ ClearedRow(r).address = r.address /\ ClearedRow(r).target = FALSE
<1>1. CASE r.target
  BY <1>1, RowFacts DEF ClearedRow
<1>2. CASE ~r.target
  BY <1>2, RowFacts DEF ClearedRow
<1> QED
  BY <1>1, <1>2

\* Nobody is the target once it is cleared.
LEMMA ClearedFacts ==
    ASSUME AbsentIsNoRow, RowType
    PROVE  /\ Cleared \in [Ids -> RowRecord \cup {Absent}]
           /\ \A s \in Ids : /\ Cleared[s] = Absent <=> row[s] = Absent
                             /\ row[s] # Absent => /\ Cleared[s].address = row[s].address
                                                  /\ Cleared[s].target = FALSE
<1> SUFFICES ASSUME NEW s \in Ids
             PROVE  /\ Cleared[s] \in RowRecord \cup {Absent}
                    /\ Cleared[s] = Absent <=> row[s] = Absent
                    /\ row[s] # Absent => /\ Cleared[s].address = row[s].address
                                         /\ Cleared[s].target = FALSE
  BY DEF Cleared
<1>1. Cleared[s] = ClearedRow(row[s])
  BY DEF Cleared, ClearedRow, Targets, Existing
<1>2. CASE row[s] = Absent
  BY <1>1, <1>2 DEF ClearedRow
<1>3. CASE row[s] # Absent
  <2>1. row[s] \in RowRecord
    BY <1>3 DEF RowType
  <2> QED
    BY <1>1, <1>3, <2>1, ClearedRowFacts
<1> QED
  BY <1>2, <1>3
-----------------------------------------------------------------------------
(***************************************************************************)
(* Types.                                                                  *)
(***************************************************************************)
LEMMA TypedInit == ServersInit => Typed
  BY DEF ServersInit, Typed, RowType, LibraryType, CallType, CallRecord, Calls, IdleCall, Knows,
         Existing, NoLibraries

LEMMA CallFields ==
    ASSUME NEW k \in CallRecord
    PROVE  /\ k.pc \in Calls /\ k.server \in Ids \cup {Absent}
           /\ k.address \in Addresses \cup {Absent} /\ k.target \in BOOLEAN
           /\ k.listing \in SUBSET Libraries
  BY DEF CallRecord

\* One call takes a step and becomes a record of its kind.
LEMMA CallMoved ==
    ASSUME CallType, NEW c \in Callers, NEW k \in CallRecord, CallBecomes(c, k), Knows(k, used'),
           used \subseteq used'
    PROVE  CallType'
<1>1. ASSUME NEW d \in Callers PROVE call'[d] \in CallRecord /\ Knows(call'[d], used')
  <2>1. CASE d = c
    BY <2>1 DEF CallType, CallBecomes
  <2>2. CASE d # c
    BY <2>2 DEF CallType, CallBecomes, Knows
  <2> QED
    BY <2>1, <2>2
<1>2. call' = [d \in Callers |-> call'[d]]
  BY DEF CallType, CallBecomes
<1> QED
  BY <1>1, <1>2 DEF CallType

LEMMA IdleCallFacts == IdleCall \in CallRecord /\ \A ids : Knows(IdleCall, ids)
  BY DEF IdleCall, CallRecord, Calls, Knows

\* The rows after a call that writes one of them: Written(base, s, r).
Written(base, s, r) == row' = [base EXCEPT ![s] = r]

LEMMA WrittenFacts ==
    ASSUME AbsentIsNoRow, NEW base \in [Ids -> RowRecord \cup {Absent}], NEW s \in Ids,
           NEW r \in RowRecord \cup {Absent}, Written(base, s, r)
    PROVE  /\ row' \in [Ids -> RowRecord \cup {Absent}] /\ row'[s] = r
           /\ \A t \in Ids \ {s} : row'[t] = base[t]
  BY DEF Written

\* What each call writes.
LEMMA RowSteps ==
    ASSUME AbsentIsNoRow, Typed, NEW c \in Callers
    PROVE  /\ \A s \in Ids : Insert(c, s) =>
                \E r \in RowRecord : r.address = call[c].address /\ r.target = call[c].target
                                    /\ Written(IF call[c].target THEN Cleared ELSE row, s, r)
           /\ \A a \in Addresses : Update(c, a) =>
                \/ call[c].server \notin Existing /\ row' = row
                \/ /\ call[c].server \in Existing
                   /\ \E r \in RowRecord : r.address = a /\ r.target = row[call[c].server].target
                                          /\ Written(row, call[c].server, r)
           /\ SetTarget(c) =>
                \/ call[c].server \notin Existing /\ row' = row
                \/ /\ call[c].server \in Existing
                   /\ \E r \in RowRecord : r.address = row[call[c].server].address /\ r.target
                                          /\ Written(Cleared, call[c].server, r)
           /\ Delete(c) => call[c].server \in Ids /\ Written(row, call[c].server, Absent)
           /\ Commit(c) =>
                \/ call[c].server \notin Existing /\ row' = row
                \/ /\ call[c].server \in Existing
                   /\ \E r \in RowRecord : /\ r.address = row[call[c].server].address
                                          /\ r.target = row[call[c].server].target
                                          /\ Written(row, call[c].server, r)
<1> DEFINE s == call[c].server
<1>a. s \in Existing => s \in Ids /\ row[s] \in RowRecord
  BY DEF Typed, RowType, Existing
<1>b. call[c] \in CallRecord /\ Knows(call[c], used) /\ used \subseteq Ids
  BY DEF Typed, CallType, LibraryType
<1>1. ASSUME NEW t \in Ids, Insert(c, t)
      PROVE  \E r \in RowRecord : r.address = call[c].address /\ r.target = call[c].target
                                 /\ Written(IF call[c].target THEN Cleared ELSE row, t, r)
  <2>1. PICK may \in BOOLEAN :
          Written(IF call[c].target THEN Cleared ELSE row, t, Saved(call[c], may))
    BY <1>1 DEF Insert, Written
  <2>2. call[c].address \in Addresses /\ call[c].target \in BOOLEAN
    BY <1>1, <1>b, CallFields DEF Insert, Knows
  <2>3. Saved(call[c], may) \in RowRecord
        /\ Saved(call[c], may).address = call[c].address
        /\ Saved(call[c], may).target = call[c].target
    BY <2>2 DEF Saved, RowRecord
  <2> QED
    BY <2>1, <2>3
<1>2. ASSUME NEW a \in Addresses, Update(c, a)
      PROVE  \/ s \notin Existing /\ row' = row
             \/ /\ s \in Existing
                /\ \E r \in RowRecord : r.address = a /\ r.target = row[s].target
                                       /\ Written(row, s, r)
  <2>1. s \in Existing => Written(row, s, [row[s] EXCEPT !.address = a])
    BY <1>2 DEF Update, Written
  <2>2. s \notin Existing => row' = row
    BY <1>2 DEF Update
  <2>3. s \in Existing => /\ [row[s] EXCEPT !.address = a] \in RowRecord
                          /\ [row[s] EXCEPT !.address = a].address = a
                          /\ [row[s] EXCEPT !.address = a].target = row[s].target
    BY <1>a DEF RowRecord
  <2> QED
    BY <2>1, <2>2, <2>3
<1>3. ASSUME SetTarget(c)
      PROVE  \/ s \notin Existing /\ row' = row
             \/ /\ s \in Existing
                /\ \E r \in RowRecord : r.address = row[s].address /\ r.target
                                       /\ Written(Cleared, s, r)
  <2>1. s \in Existing => Written(Cleared, s, [Cleared[s] EXCEPT !.target = TRUE])
    BY <1>3 DEF SetTarget, Written
  <2>2. s \notin Existing => row' = row
    BY <1>3 DEF SetTarget
  <2>3. s \in Existing => Cleared[s] \in RowRecord /\ Cleared[s].address = row[s].address
    BY <1>a, ClearedFacts DEF Typed, Existing
  <2>4. s \in Existing => /\ [Cleared[s] EXCEPT !.target = TRUE] \in RowRecord
                          /\ [Cleared[s] EXCEPT !.target = TRUE].address = row[s].address
                          /\ [Cleared[s] EXCEPT !.target = TRUE].target = TRUE
    BY <2>3 DEF RowRecord
  <2> QED
    BY <2>1, <2>2, <2>4
<1>4. ASSUME Delete(c) PROVE s \in Ids /\ Written(row, s, Absent)
  BY <1>4, <1>b DEF Delete, Written, Knows
<1>5. ASSUME Commit(c)
      PROVE  \/ s \notin Existing /\ row' = row
             \/ /\ s \in Existing
                /\ \E r \in RowRecord : r.address = row[s].address /\ r.target = row[s].target
                                       /\ Written(row, s, r)
  <2>1. CASE s \notin Existing
    BY <1>5, <2>1 DEF Commit
  <2>2. CASE s \in Existing
    <3>1. PICK may \in BOOLEAN : Written(row, s, [row[s] EXCEPT !.canUpload = may])
      BY <1>5, <2>2 DEF Commit, Written
    <3>2. /\ [row[s] EXCEPT !.canUpload = may] \in RowRecord
          /\ [row[s] EXCEPT !.canUpload = may].address = row[s].address
          /\ [row[s] EXCEPT !.canUpload = may].target = row[s].target
      BY <1>a, <2>2 DEF RowRecord
    <3> QED
      BY <2>2, <3>1, <3>2
  <2> QED
    BY <2>1, <2>2
<1> QED
  BY <1>1, <1>2, <1>3, <1>4, <1>5

\* Nothing else writes rows.
LEMMA RowsStay ==
    ASSUME [ServersNext]_serverVars
    PROVE  \/ UNCHANGED <<row, used>>
           \/ \E c \in Callers : \/ \E s \in Ids : Insert(c, s)
                                 \/ \E a \in Addresses : Update(c, a)
                                 \/ SetTarget(c) \/ Delete(c) \/ Commit(c)
  BY DEF ServersNext, Step, CreateServer, Test, FindTwin, BeginCall, AskServer, AskFails,
         SetIncluded, Upstream, stored, serverVars

LEMMA RowTypeNext ==
    AbsentIsNoRow /\ Typed /\ [ServersNext]_serverVars => RowType'
<1> SUFFICES ASSUME AbsentIsNoRow, Typed, [ServersNext]_serverVars PROVE RowType'
  OBVIOUS
<1>a. row \in [Ids -> RowRecord \cup {Absent}] /\ Existing \subseteq used
      /\ Cleared \in [Ids -> RowRecord \cup {Absent}]
      /\ \A s \in Ids : Cleared[s] = Absent <=> row[s] = Absent
  BY ClearedFacts DEF Typed, RowType
<1>b. ASSUME NEW base \in {row, Cleared}, NEW s \in Ids, NEW r \in RowRecord \cup {Absent},
             Written(base, s, r), r # Absent => s \in used', used \subseteq used'
      PROVE  RowType'
  <2>1. /\ row' \in [Ids -> RowRecord \cup {Absent}] /\ row'[s] = r
        /\ \A t \in Ids \ {s} : row'[t] = base[t]
    BY <1>a, <1>b, WrittenFacts
  <2>2. ASSUME NEW t \in Ids, row'[t] # Absent PROVE t \in used'
    <3>1. CASE t = s
      BY <1>b, <2>1, <2>2, <3>1
    <3>2. CASE t # s
      BY <1>a, <1>b, <2>1, <2>2, <3>2 DEF Existing
    <3> QED
      BY <3>1, <3>2
  <2> QED
    BY <2>1, <2>2 DEF RowType, Existing
<1>1. ASSUME NEW c \in Callers, NEW s \in Ids, Insert(c, s) PROVE RowType'
  <2>1. used' = used \cup {s}
    BY <1>1 DEF Insert
  <2> QED
    BY <1>1, <1>b, <2>1, RowSteps
<1>2. ASSUME NEW c \in Callers,
             (\E a \in Addresses : Update(c, a)) \/ SetTarget(c) \/ Delete(c) \/ Commit(c)
      PROVE  RowType'
  <2>1. used' = used
    BY <1>2 DEF Update, SetTarget, Delete, Commit
  <2>2. CASE row' = row
    BY <1>a, <2>1, <2>2 DEF RowType, Existing
  <2>3. ASSUME NEW base \in {row, Cleared}, NEW r \in RowRecord, call[c].server \in Existing,
               Written(base, call[c].server, r)
        PROVE  RowType'
    BY <1>a, <1>b, <2>1, <2>3 DEF Existing
  <2>4. CASE Delete(c)
    BY <1>b, <2>1, <2>4, RowSteps
  <2> QED
    BY <1>2, <2>2, <2>3, <2>4, RowSteps
<1>3. CASE UNCHANGED <<row, used>>
  BY <1>a, <1>3 DEF RowType, Existing
<1> QED
  BY <1>1, <1>2, <1>3, RowsStay

LEMMA LibraryTypeNext ==
    Typed /\ [ServersNext]_serverVars => LibraryType'
<1> SUFFICES ASSUME Typed, [ServersNext]_serverVars PROVE LibraryType'
  OBVIOUS
<1> USE DEF Typed
<1>1. ASSUME NEW c \in Callers, NEW s \in Ids, Insert(c, s) PROVE LibraryType'
  BY <1>1 DEF Insert, LibraryType
<1>2. ASSUME NEW c \in Callers, Delete(c) PROVE LibraryType'
  BY <1>2 DEF Delete, LibraryType, NoLibraries
<1>3. ASSUME NEW c \in Callers, Commit(c) PROVE LibraryType'
  <2>1. CASE UNCHANGED library
    BY <1>3, <2>1 DEF Commit, LibraryType
  <2>2. CASE /\ call[c].server \in Existing
             /\ library' = [library EXCEPT ![call[c].server] =
                              Reconciled(library[call[c].server], call[c].listing)]
    <3>1. library[call[c].server] \in [Libraries -> {"none", "in", "out"}]
      BY <2>2 DEF LibraryType, Existing
    <3>2. Reconciled(library[call[c].server], call[c].listing)
            \in [Libraries -> {"none", "in", "out"}]
      BY <3>1 DEF Reconciled
    <3> QED
      BY <1>3, <2>2, <3>2 DEF Commit, LibraryType
  <2> QED
    BY <1>3, <2>1, <2>2 DEF Commit
<1>4. ASSUME NEW s \in Ids, NEW l \in Libraries, SetIncluded(s, l) PROVE LibraryType'
  BY <1>4 DEF SetIncluded, LibraryType
<1>5. ASSUME NEW a \in Addresses, NEW l \in Libraries, Upstream(a, l) PROVE LibraryType'
  BY <1>5 DEF Upstream, LibraryType
<1>6. CASE UNCHANGED <<used, library, upstream>>
  BY <1>6 DEF LibraryType
<1> QED
  BY <1>1, <1>2, <1>3, <1>4, <1>5, <1>6
     DEF ServersNext, Step, CreateServer, Test, FindTwin, BeginCall, Update, SetTarget, AskServer,
         AskFails, stored, serverVars

LEMMA CallTypeNext ==
    Typed /\ [ServersNext]_serverVars => CallType'
<1> SUFFICES ASSUME Typed, [ServersNext]_serverVars PROVE CallType'
  OBVIOUS
<1> USE DEF Typed
<1>a. ASSUME NEW c \in Callers PROVE call[c] \in CallRecord /\ Knows(call[c], used)
  BY DEF CallType
<1>1. ASSUME NEW c \in Callers, NEW a \in Addresses, NEW b \in BOOLEAN, CreateServer(c, a, b)
      PROVE  CallType'
  <2> DEFINE k == [IdleCall EXCEPT !.pc = "test", !.address = a, !.target = b]
  <2>1. k \in CallRecord /\ Knows(k, used')
    BY DEF IdleCall, CallRecord, Calls, Knows
  <2> QED
    BY <1>1, <2>1, CallMoved DEF CreateServer, stored
<1>2. ASSUME NEW c \in Callers, NEW s \in Ids,
             NEW pc \in {"update", "target", "delete", "ask"}, BeginCall(c, s, pc)
      PROVE  CallType'
  <2> DEFINE k == [IdleCall EXCEPT !.pc = pc, !.server = s,
                                   !.address = IF pc = "ask" THEN row[s].address ELSE Absent]
  <2>1. row[s].address \in Addresses /\ s \in used'
    BY <1>2 DEF BeginCall, stored, RowType, Existing, RowRecord
  <2>2. k \in CallRecord /\ Knows(k, used')
    BY <2>1 DEF IdleCall, CallRecord, Calls, Knows
  <2> QED
    BY <1>2, <2>2, CallMoved DEF BeginCall, stored
<1>3. ASSUME NEW c \in Callers, Return(c), used \subseteq used' PROVE CallType'
  BY <1>3, CallMoved, IdleCallFacts DEF Return
<1>4. ASSUME NEW c \in Callers, Test(c) \/ FindTwin(c) \/ AskServer(c) PROVE CallType'
  <2>1. ASSUME NEW pc \in {"find", "insert", "commit"}, NEW k \in CallRecord,
               k.pc = pc, k.address = call[c].address, k.server = call[c].server,
               CallBecomes(c, k),
               pc = "commit" => call[c].server \in used,
               pc = "insert" \/ pc = "find" => call[c].address \in Addresses,
               UNCHANGED used
        PROVE  CallType'
    BY <2>1, CallMoved DEF Knows
  <2>2. ASSUME NEW pc \in {"find", "insert", "commit"}, NEW L \in SUBSET Libraries
        PROVE  /\ [call[c] EXCEPT !.pc = pc, !.listing = L] \in CallRecord
               /\ [call[c] EXCEPT !.pc = pc, !.listing = L].pc = pc
               /\ [call[c] EXCEPT !.pc = pc, !.listing = L].server = call[c].server
               /\ [call[c] EXCEPT !.pc = pc, !.listing = L].address = call[c].address
               /\ [call[c] EXCEPT !.pc = pc] \in CallRecord
               /\ [call[c] EXCEPT !.pc = pc].pc = pc
               /\ [call[c] EXCEPT !.pc = pc].server = call[c].server
               /\ [call[c] EXCEPT !.pc = pc].address = call[c].address
    BY <1>a DEF CallRecord, Calls
  <2>3. upstream \in [Addresses -> SUBSET Libraries]
    BY DEF LibraryType
  <2>4. CASE Test(c)
    <3>1. call[c].address \in Addresses /\ used' = used
      BY <1>a, <2>4 DEF Test, stored, Knows
    <3>2. Return(c) \/ CallBecomes(c, [call[c] EXCEPT !.pc = "find",
                                                 !.listing = upstream[call[c].address]])
      BY <2>4 DEF Test
    <3> DEFINE k == [call[c] EXCEPT !.pc = "find", !.listing = upstream[call[c].address]]
    <3>3. k \in CallRecord /\ k.pc = "find" /\ k.server = call[c].server
          /\ k.address = call[c].address
      BY <2>2, <2>3, <3>1
    <3>4. CASE CallBecomes(c, k)
      <4> HIDE DEF k
      <4> QED
        BY <2>1, <3>1, <3>3, <3>4
    <3> QED
      BY <1>3, <3>1, <3>2, <3>4
  <2>5. CASE FindTwin(c)
    <3>1. call[c].address \in Addresses /\ used' = used
      BY <1>a, <2>5 DEF FindTwin, stored, Knows
    <3>2. Return(c) \/ CallBecomes(c, [call[c] EXCEPT !.pc = "insert"])
      BY <2>5 DEF FindTwin
    <3> QED
      BY <1>3, <2>1, <2>2, <3>1, <3>2
  <2>6. CASE AskServer(c)
    <3>1. call[c].address \in Addresses /\ call[c].server \in used /\ used' = used
      BY <1>a, <2>6 DEF AskServer, stored, Knows
    <3>2. CallBecomes(c, [call[c] EXCEPT !.pc = "commit", !.listing = upstream[call[c].address]])
      BY <2>6 DEF AskServer
    <3> DEFINE k == [call[c] EXCEPT !.pc = "commit", !.listing = upstream[call[c].address]]
    <3>3. k \in CallRecord /\ k.pc = "commit" /\ k.server = call[c].server
          /\ k.address = call[c].address /\ CallBecomes(c, k)
      BY <2>2, <2>3, <3>1, <3>2
    <3> HIDE DEF k
    <3> QED
      BY <2>1, <3>1, <3>3
  <2> QED
    BY <1>4, <2>4, <2>5, <2>6
<1>5. ASSUME NEW c \in Callers, NEW a \in Addresses, Update(c, a) PROVE CallType'
  <2>1. CASE Return(c)
    BY <1>3, <1>5, <2>1 DEF Update
  <2>2. CASE CallBecomes(c, [call[c] EXCEPT !.pc = "ask", !.address = a])
    <3> DEFINE k == [call[c] EXCEPT !.pc = "ask", !.address = a]
    <3>1. k \in CallRecord /\ k.pc = "ask" /\ k.address = a /\ k.server = call[c].server
      BY <1>a DEF CallRecord, Calls
    <3>2. call[c].server \in used /\ used' = used
      BY <1>a, <1>5 DEF Update, Knows
    <3>3. CallBecomes(c, k)
      BY <2>2
    <3> HIDE DEF k
    <3> QED
      BY <3>1, <3>2, <3>3, CallMoved DEF Knows
  <2> QED
    BY <1>5, <2>1, <2>2 DEF Update
<1>6. ASSUME NEW c \in Callers,
             (\E s \in Ids : Insert(c, s)) \/ SetTarget(c) \/ Delete(c)
               \/ Commit(c) \/ AskFails(c)
      PROVE  CallType'
  BY <1>3, <1>6 DEF Insert, SetTarget, Delete, Commit, AskFails, stored
<1>7. CASE UNCHANGED <<call, used>>
  BY <1>7 DEF CallType, Knows
<1> QED
  BY <1>1, <1>2, <1>4, <1>5, <1>6, <1>7 DEF ServersNext, Step, SetIncluded, Upstream, serverVars
-----------------------------------------------------------------------------
(***************************************************************************)
(* One target.                                                             *)
(***************************************************************************)
TargetKept ==
    Targets # {} /\ Targets \subseteq {s \in Ids : row'[s] # Absent} => Targets' # {}

\* A row is written as the target it was, or all are cleared and it becomes the target.
LEMMA TargetWritten ==
    ASSUME AbsentIsNoRow, RowType, SingleTarget, NEW s \in Ids, NEW r \in RowRecord \cup {Absent},
           \/ Written(row, s, r) /\ (r # Absent => (r.target <=> s \in Targets))
           \/ Written(Cleared, s, r) /\ r # Absent /\ r.target
    PROVE  SingleTarget' /\ TargetKept
<1>1. CASE Written(row, s, r) /\ (r # Absent => (r.target <=> s \in Targets))
  <2>1. row'[s] = r /\ \A t \in Ids \ {s} : row'[t] = row[t]
    BY <1>1, WrittenFacts DEF RowType
  <2>2. \A t \in Ids : t \in Targets' => t \in Targets
    BY <1>1, <2>1 DEF Targets, Existing
  <2>3. \A t \in Ids : t \in Targets /\ row'[t] # Absent => t \in Targets'
    BY <1>1, <2>1 DEF Targets, Existing
  <2>4. Targets \subseteq Ids /\ Targets' \subseteq Ids
    BY DEF Targets, Existing
  <2> QED
    BY <2>2, <2>3, <2>4 DEF SingleTarget, TargetKept
<1>2. CASE Written(Cleared, s, r) /\ r # Absent /\ r.target
  <2>1. row'[s] = r /\ \A t \in Ids \ {s} : row'[t] = Cleared[t]
    BY <1>2, WrittenFacts, ClearedFacts
  <2>2. \A t \in Ids \ {s} : t \notin Targets'
    BY <2>1, ClearedFacts DEF Targets, Existing
  <2>3. s \in Targets'
    BY <1>2, <2>1 DEF Targets, Existing
  <2>4. Targets' \subseteq Ids
    BY DEF Targets, Existing
  <2> QED
    BY <2>2, <2>3, <2>4 DEF SingleTarget, TargetKept
<1> QED
  BY <1>1, <1>2

LEMMA TargetNext ==
    AbsentIsNoRow /\ Typed /\ SingleTarget /\ [ServersNext]_serverVars
        => SingleTarget' /\ TargetKept
<1> SUFFICES ASSUME AbsentIsNoRow, Typed, SingleTarget, [ServersNext]_serverVars
             PROVE  SingleTarget' /\ TargetKept
  OBVIOUS
<1>a. RowType /\ \A t \in Existing : t \in Ids /\ (t \in Targets <=> row[t].target)
  BY DEF Typed, Existing, Targets
<1>1. CASE UNCHANGED row
  BY <1>1 DEF SingleTarget, TargetKept, Targets, Existing
<1>2. ASSUME NEW c \in Callers, NEW s \in Ids, Insert(c, s)
      PROVE  SingleTarget' /\ TargetKept
  <2>1. s \notin Targets
    BY <1>2 DEF Insert, Typed, RowType, Targets
  <2>2. PICK r \in RowRecord : r.target = call[c].target
                             /\ Written(IF call[c].target THEN Cleared ELSE row, s, r)
    BY <1>2, RowSteps
  <2>3. CASE call[c].target
    BY <1>a, <2>2, <2>3, TargetWritten, RowFacts
  <2>4. CASE ~call[c].target
    BY <1>a, <2>1, <2>2, <2>4, TargetWritten, RowFacts
  <2> QED
    BY <2>3, <2>4
<1>3. ASSUME NEW c \in Callers, (\E a \in Addresses : Update(c, a)) \/ Commit(c)
      PROVE  SingleTarget' /\ TargetKept
  <2>1. CASE call[c].server \in Existing
    <3>1. PICK r \in RowRecord : r.target = row[call[c].server].target
                               /\ Written(row, call[c].server, r)
      BY <1>3, <2>1, RowSteps
    <3> QED
      BY <1>a, <2>1, <3>1, TargetWritten
  <2>2. CASE call[c].server \notin Existing
    BY <1>1, <1>3, <2>2, RowSteps
  <2> QED
    BY <2>1, <2>2
<1>4. ASSUME NEW c \in Callers, SetTarget(c) PROVE SingleTarget' /\ TargetKept
  <2>1. CASE call[c].server \in Existing
    <3>1. PICK r \in RowRecord : r.target /\ Written(Cleared, call[c].server, r)
      BY <1>4, <2>1, RowSteps
    <3> QED
      BY <1>a, <2>1, <3>1, TargetWritten, RowFacts
  <2>2. CASE call[c].server \notin Existing
    BY <1>1, <1>4, <2>2, RowSteps
  <2> QED
    BY <2>1, <2>2
<1>5. ASSUME NEW c \in Callers, Delete(c) PROVE SingleTarget' /\ TargetKept
  BY <1>a, <1>5, RowSteps, TargetWritten
<1> QED
  BY <1>1, <1>2, <1>3, <1>4, <1>5, RowsStay

LEMMA OneOrNone == SingleTarget => Cardinality(Targets) <= 1
<1>1. CASE Targets = {}
  BY <1>1, FS_EmptySet
<1>2. ASSUME NEW s \in Targets, SingleTarget PROVE Cardinality(Targets) <= 1
  <2>1. Targets = {s}
    BY <1>2 DEF SingleTarget
  <2> QED
    BY <2>1, FS_Singleton
<1> QED
  BY <1>1, <1>2

LEMMA TypedNext == AbsentIsNoRow /\ Typed /\ [ServersNext]_serverVars => Typed'
  BY RowTypeNext, LibraryTypeNext, CallTypeNext DEF Typed

\* What is steady is libraries of servers, and the changes are within their bound.
SteadyType == changes \in 0..MaxUpstream /\ steady \in SUBSET (Ids \X Libraries)

LEMMA SteadyTypeNext ==
    Typed /\ SteadyType /\ [ServersNext]_serverVars => SteadyType'
<1> SUFFICES ASSUME Typed, SteadyType, [ServersNext]_serverVars PROVE SteadyType'
  OBVIOUS
<1>a. \A n \in 0..MaxUpstream : n < MaxUpstream => n + 1 \in 0..MaxUpstream
  BY ServersAssumption
<1>1. ASSUME NEW c \in Callers, NEW s \in Ids, Insert(c, s) PROVE SteadyType'
  <2>1. call[c].address \in Addresses
    BY <1>1 DEF Insert, Typed, CallType, Knows
  <2>2. upstream[call[c].address] \subseteq Libraries
    BY <2>1 DEF Typed, LibraryType
  <2>3. steady' = steady \cup ({s} \X upstream[call[c].address]) /\ changes' = changes
    BY <1>1 DEF Insert
  <2> QED
    BY <2>2, <2>3 DEF SteadyType
<1>2. ASSUME NEW c \in Callers, NEW a \in Addresses, Update(c, a) PROVE SteadyType'
  <2>1. steady' \subseteq steady /\ changes < MaxUpstream /\ changes' = changes + 1
    BY <1>2 DEF Update
  <2> QED
    BY <1>a, <2>1 DEF SteadyType
<1>3. ASSUME NEW a \in Addresses, NEW l \in Libraries, Upstream(a, l) PROVE SteadyType'
  <2>1. steady' \subseteq steady /\ changes < MaxUpstream /\ changes' = changes + 1
    BY <1>3 DEF Upstream
  <2> QED
    BY <1>a, <2>1 DEF SteadyType
<1>4. CASE UNCHANGED <<changes, steady>>
  BY <1>4 DEF SteadyType
<1> QED
  BY <1>1, <1>2, <1>3, <1>4
     DEF ServersNext, Step, CreateServer, Test, FindTwin, BeginCall, SetTarget, Delete, AskServer,
         AskFails, Commit, SetIncluded, stored, serverVars

\* Every state of the servers is well typed, and every server there is has an id that was
\* given out (createServer and the rows of Server and Library).
THEOREM ServersTypesHold == ServersSpec => []ServersTypeOK
<1> AbsentIsNoRow
  BY ServersAssumption DEF AbsentIsNoRow, RowRecord
<1>1. ServersInit => SteadyType
  BY ServersAssumption DEF ServersInit, SteadyType
<1>2. Typed /\ SteadyType /\ [ServersNext]_serverVars => Typed' /\ SteadyType'
  BY TypedNext, SteadyTypeNext
<1>3. Typed /\ SteadyType => ServersTypeOK
  BY DEF Typed, RowType, LibraryType, CallType, SteadyType, ServersTypeOK, RowRecord, CallRecord
<1> QED
  BY <1>1, <1>2, <1>3, TypedInit, PTL DEF ServersSpec

\* Books go to one server, whichever of any number of calls interleave: there are never two
\* targets, and the target is given up for another or with its own row only.
THEOREM OneTargetAlways == ServersSpec => OneTarget
<1> AbsentIsNoRow
  BY ServersAssumption DEF AbsentIsNoRow, RowRecord
<1>1. ServersInit => SingleTarget
  BY DEF ServersInit, SingleTarget, Targets, Existing
<1>2. Typed /\ SingleTarget /\ [ServersNext]_serverVars => Typed' /\ SingleTarget'
  BY TypedNext, TargetNext
<1>3. Typed /\ SingleTarget /\ [ServersNext]_serverVars
        => [Targets # {} /\ Targets \subseteq {s \in Ids : row'[s] # Absent}
              => Targets' # {}]_serverVars
  BY TargetNext DEF TargetKept
<1> QED
  BY <1>1, <1>2, <1>3, TypedInit, OneOrNone, PTL DEF ServersSpec, OneTarget
-----------------------------------------------------------------------------
(***************************************************************************)
(* Libraries.                                                              *)
(***************************************************************************)
\* A server keeps its place: it is there as before, at the same address.
SamePlace(s) ==
    /\ row'[s] = Absent <=> row[s] = Absent
    /\ row[s] # Absent => row'[s].address = row[s].address

LEMMA WrittenPlaces ==
    ASSUME AbsentIsNoRow, RowType, NEW base \in {row, Cleared}, NEW s \in Ids,
           NEW r \in RowRecord \cup {Absent}, Written(base, s, r)
    PROVE  row'[s] = r /\ \A t \in Ids \ {s} : SamePlace(t)
<1>1. base \in [Ids -> RowRecord \cup {Absent}]
  BY ClearedFacts DEF RowType
<1>2. row'[s] = r /\ \A t \in Ids \ {s} : row'[t] = base[t]
  BY <1>1, WrittenFacts
<1> QED
  BY <1>2, ClearedFacts DEF SamePlace

\* Which servers keep their place in a step.
LEMMA Places ==
    ASSUME AbsentIsNoRow, Typed, NEW c \in Callers
    PROVE  /\ \A s \in Ids : Insert(c, s) =>
                /\ row'[s] # Absent /\ row'[s].address = call[c].address
                /\ \A t \in Ids \ {s} : SamePlace(t)
           /\ \A a \in Addresses : Update(c, a) =>
                \A t \in Ids \ {call[c].server} : SamePlace(t)
           /\ SetTarget(c) \/ Commit(c) => \A t \in Ids : SamePlace(t)
           /\ Delete(c) => /\ row'[call[c].server] = Absent
                           /\ \A t \in Ids \ {call[c].server} : SamePlace(t)
<1>a. RowType /\ \A t \in Existing : t \in Ids /\ row[t] # Absent
  BY DEF Typed, Existing
<1>b. row' = row => \A t \in Ids : SamePlace(t)
  BY DEF SamePlace
<1>1. ASSUME NEW s \in Ids, Insert(c, s)
      PROVE  /\ row'[s] # Absent /\ row'[s].address = call[c].address
             /\ \A t \in Ids \ {s} : SamePlace(t)
  <2>1. PICK r \in RowRecord : r.address = call[c].address
                             /\ Written(IF call[c].target THEN Cleared ELSE row, s, r)
    BY <1>1, RowSteps
  <2>2. row'[s] = r /\ \A t \in Ids \ {s} : SamePlace(t)
    <3>1. CASE call[c].target
      BY <1>a, <2>1, <3>1, WrittenPlaces
    <3>2. CASE ~call[c].target
      BY <1>a, <2>1, <3>2, WrittenPlaces
    <3> QED
      BY <3>1, <3>2
  <2> QED
    BY <2>1, <2>2, RowFacts
<1>2. ASSUME NEW a \in Addresses, Update(c, a)
      PROVE  \A t \in Ids \ {call[c].server} : SamePlace(t)
  <2>1. CASE call[c].server \in Existing
    <3>1. PICK r \in RowRecord : Written(row, call[c].server, r)
      BY <1>2, <2>1, RowSteps
    <3> QED
      BY <1>a, <2>1, <3>1, WrittenPlaces
  <2> QED
    BY <1>2, <1>b, <2>1, RowSteps
<1>3. ASSUME SetTarget(c) \/ Commit(c) PROVE \A t \in Ids : SamePlace(t)
  <2>1. CASE call[c].server \in Existing
    <3>1. PICK base \in {row, Cleared}, r \in RowRecord :
            r.address = row[call[c].server].address /\ Written(base, call[c].server, r)
      BY <1>3, <2>1, RowSteps
    <3>2. row'[call[c].server] = r /\ \A t \in Ids \ {call[c].server} : SamePlace(t)
      BY <1>a, <2>1, <3>1, WrittenPlaces
    <3>3. SamePlace(call[c].server)
      BY <1>a, <2>1, <3>1, <3>2, RowFacts DEF SamePlace
    <3> QED
      BY <3>2, <3>3
  <2> QED
    BY <1>3, <1>b, <2>1, RowSteps
<1>4. ASSUME Delete(c)
      PROVE  /\ row'[call[c].server] = Absent
             /\ \A t \in Ids \ {call[c].server} : SamePlace(t)
  BY <1>4, <1>a, RowSteps, WrittenPlaces
<1> QED
  BY <1>1, <1>2, <1>3, <1>4

LEMMA OrphansNext ==
    AbsentIsNoRow /\ Typed /\ NoOrphans /\ [ServersNext]_serverVars => NoOrphans'
<1> SUFFICES ASSUME AbsentIsNoRow, Typed, NoOrphans, [ServersNext]_serverVars,
                    NEW t \in Ids, row'[t] = Absent
             PROVE  library'[t] = NoLibraries
  BY DEF NoOrphans, Existing, NoLibraries
<1>a. library \in [Ids -> [Libraries -> {"none", "in", "out"}]]
      /\ (row[t] = Absent => library[t] = NoLibraries)
  BY DEF Typed, LibraryType, NoOrphans, Existing
<1>1. ASSUME NEW c \in Callers, NEW s \in Ids, Insert(c, s) PROVE library'[t] = NoLibraries
  <2>1. t # s /\ row[t] = Absent
    BY <1>1, Places DEF SamePlace
  <2> QED
    BY <1>1, <1>a, <2>1 DEF Insert
<1>2. ASSUME NEW c \in Callers, NEW a \in Addresses, Update(c, a)
      PROVE  library'[t] = NoLibraries
  <2>1. row[t] = Absent
    <3>1. CASE t = call[c].server /\ row[t] # Absent
      <4>1. t \in Existing
        BY <3>1 DEF Existing
      <4>2. PICK r \in RowRecord : Written(row, t, r)
        BY <1>2, <3>1, <4>1, RowSteps
      <4>3. row'[t] = r
        BY <4>2, WrittenPlaces DEF Typed
      <4> QED
        BY <4>3, RowFacts
    <3> QED
      BY <1>2, <3>1, Places DEF SamePlace
  <2> QED
    BY <1>2, <1>a, <2>1 DEF Update
<1>3. ASSUME NEW c \in Callers, SetTarget(c) PROVE library'[t] = NoLibraries
  BY <1>3, <1>a, Places DEF SetTarget, SamePlace
<1>4. ASSUME NEW c \in Callers, Delete(c) PROVE library'[t] = NoLibraries
  <2>1. library' = [library EXCEPT ![call[c].server] = NoLibraries]
    BY <1>4 DEF Delete
  <2> QED
    BY <1>4, <1>a, <2>1, Places DEF SamePlace
\* A listing that arrives when its server is gone is not written.
<1>5. ASSUME NEW c \in Callers, Commit(c) PROVE library'[t] = NoLibraries
  <2>1. row[t] = Absent
    BY <1>5, Places DEF SamePlace
  <2>2. t \notin Existing
    BY <2>1 DEF Existing
  <2>3. library'[t] = library[t]
    BY <1>5, <1>a, <2>2 DEF Commit
  <2> QED
    BY <1>a, <2>1, <2>3
<1>6. ASSUME NEW s \in Ids, NEW l \in Libraries, SetIncluded(s, l)
      PROVE  library'[t] = NoLibraries
  <2>1. row[t] = Absent
    BY <1>6 DEF SetIncluded
  <2>2. s # t
    BY <1>6, <1>a, <2>1 DEF SetIncluded, NoLibraries
  <2> QED
    BY <1>6, <1>a, <2>1, <2>2 DEF SetIncluded
<1>7. CASE UNCHANGED <<row, library>>
  BY <1>7, <1>a
<1> QED
  BY <1>1, <1>2, <1>3, <1>4, <1>5, <1>6, <1>7
     DEF ServersNext, Step, CreateServer, Test, FindTwin, BeginCall, AskServer, AskFails, Upstream,
         stored, serverVars

\* A call moves, or none does; what it knows still fits a server that keeps its place.
LEMMA CallFits ==
    ASSUME CallType, NEW s \in Ids, NEW l, SamePlace(s), row[s] # Absent,
           \A d \in Callers : Fits(call[d], s, l, row[s]),
           \/ UNCHANGED call
           \/ \E c \in Callers, k \in CallRecord : CallBecomes(c, k) /\ Fits(k, s, l, row[s])
    PROVE  \A d \in Callers : Fits(call'[d], s, l, row'[s])
<1>1. \A d \in Callers : Fits(call'[d], s, l, row[s])
  <2>1. CASE UNCHANGED call
    BY <2>1
  <2>2. ASSUME NEW c \in Callers, NEW k \in CallRecord, CallBecomes(c, k), Fits(k, s, l, row[s])
        PROVE  \A d \in Callers : Fits(call'[d], s, l, row[s])
    <3>1. call'[c] = k /\ \A d \in Callers \ {c} : call'[d] = call[d]
      BY <2>2 DEF CallBecomes, CallType
    <3> QED
      BY <2>2, <3>1
  <2> QED
    BY <2>1, <2>2
<1> QED
  BY <1>1 DEF SamePlace, Fits

\* What a call is about to hear or write after a step that leaves the libraries' servers in
\* their places.
LEMMA HeardSteps ==
    ASSUME AbsentIsNoRow, Typed, NEW c \in Callers, NEW s \in Ids, NEW l \in Libraries,
           row[s] # Absent, l \in upstream[row[s].address], Fits(call[c], s, l, row[s])
    PROVE  /\ Return(c) => \E k \in CallRecord : CallBecomes(c, k) /\ Fits(k, s, l, row[s])
           /\ \A a \in Addresses, b \in BOOLEAN : CreateServer(c, a, b) =>
                \E k \in CallRecord : CallBecomes(c, k) /\ Fits(k, s, l, row[s])
           /\ \A t \in Ids, pc \in {"update", "target", "delete", "ask"} : BeginCall(c, t, pc) =>
                \E k \in CallRecord : CallBecomes(c, k) /\ Fits(k, s, l, row[s])
           /\ Test(c) \/ FindTwin(c) \/ AskServer(c) =>
                \E k \in CallRecord : CallBecomes(c, k) /\ Fits(k, s, l, row[s])
           /\ \A a \in Addresses : Update(c, a) /\ s # call[c].server =>
                \E k \in CallRecord : CallBecomes(c, k) /\ Fits(k, s, l, row[s])
<1>a. call[c] \in CallRecord /\ Knows(call[c], used) /\ upstream \in [Addresses -> SUBSET Libraries]
  BY DEF Typed, CallType, LibraryType
<1>1. Return(c) => \E k \in CallRecord : CallBecomes(c, k) /\ Fits(k, s, l, row[s])
  <2>1. IdleCall.pc = "idle"
    BY DEF IdleCall
  <2>2. Fits(IdleCall, s, l, row[s])
    BY <2>1 DEF Fits
  <2> QED
    BY <2>2, IdleCallFacts DEF Return
<1>2. ASSUME NEW a \in Addresses, NEW b \in BOOLEAN, CreateServer(c, a, b)
      PROVE  \E k \in CallRecord : CallBecomes(c, k) /\ Fits(k, s, l, row[s])
  <2> DEFINE k == [IdleCall EXCEPT !.pc = "test", !.address = a, !.target = b]
  <2>1. k \in CallRecord /\ k.pc = "test" /\ CallBecomes(c, k)
    BY <1>2 DEF CreateServer, IdleCall, CallRecord, Calls
  <2> HIDE DEF k
  <2>2. Fits(k, s, l, row[s])
    BY <2>1 DEF Fits
  <2> QED
    BY <2>1, <2>2
<1>3. ASSUME NEW t \in Ids, NEW pc \in {"update", "target", "delete", "ask"}, BeginCall(c, t, pc)
      PROVE  \E k \in CallRecord : CallBecomes(c, k) /\ Fits(k, s, l, row[s])
  <2> DEFINE k == [IdleCall EXCEPT !.pc = pc, !.server = t,
                                   !.address = IF pc = "ask" THEN row[t].address ELSE Absent]
  <2>1. row[t].address \in Addresses
    BY <1>3 DEF BeginCall, Typed, RowType, Existing, RowRecord
  <2>2. /\ k \in CallRecord /\ k.pc = pc /\ k.server = t
        /\ k.address = IF pc = "ask" THEN row[t].address ELSE Absent
    BY <2>1 DEF IdleCall, CallRecord, Calls
  <2>3. CallBecomes(c, k)
    BY <1>3 DEF BeginCall
  <2> HIDE DEF k
  <2>4. Fits(k, s, l, row[s])
    BY <2>2 DEF Fits
  <2> QED
    BY <2>2, <2>3, <2>4
<1>4. ASSUME Test(c) PROVE \E k \in CallRecord : CallBecomes(c, k) /\ Fits(k, s, l, row[s])
  <2> DEFINE k == [call[c] EXCEPT !.pc = "find", !.listing = upstream[call[c].address]]
  <2>1. Return(c) \/ CallBecomes(c, k)
    BY <1>4 DEF Test
  <2>2. upstream[call[c].address] \in SUBSET Libraries
    BY <1>4, <1>a DEF Test, Knows
  <2>3. k \in CallRecord /\ k.pc = "find"
    BY <1>a, <2>2 DEF CallRecord, Calls
  <2> HIDE DEF k
  <2>4. Fits(k, s, l, row[s])
    BY <2>3 DEF Fits
  <2> QED
    BY <1>1, <2>1, <2>3, <2>4
<1>5. ASSUME FindTwin(c) PROVE \E k \in CallRecord : CallBecomes(c, k) /\ Fits(k, s, l, row[s])
  <2> DEFINE k == [call[c] EXCEPT !.pc = "insert"]
  <2>1. Return(c) \/ CallBecomes(c, k)
    BY <1>5 DEF FindTwin
  <2>2. k \in CallRecord /\ k.pc = "insert"
    BY <1>a DEF CallRecord, Calls
  <2> HIDE DEF k
  <2>3. Fits(k, s, l, row[s])
    BY <2>2 DEF Fits
  <2> QED
    BY <1>1, <2>1, <2>2, <2>3
\* It asks where the server is, so that it hears what is listed there.
<1>6. ASSUME AskServer(c) PROVE \E k \in CallRecord : CallBecomes(c, k) /\ Fits(k, s, l, row[s])
  <2> DEFINE k == [call[c] EXCEPT !.pc = "commit", !.listing = upstream[call[c].address]]
  <2>1. CallBecomes(c, k) /\ call[c].pc = "ask"
    BY <1>6 DEF AskServer
  <2>2. upstream[call[c].address] \in SUBSET Libraries
    BY <1>a, <2>1 DEF Knows
  <2>3. /\ k \in CallRecord /\ k.pc = "commit" /\ k.server = call[c].server
        /\ k.listing = upstream[call[c].address]
    BY <1>a, <2>2 DEF CallRecord, Calls
  <2> HIDE DEF k
  <2>4. Fits(k, s, l, row[s])
    BY <2>1, <2>3 DEF Fits
  <2> QED
    BY <2>1, <2>3, <2>4
<1>7. ASSUME NEW a \in Addresses, Update(c, a), s # call[c].server
      PROVE  \E k \in CallRecord : CallBecomes(c, k) /\ Fits(k, s, l, row[s])
  <2> DEFINE k == [call[c] EXCEPT !.pc = "ask", !.address = a]
  <2>1. Return(c) \/ CallBecomes(c, k)
    BY <1>7 DEF Update
  <2>2. k \in CallRecord /\ k.server = call[c].server
    BY <1>a DEF CallRecord, Calls
  <2> HIDE DEF k
  <2>3. Fits(k, s, l, row[s])
    BY <1>7, <2>2 DEF Fits
  <2> QED
    BY <1>1, <2>1, <2>2, <2>3
<1> QED
  BY <1>1, <1>2, <1>3, <1>4, <1>5, <1>6, <1>7

SteadyAfter(s, l) ==
    /\ s \in used'
    /\ row'[s] # Absent => /\ l \in upstream'[row'[s].address]
                        /\ \A d \in Callers : Fits(call'[d], s, l, row'[s])

LEMMA SteadyNext ==
    AbsentIsNoRow /\ Typed /\ SteadyListed /\ [ServersNext]_serverVars => SteadyListed'
<1> SUFFICES ASSUME AbsentIsNoRow, Typed, SteadyListed, [ServersNext]_serverVars,
                    NEW s \in Ids, NEW l \in Libraries, <<s, l>> \in steady'
             PROVE  SteadyAfter(s, l)
  BY DEF SteadyListed, SteadyAfter, Existing, Fits
<1>a. CallType /\ RowType /\ used \subseteq Ids
  BY DEF Typed, LibraryType
<1>b. <<s, l>> \in steady =>
        /\ s \in used
        /\ row[s] # Absent => /\ l \in upstream[row[s].address]
                           /\ \A d \in Callers : Fits(call[d], s, l, row[s])
  BY DEF SteadyListed, Existing
\* As long as the server keeps its place and a call that moves fits.
<1>c. ASSUME <<s, l>> \in steady, UNCHANGED <<used, upstream>>,
             SamePlace(s),
             row[s] # Absent =>
               \/ UNCHANGED call
               \/ \E c \in Callers, k \in CallRecord : CallBecomes(c, k) /\ Fits(k, s, l, row[s])
      PROVE  SteadyAfter(s, l)
  <2>1. CASE row[s] # Absent
    <3>1. \A d \in Callers : Fits(call'[d], s, l, row'[s])
      BY <1>a, <1>b, <1>c, <2>1, CallFits
    <3> QED
      BY <1>b, <1>c, <2>1, <3>1 DEF SamePlace, SteadyAfter
  <2> QED
    BY <1>b, <1>c, <2>1 DEF SamePlace, SteadyAfter
<1>d. row' = row => SamePlace(s)
  BY DEF SamePlace
<1>e. ASSUME NEW c \in Callers, <<s, l>> \in steady, row[s] # Absent
      PROVE  l \in upstream[row[s].address] /\ Fits(call[c], s, l, row[s])
  BY <1>b, <1>e
<1>1. ASSUME NEW c \in Callers, NEW t \in Ids, Insert(c, t) PROVE SteadyAfter(s, l)
  <2>1. /\ t \notin used /\ used' = used \cup {t} /\ UNCHANGED upstream
        /\ steady' = steady \cup ({t} \X upstream[call[c].address]) /\ Return(c)
    BY <1>1 DEF Insert
  <2>2. CASE s = t
    <3>1. l \in upstream[call[c].address]
      BY <1>b, <2>1, <2>2
    <3>2. row'[s].address = call[c].address
      BY <1>1, <2>2, Places
    \* Nobody asks about it yet.
    <3>3. ASSUME NEW d \in Callers PROVE Fits(call'[d], s, l, row'[s])
      <4>1. call'[d] = call[d] \/ call'[d] = IdleCall
        BY <1>a, <2>1 DEF Return, CallBecomes, CallType
      <4>2. Knows(call[d], used) /\ IdleCall.pc = "idle"
        BY <1>a DEF CallType, IdleCall
      <4> QED
        BY <2>1, <2>2, <4>1, <4>2 DEF Knows, Fits
    <3> QED
      BY <2>1, <2>2, <3>1, <3>2, <3>3 DEF SteadyAfter
  <2>3. CASE s # t
    <3>1. <<s, l>> \in steady /\ SamePlace(s)
      BY <1>1, <2>1, <2>3, Places
    <3>2. CASE row[s] # Absent
      <4>1. \E k \in CallRecord : CallBecomes(c, k) /\ Fits(k, s, l, row[s])
        BY <1>e, <2>1, <3>1, <3>2, HeardSteps
      <4>2. \A d \in Callers : Fits(call'[d], s, l, row'[s])
        BY <1>a, <1>b, <3>1, <3>2, <4>1, CallFits
      <4> QED
        BY <1>b, <2>1, <3>1, <3>2, <4>2 DEF SamePlace, SteadyAfter
    <3> QED
      BY <1>b, <2>1, <3>1, <3>2 DEF SamePlace, SteadyAfter
  <2> QED
    BY <2>2, <2>3
<1>2. ASSUME NEW c \in Callers, NEW a \in Addresses, Update(c, a) PROVE SteadyAfter(s, l)
  <2>1. <<s, l>> \in steady /\ s # call[c].server /\ UNCHANGED <<used, upstream>>
    BY <1>2 DEF Update
  <2>2. SamePlace(s)
    BY <1>2, <2>1, Places
  <2>3. row[s] # Absent => \E k \in CallRecord : CallBecomes(c, k) /\ Fits(k, s, l, row[s])
    BY <1>2, <1>e, <2>1, HeardSteps
  <2> QED
    BY <1>c, <2>1, <2>2, <2>3
<1>3. ASSUME NEW c \in Callers, SetTarget(c) \/ Commit(c) PROVE SteadyAfter(s, l)
  <2>1. <<s, l>> \in steady /\ UNCHANGED <<used, upstream>> /\ Return(c) /\ SamePlace(s)
    BY <1>3, Places DEF SetTarget, Commit
  <2>2. row[s] # Absent => \E k \in CallRecord : CallBecomes(c, k) /\ Fits(k, s, l, row[s])
    BY <1>e, <2>1, HeardSteps
  <2> QED
    BY <1>c, <2>1, <2>2
<1>4. ASSUME NEW c \in Callers, Delete(c) PROVE SteadyAfter(s, l)
  <2>1. <<s, l>> \in steady /\ UNCHANGED <<used, upstream>> /\ Return(c)
    BY <1>4 DEF Delete
  <2>2. CASE s = call[c].server
    BY <1>4, <1>b, <2>1, <2>2, Places DEF SteadyAfter
  <2>3. CASE s # call[c].server
    <3>1. row[s] # Absent => \E k \in CallRecord : CallBecomes(c, k) /\ Fits(k, s, l, row[s])
      BY <1>e, <2>1, HeardSteps
    <3> QED
      BY <1>4, <1>c, <2>1, <2>3, <3>1, Places
  <2> QED
    BY <2>2, <2>3
<1>5. ASSUME NEW a \in Addresses, NEW m \in Libraries, Upstream(a, m) PROVE SteadyAfter(s, l)
  <2>1. /\ <<s, l>> \in steady /\ row[s] # Absent /\ l \in upstream'[row[s].address]
        /\ UNCHANGED <<row, used, call>>
    BY <1>5 DEF Upstream
  <2> QED
    BY <1>b, <2>1 DEF SteadyAfter
<1>6. ASSUME NEW c \in Callers, UNCHANGED <<stored, upstream>>,
             \/ \E a \in Addresses, b \in BOOLEAN : CreateServer(c, a, b)
             \/ \E t \in Ids, pc \in {"update", "target", "delete", "ask"} : BeginCall(c, t, pc)
             \/ Test(c) \/ FindTwin(c) \/ AskServer(c) \/ Return(c)
      PROVE  SteadyAfter(s, l)
  <2>1. <<s, l>> \in steady /\ UNCHANGED <<used, upstream>> /\ SamePlace(s)
    BY <1>6, <1>d DEF stored
  <2>2. row[s] # Absent => \E k \in CallRecord : CallBecomes(c, k) /\ Fits(k, s, l, row[s])
    BY <1>6, <1>e, <2>1, HeardSteps
  <2> QED
    BY <1>c, <2>1, <2>2
<1>7. CASE UNCHANGED <<row, used, steady, call, upstream>>
  BY <1>c, <1>d, <1>7
<1>8. ASSUME NEW c \in Callers
      PROVE  /\ \A a \in Addresses, b \in BOOLEAN :
                  CreateServer(c, a, b) => UNCHANGED <<stored, upstream>>
             /\ \A t \in Ids, pc \in {"update", "target", "delete", "ask"} :
                  BeginCall(c, t, pc) => UNCHANGED <<stored, upstream>>
             /\ Test(c) \/ FindTwin(c) \/ AskServer(c) => UNCHANGED <<stored, upstream>>
             /\ AskFails(c) => UNCHANGED <<stored, upstream>> /\ Return(c)
  BY DEF CreateServer, BeginCall, Test, FindTwin, AskServer, AskFails
<1>9. (\E t \in Ids, m \in Libraries : SetIncluded(t, m)) \/ UNCHANGED serverVars
        => UNCHANGED <<row, used, steady, call, upstream>>
  BY DEF SetIncluded, serverVars
<1>10. ASSUME NEW c \in Callers, Step(c) PROVE SteadyAfter(s, l)
  BY <1>1, <1>2, <1>3, <1>4, <1>6, <1>8, <1>10 DEF Step
<1>11. ASSUME NEW c \in Callers,
              \/ \E a \in Addresses, b \in BOOLEAN : CreateServer(c, a, b)
              \/ \E t \in Ids, pc \in {"update", "target", "delete", "ask"} : BeginCall(c, t, pc)
       PROVE  SteadyAfter(s, l)
  <2>1. UNCHANGED <<stored, upstream>>
    BY <1>8, <1>11
  <2> QED
    BY <1>6, <1>11, <2>1
<1> QED
  BY <1>5, <1>7, <1>9, <1>10, <1>11 DEF ServersNext

\* What LibraryKept says of a step.
KeptLibrary ==
    \A s \in Ids, l \in Libraries :
        /\ <<s, l>> \in steady /\ library[s][l] # "none" /\ row'[s] # Absent
        /\ library'[s][l] # library[s][l]
        => SetIncluded(s, l)

LEMMA KeptStep ==
    AbsentIsNoRow /\ Typed /\ NoOrphans /\ SteadyListed /\ [ServersNext]_serverVars
        => [KeptLibrary]_serverVars
<1> SUFFICES ASSUME AbsentIsNoRow, Typed, NoOrphans, SteadyListed, ServersNext,
                    NEW s \in Ids, NEW l \in Libraries,
                    <<s, l>> \in steady, library[s][l] # "none", row'[s] # Absent,
                    library'[s][l] # library[s][l]
             PROVE  SetIncluded(s, l)
  BY DEF KeptLibrary
<1>a. library \in [Ids -> [Libraries -> {"none", "in", "out"}]]
  BY DEF Typed, LibraryType
<1>b. row[s] # Absent
  BY DEF NoOrphans, Existing, NoLibraries
<1>1. ASSUME NEW c \in Callers, NEW t \in Ids, Insert(c, t) PROVE FALSE
  <2>1. t \notin used /\ t # s
    BY <1>1, <1>b DEF Insert, Typed, RowType, Existing
  <2> QED
    BY <1>1, <1>a, <2>1 DEF Insert
<1>2. ASSUME NEW c \in Callers, Delete(c) PROVE FALSE
  <2>1. s # call[c].server
    BY <1>2, Places
  <2> QED
    BY <1>2, <1>a, <2>1 DEF Delete
\* What is written is a listing that has it.
<1>3. ASSUME NEW c \in Callers, Commit(c) PROVE FALSE
  <2>1. library' = [library EXCEPT ![call[c].server] =
                      Reconciled(library[call[c].server], call[c].listing)]
    BY <1>3 DEF Commit
  <2>2. s = call[c].server
    BY <1>a, <2>1
  <2>3. l \in call[c].listing
    BY <1>3, <1>b, <2>2 DEF SteadyListed, Existing, Fits, Commit
  <2>4. library'[s][l] = library[s][l]
    BY <1>a, <2>1, <2>2, <2>3 DEF Reconciled
  <2> QED
    BY <2>4
<1>4. ASSUME NEW t \in Ids, NEW m \in Libraries, SetIncluded(t, m) PROVE t = s /\ m = l
  BY <1>4, <1>a DEF SetIncluded
<1>5. \/ UNCHANGED library
      \/ \E c \in Callers : (\E t \in Ids : Insert(c, t)) \/ Delete(c) \/ Commit(c)
      \/ \E t \in Ids, m \in Libraries : SetIncluded(t, m)
  BY DEF ServersNext, Step, CreateServer, Test, FindTwin, BeginCall, Update, SetTarget, AskServer,
         AskFails, Upstream, stored
<1> QED
  BY <1>1, <1>2, <1>3, <1>4, <1>5

\* A library that its server has listed all along is never dropped, nor chosen or left out
\* against what was decided, whichever verifications overlap, come late or fail; and none
\* comes back with an answer for a server that was deleted.
THEOREM LibrariesKept == ServersSpec => LibraryKept
<1> AbsentIsNoRow
  BY ServersAssumption DEF AbsentIsNoRow, RowRecord
<1>1. ServersInit => NoOrphans /\ SteadyListed
  BY DEF ServersInit, NoOrphans, SteadyListed, Existing
<1>2. Typed /\ NoOrphans /\ SteadyListed /\ [ServersNext]_serverVars
        => Typed' /\ NoOrphans' /\ SteadyListed'
  BY TypedNext, OrphansNext, SteadyNext
<1>3. Typed /\ NoOrphans /\ SteadyListed /\ [ServersNext]_serverVars
        => [\A s \in Ids, l \in Libraries :
              /\ <<s, l>> \in steady /\ library[s][l] # "none" /\ row'[s] # Absent
              /\ library'[s][l] # library[s][l]
              => SetIncluded(s, l)]_serverVars
  BY KeptStep DEF KeptLibrary
<1>4. NoOrphans => \A s \in Ids \ Existing : library[s] = NoLibraries
  BY DEF NoOrphans
<1> QED
  BY <1>1, <1>2, <1>3, <1>4, TypedInit, PTL DEF ServersSpec, LibraryKept
=============================================================================
