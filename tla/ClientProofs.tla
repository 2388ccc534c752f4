---------------------------- MODULE ClientProofs ----------------------------
(***************************************************************************)
(* What holds of AbsClient for any number of requests, retries, troubles   *)
(* and expiries, and for every server and account; of NodeUpload; and of   *)
(* Spool, for whatever items a source has, however often they change.      *)
(***************************************************************************)
EXTENDS AbsClient, NodeUpload, Spool, FiniteSetTheorems, WellFoundedInduction, TLAPS

DownloadLists == {<<"item", "library">>, <<"library", "item">>, <<"item">>, <<"library">>}
FileLists == {<<"attachment", "bare">>, <<"bare">>}
UrlLists == DownloadLists \cup FileLists \cup {<<>>}

RequestRecord ==
    [pc : Pcs, kind : AllKinds, urls : UrlLists, bearer : Tokens \cup {None}, answer : Answers,
     refreshed : BOOLEAN, refreshing : BOOLEAN, attempt : 0..MaxRetries, aborted : BOOLEAN]

Typed ==
    /\ password \in BOOLEAN /\ style \in {"item", "library"}
    /\ permits \subseteq {"download", "upload"} /\ present \in BOOLEAN
    /\ expiries \in Tokens
    /\ kept \in Tokens \cup {None} /\ saving \subseteq Tokens
    /\ token \in Tokens \cup {None} /\ loginInFlight \in Requests \cup {None}
    /\ template \in {"item", "library", None}
    /\ req \in [Requests -> RequestRecord]
    /\ troubles \in 0..MaxTroubles
-----------------------------------------------------------------------------
(***************************************************************************)
(* Types.                                                                  *)
(***************************************************************************)
LEMMA UrlFacts ==
    /\ \A u \in UrlLists : Len(u) \in {0, 1, 2} /\ \A i \in DOMAIN u : u[i] \in Urls
    /\ \A u \in UrlLists : Len(u) > 1 => Tail(u) \in UrlLists /\ Len(Tail(u)) = 1
    /\ \A u \in DownloadLists :
         /\ Head(u) \in {"item", "library"} /\ Len(u) \in {1, 2}
         /\ Len(u) > 1 => /\ Tail(u) \in DownloadLists /\ Len(Tail(u)) = 1
                          /\ Head(Tail(u)) \in {"item", "library"} \ {Head(u)}
    /\ \A u \in FileLists :
         /\ Len(u) \in {1, 2} /\ (Len(u) = 1 => Head(u) = "bare")
         /\ Len(u) > 1 => /\ Head(u) = "attachment" /\ Tail(u) \in FileLists
                          /\ Len(Tail(u)) = 1
    /\ Len(<<>>) = 0
<1> USE DEF UrlLists, DownloadLists, FileLists, Urls
<1>1. \A u \in UrlLists : Len(u) \in {0, 1, 2} /\ \A i \in DOMAIN u : u[i] \in Urls
  OBVIOUS
<1>2. /\ Tail(<<"item", "library">>) = <<"library">> /\ Tail(<<"library", "item">>) = <<"item">>
      /\ Tail(<<"attachment", "bare">>) = <<"bare">>
  OBVIOUS
<1>3. /\ Len(<<"item", "library">>) = 2 /\ Len(<<"library", "item">>) = 2
      /\ Len(<<"attachment", "bare">>) = 2 /\ Len(<<"item">>) = 1 /\ Len(<<"library">>) = 1
      /\ Len(<<"bare">>) = 1 /\ Len(<<>>) = 0
  OBVIOUS
<1>4. /\ Head(<<"item", "library">>) = "item" /\ Head(<<"library", "item">>) = "library"
      /\ Head(<<"attachment", "bare">>) = "attachment" /\ Head(<<"item">>) = "item"
      /\ Head(<<"library">>) = "library" /\ Head(<<"bare">>) = "bare"
  OBVIOUS
<1> QED
  BY <1>1, <1>2, <1>3, <1>4

LEMMA TypedInit == Init => Typed
  BY AbsClientAssumption
     DEF Init, Typed, Tokens, IdleRequest, RequestRecord, Pcs, AllKinds, Downloads,
         UrlLists, Answers

LEMMA TypeSplit == Typed => TypeOK
<1> SUFFICES ASSUME Typed, NEW q \in Requests
             PROVE  /\ req[q] \in [pc : Pcs, kind : AllKinds, urls : {req[q].urls},
                        bearer : Tokens \cup {None}, answer : Answers, refreshed : BOOLEAN,
                        refreshing : BOOLEAN, attempt : 0..MaxRetries, aborted : BOOLEAN]
                    /\ \A i \in DOMAIN req[q].urls : req[q].urls[i] \in Urls
  BY DEF Typed, TypeOK
<1>1. req[q] \in RequestRecord
  BY DEF Typed
<1>2. req[q].urls \in UrlLists
  BY <1>1 DEF RequestRecord
<1> QED
  BY <1>1, <1>2, UrlFacts DEF RequestRecord

LEMMA Fields ==
    ASSUME NEW x \in RequestRecord
    PROVE  /\ x.pc \in Pcs /\ x.kind \in AllKinds /\ x.urls \in UrlLists
           /\ x.bearer \in Tokens \cup {None} /\ x.answer \in Answers
           /\ x.refreshed \in BOOLEAN /\ x.refreshing \in BOOLEAN
           /\ x.attempt \in 0..MaxRetries /\ x.aborted \in BOOLEAN
  BY DEF RequestRecord
-----------------------------------------------------------------------------
(***************************************************************************)
(* The inductive invariant.  e, pw, st and pr are expiries, password,      *)
(* style and present.                                                      *)
(***************************************************************************)
\* What a request holds, wherever it is: the URLs it has not tried are those that may still
\* have the item, and only a JSON request was refused before, for a reason.
Sound(x, e, pw, st, pr) ==
    /\ x.refreshed => x.kind = "json" /\ (pw => e >= 1)
    /\ x.kind = "download" =>
         x.urls \in DownloadLists /\ (Len(x.urls) = 1 /\ Head(x.urls) # st => ~pr)
    /\ x.kind = "itemDownload" => x.urls = <<"item">> /\ Len(x.urls) = 1
    /\ x.kind = "file" => x.urls \in FileLists /\ (Len(x.urls) = 1 => ~pr)
    /\ x.kind \in {"json", "upload"} => x.urls = <<>>

OnWire == {"sent", "reply"}
LoggingIn == {"login", "loginReply"}

\* The answer it has: a refusal means a token older than the server's, a missing item that
\* this URL cannot have it.
Told(x, e, pw, st, pr) ==
    /\ x.answer = "unauthorized" => x.bearer < e
    /\ x.answer = "forbidden" => x.kind # "json"
    /\ x.answer = "missing" =>
         /\ x.kind \in Downloads \cup {"file"}
         /\ x.kind = "download" /\ Head(x.urls) = st => ~pr
         /\ x.kind = "itemDownload" /\ st = "item" => ~pr
         /\ x.kind = "file" => ~pr

ToldLogin(x, e, pw) ==
    /\ x.answer \in {"ok", "unauthorized", "busy", "unreachable", "garbled"}
    /\ x.answer = "ok" => pw /\ x.bearer \in Nat /\ x.bearer <= e
    /\ x.answer = "unauthorized" => ~pw

Fine(x, e, pw, st, pr) ==
    /\ Sound(x, e, pw, st, pr)
    /\ x.pc = "idle" => x = IdleRequest
    /\ x.pc \in {"sent", "backoff"} => ~x.aborted
    /\ x.pc \in OnWire =>
         x.bearer \in Nat /\ x.bearer <= e /\ (x.refreshed => x.bearer >= 1)
    /\ x.pc = "reply" => Told(x, e, pw, st, pr)
    /\ x.pc = "loginReply" => ToldLogin(x, e, pw)

AllFine == \A q \in Requests : Fine(req[q], expiries, password, style, present)

\* A login that was answered before the first expiry.
Old(x) == x.pc = "loginReply" /\ x.answer = "ok" /\ x.bearer = 0

\* The login under way is the one loginInFlight names, and there is no token meanwhile.
One ==
    /\ \A q \in Requests : req[q].pc \in LoggingIn <=> loginInFlight = q
    /\ loginInFlight # None => token = None

\* No token is newer than the server's.
Issued ==
    /\ token # None => token <= expiries
    /\ kept # None => kept <= expiries
    /\ \A t \in saving : t <= expiries

\* A token is dropped, and a request refused, after the first expiry only: the first token
\* is not used again.
Dropped ==
    /\ \A q \in Requests : req[q].refreshed => token # 0
    /\ \A q \in Requests : req[q].pc \in OnWire /\ token = None => expiries >= 1
    /\ \A q, p \in Requests : Old(req[q]) => req[p].pc \notin OnWire /\ ~req[p].refreshed

IndInv == Typed /\ AllFine /\ One /\ Issued /\ Dropped
-----------------------------------------------------------------------------
(***************************************************************************)
(* Records.                                                                *)
(***************************************************************************)
LEMMA IdleRecord ==
    /\ IdleRequest \in RequestRecord
    /\ IdleRequest.pc = "idle" /\ IdleRequest.kind = "json" /\ IdleRequest.urls = <<>>
    /\ ~IdleRequest.refreshed /\ ~IdleRequest.aborted /\ IdleRequest.answer = "none"
  BY AbsClientAssumption
     DEF IdleRequest, RequestRecord, Pcs, AllKinds, Downloads, UrlLists, Answers, Tokens

\* A request of which only the place, the token, the answer, the marks and the count differ
\* is as sound as it was.
LEMMA SoundMoved ==
    ASSUME NEW x, NEW y, NEW e, NEW pw, NEW st, NEW pr,
           Sound(x, e, pw, st, pr), y.kind = x.kind, y.urls = x.urls,
           y.refreshed => x.refreshed
    PROVE  Sound(y, e, pw, st, pr)
  BY DEF Sound

LEMMA IdleFine ==
    ASSUME NEW e, NEW pw, NEW st, NEW pr
    PROVE  Fine(IdleRequest, e, pw, st, pr) /\ Sound(IdleRequest, e, pw, st, pr)
  BY IdleRecord DEF Fine, Sound, OnWire

\* What ensureToken may make of a request.
LEMMA PlacedRecord ==
    ASSUME NEW x \in RequestRecord, NEW at \in Pcs
    PROVE  LET y == [x EXCEPT !.pc = at]
           IN  /\ y \in RequestRecord /\ y.pc = at
               /\ y.kind = x.kind /\ y.urls = x.urls /\ y.bearer = x.bearer
               /\ y.answer = x.answer /\ y.refreshed = x.refreshed
               /\ y.aborted = x.aborted
  BY DEF RequestRecord

LEMMA SentRecord ==
    ASSUME NEW x \in RequestRecord, NEW known \in Tokens, ~x.aborted
    PROVE  LET y == Sent(x, known)
           IN  /\ y \in RequestRecord /\ y.pc = "sent" /\ y.bearer = known
               /\ y.kind = x.kind /\ y.urls = x.urls /\ y.answer = x.answer
               /\ y.refreshed = x.refreshed /\ y.aborted = x.aborted
  BY DEF RequestRecord, Sent, Pcs

LEMMA RefreshingRecord ==
    ASSUME NEW x \in RequestRecord
    PROVE  LET y == Refreshing(x)
           IN  /\ y \in RequestRecord /\ y.pc = x.pc
               /\ y.kind = x.kind /\ y.urls = x.urls /\ y.refreshed
               /\ y.answer = "none" /\ y.aborted = x.aborted
  BY DEF RequestRecord, Refreshing, Answers

LEMMA ThrownRecord ==
    ASSUME NEW x \in RequestRecord, NEW error
    PROVE  LET y == Thrown(x, error)
           IN  \/ y = IdleRequest
               \/ /\ y \in RequestRecord /\ y.pc = "backoff"
                  /\ y.kind = x.kind /\ y.urls = x.urls
                  /\ y.refreshed = x.refreshed /\ ~y.aborted /\ ~x.aborted
<1> SUFFICES ASSUME x.attempt < MaxRetries, ~x.aborted
             PROVE  LET y == [x EXCEPT !.pc = "backoff", !.attempt = @ + 1, !.bearer = None,
                                       !.answer = "none"]
                    IN  /\ y \in RequestRecord /\ y.pc = "backoff"
                        /\ y.kind = x.kind /\ y.urls = x.urls
                        /\ y.refreshed = x.refreshed /\ ~y.aborted /\ ~x.aborted
  BY DEF Thrown
<1>1. x.attempt + 1 \in 0..MaxRetries
  BY AbsClientAssumption DEF RequestRecord
<1> QED
  BY <1>1 DEF RequestRecord, Pcs, Answers

LEMMA NextUrlRecord ==
    ASSUME NEW x \in RequestRecord, Len(x.urls) > 1
    PROVE  LET y == [x EXCEPT !.urls = Tail(@), !.bearer = None, !.answer = "none"]
           IN  /\ y \in RequestRecord /\ y.pc = x.pc
               /\ y.kind = x.kind /\ y.urls = Tail(x.urls)
               /\ y.refreshed = x.refreshed /\ y.aborted = x.aborted
<1>1. Tail(x.urls) \in UrlLists
  BY Fields, UrlFacts
<1> QED
  BY <1>1 DEF RequestRecord, Answers
-----------------------------------------------------------------------------
(***************************************************************************)
(* Steps.                                                                  *)
(***************************************************************************)
LEMMA FinePrime ==
    ASSUME \A p \in Requests : Fine(req'[p], expiries', password', style', present')
    PROVE  AllFine'
  BY DEF AllFine, Fine, Sound, Told, ToldLogin

LEMMA OldPrime ==
    ASSUME \A q, p \in Requests : Old(req'[q]) => req'[p].pc \notin OnWire /\ ~req'[p].refreshed,
           \A q \in Requests : req'[q].refreshed => token' # 0,
           \A q \in Requests : req'[q].pc \in OnWire /\ token' = None => expiries' >= 1
    PROVE  Dropped'
  BY DEF Dropped, Old

\* One request moves on, the others and what they share stay.
LEMMA MoveStep ==
    ASSUME IndInv, NEW q \in Requests, NEW x \in RequestRecord,
           req' = [req EXCEPT ![q] = x],
           UNCHANGED <<server, cache, token, loginInFlight>>,
           template' \in {"item", "library", None}, troubles' \in 0..MaxTroubles,
           Fine(x, expiries, password, style, present),
           x.pc \in LoggingIn <=> req[q].pc \in LoggingIn,
           x.refreshed => req[q].refreshed,
           x.pc \in OnWire => req[q].pc \in OnWire,
           Old(x) => \A p \in Requests : req[p].pc \notin OnWire /\ ~req[p].refreshed
    PROVE  IndInv'
<1> USE DEF server, cache
<1>1. req \in [Requests -> RequestRecord]
  BY DEF IndInv, Typed
<1>2. req' \in [Requests -> RequestRecord] /\ req'[q] = x
      /\ \A p \in Requests \ {q} : req'[p] = req[p]
  BY <1>1
<1>3. Typed'
  BY <1>2 DEF IndInv, Typed
<1>4. AllFine'
  <2>1. \A p \in Requests : Fine(req'[p], expiries, password, style, present)
    BY <1>2 DEF IndInv, AllFine
  <2> QED
    BY <2>1, FinePrime
<1>5. One'
  BY <1>2 DEF IndInv, One
<1>6. Issued'
  BY DEF IndInv, Issued
<1>7. Dropped'
  <2>1. \A p, r \in Requests : Old(req'[p]) => req'[r].pc \notin OnWire /\ ~req'[r].refreshed
    BY <1>2 DEF IndInv, Dropped
  <2>2. \A p \in Requests : req'[p].refreshed => token' # 0
    BY <1>2 DEF IndInv, Dropped
  <2>3. \A p \in Requests : req'[p].pc \in OnWire /\ token' = None => expiries' >= 1
    BY <1>2 DEF IndInv, Dropped
  <2> QED
    BY <2>1, <2>2, <2>3, OldPrime
<1> QED
  BY <1>3, <1>4, <1>5, <1>6, <1>7 DEF IndInv

\* One request asks for a token, as itself or as it is about to go on.
LEMMA EnsureStep ==
    ASSUME IndInv, NEW q \in Requests, NEW x \in RequestRecord, NEW known \in Tokens \cup {None},
           EnsureToken(q, x, known),
           UNCHANGED <<server, cache, template, troubles>>,
           req[q].pc \notin LoggingIn,
           Sound(x, expiries, password, style, present),
           known = token \/ (known = None /\ expiries >= 1),
           x.refreshed => known # 0 /\ \A p \in Requests : ~Old(req[p])
    PROVE  IndInv'
<1> USE DEF server, cache
<1>1. /\ req \in [Requests -> RequestRecord] /\ expiries \in Nat
      /\ loginInFlight \in Requests \cup {None} /\ 0 \in Tokens /\ None \notin Tokens
      /\ None \notin Requests /\ \A t \in Tokens : t \in Nat
  BY AbsClientAssumption DEF IndInv, Typed, Tokens
<1>2. PICK y \in RequestRecord :
        /\ req' = [req EXCEPT ![q] = y]
        /\ Fine(y, expiries, password, style, present)
        /\ y.refreshed => x.refreshed
        /\ ~Old(y)
        /\ \/ known # None /\ y.pc \in {"sent", "idle"} /\ UNCHANGED loginInFlight
           \/ known = None /\ loginInFlight # None /\ y.pc = "await" /\ UNCHANGED loginInFlight
           \/ known = None /\ loginInFlight = None /\ y.pc = "login" /\ loginInFlight' = q
  <2>1. CASE known # None /\ req' = [req EXCEPT ![q] = Sent(x, known)]
             /\ UNCHANGED loginInFlight
    <3>1. CASE x.aborted
      BY <2>1, <3>1, IdleRecord, IdleFine DEF Sent, Old
    <3>2. CASE ~x.aborted
      <4> DEFINE y == Sent(x, known)
      <4>1. /\ y \in RequestRecord /\ y.pc = "sent" /\ y.bearer = known
            /\ y.kind = x.kind /\ y.urls = x.urls
            /\ y.refreshed = x.refreshed /\ y.aborted = x.aborted
        BY <2>1, <3>2, SentRecord
      <4> HIDE DEF y
      <4>2. Sound(y, expiries, password, style, present)
        BY <4>1, SoundMoved
      <4>3. known \in Nat /\ known <= expiries /\ (x.refreshed => known >= 1)
        BY <1>1, <2>1 DEF IndInv, Issued
      <4>4. Fine(y, expiries, password, style, present) /\ ~Old(y)
        BY <4>1, <4>2, <4>3, <3>2 DEF Fine, OnWire, Old
      <4> QED
        BY <2>1, <4>1, <4>4 DEF y
    <3> QED
      BY <3>1, <3>2
  <2>2. ASSUME NEW at \in {"await", "login"}
        PROVE  LET y == [x EXCEPT !.pc = at]
               IN  /\ y \in RequestRecord /\ Fine(y, expiries, password, style, present)
                   /\ y.refreshed = x.refreshed /\ ~Old(y) /\ y.pc = at
    <3> DEFINE y == [x EXCEPT !.pc = at]
    <3>1. at \in Pcs
      BY DEF Pcs
    <3>2. /\ y \in RequestRecord /\ y.pc = at
          /\ y.kind = x.kind /\ y.urls = x.urls
          /\ y.refreshed = x.refreshed /\ y.aborted = x.aborted
      BY <3>1, PlacedRecord
    <3> HIDE DEF y
    <3>3. Sound(y, expiries, password, style, present)
      BY <3>2, SoundMoved
    <3>4. Fine(y, expiries, password, style, present) /\ ~Old(y)
      BY <3>2, <3>3 DEF Fine, OnWire, Old
    <3> QED
      BY <3>2, <3>4 DEF y
  <2>3. CASE known = None /\ loginInFlight # None /\ UNCHANGED loginInFlight
             /\ req' = [req EXCEPT ![q] = [x EXCEPT !.pc = "await"]]
    BY <2>2, <2>3
  <2>4. CASE known = None /\ loginInFlight = None /\ loginInFlight' = q
             /\ req' = [req EXCEPT ![q] = [x EXCEPT !.pc = "login"]]
    BY <2>2, <2>4
  <2> QED
    BY <2>1, <2>3, <2>4 DEF EnsureToken
<1>3. token' = known
  BY DEF EnsureToken
<1>4. req' \in [Requests -> RequestRecord] /\ req'[q] = y
      /\ \A p \in Requests \ {q} : req'[p] = req[p]
  BY <1>1, <1>2
<1>5. Typed'
  BY <1>1, <1>2, <1>3, <1>4 DEF IndInv, Typed
<1>6. AllFine'
  <2>1. \A p \in Requests : Fine(req'[p], expiries, password, style, present)
    BY <1>2, <1>4 DEF IndInv, AllFine
  <2> QED
    BY <2>1, FinePrime
<1>7. One'
  <2>1. \A p \in Requests : req'[p].pc \in LoggingIn <=> loginInFlight' = p
    BY <1>1, <1>2, <1>4 DEF IndInv, One, LoggingIn
  <2>2. loginInFlight' # None => token' = None
    BY <1>1, <1>2, <1>3 DEF IndInv, One
  <2> QED
    BY <2>1, <2>2 DEF One
<1>8. Issued'
  BY <1>1, <1>3 DEF IndInv, Issued
<1>9. Dropped'
  <2>1. \A p, r \in Requests : Old(req'[p]) => req'[r].pc \notin OnWire /\ ~req'[r].refreshed
    <3> SUFFICES ASSUME NEW p \in Requests, NEW r \in Requests, Old(req'[p])
                 PROVE  req'[r].pc \notin OnWire /\ ~req'[r].refreshed
      OBVIOUS
    <3>1. p # q /\ Old(req[p])
      BY <1>2, <1>4
    <3>2. loginInFlight = p /\ token = None
      BY <1>1, <3>1 DEF IndInv, One, Old, LoggingIn
    <3>3. CASE r = q
      BY <1>1, <1>2, <1>4, <3>1, <3>2, <3>3 DEF OnWire
    <3>4. CASE r # q
      BY <1>4, <3>1, <3>4 DEF IndInv, Dropped
    <3> QED
      BY <3>3, <3>4
  <2>2. \A p \in Requests : req'[p].refreshed => token' # 0
    BY <1>1, <1>2, <1>3, <1>4 DEF IndInv, Dropped
  <2>3. \A p \in Requests : req'[p].pc \in OnWire /\ token' = None => expiries' >= 1
    BY <1>1, <1>2, <1>3, <1>4 DEF IndInv, Dropped, OnWire
  <2> QED
    BY <2>1, <2>2, <2>3, OldPrime
<1> QED
  BY <1>5, <1>6, <1>7, <1>8, <1>9 DEF IndInv

LEMMA Given ==
    ASSUME IndInv, NEW q \in Requests
    PROVE  /\ req[q] \in RequestRecord /\ Fine(req[q], expiries, password, style, present)
           /\ Sound(req[q], expiries, password, style, present)
           /\ expiries \in Nat /\ expiries \in Tokens /\ token \in Tokens \cup {None}
           /\ template \in {"item", "library", None} /\ troubles \in 0..MaxTroubles
           /\ req \in [Requests -> RequestRecord]
           /\ loginInFlight \in Requests \cup {None}
           /\ \A t \in Tokens : t \in Nat
           /\ 0 \in Tokens /\ None \notin Tokens /\ None \notin Requests
  BY AbsClientAssumption DEF IndInv, Typed, AllFine, Fine, Tokens

LEMMA InitHolds == Init => IndInv
<1> SUFFICES ASSUME Init PROVE IndInv
  OBVIOUS
<1>1. Typed /\ token \in {0, None} /\ kept \in {0, None} /\ None \notin Requests
      /\ \A q \in Requests : req[q] = IdleRequest
  BY TypedInit, AbsClientAssumption DEF Init
<1>2. AllFine
  BY <1>1, IdleFine DEF AllFine
<1>3. One /\ Issued /\ Dropped
  BY <1>1, IdleRecord DEF Init, One, Issued, Dropped, Old, LoggingIn, OnWire
<1> QED
  BY <1>1, <1>2, <1>3 DEF IndInv

LEMMA AskStep ==
    ASSUME IndInv, NEW q \in Requests, NEW kind \in Kinds, Ask(q, kind)
    PROVE  IndInv'
<1> DEFINE x == [IdleRequest EXCEPT !.kind = kind, !.urls = Candidates(kind)]
<1>1. kind \in AllKinds
  BY AbsClientAssumption
<1>2. /\ kind = "download" => Candidates(kind) \in {<<"item", "library">>, <<"library", "item">>}
      /\ kind = "itemDownload" => Candidates(kind) = <<"item">>
      /\ kind = "file" => Candidates(kind) = <<"attachment", "bare">>
      /\ kind \in {"json", "upload"} => Candidates(kind) = <<>>
  BY <1>1 DEF Candidates, AllKinds, Downloads
<1>3. Len(<<"item", "library">>) = 2 /\ Len(<<"library", "item">>) = 2
      /\ Len(<<"attachment", "bare">>) = 2 /\ Len(<<"item">>) = 1
  OBVIOUS
<1>4. x \in RequestRecord /\ x.kind = kind /\ x.urls = Candidates(kind) /\ ~x.refreshed
  <2>1. Candidates(kind) \in UrlLists
    BY <1>1, <1>2 DEF UrlLists, DownloadLists, FileLists, AllKinds, Downloads
  <2> QED
    BY <1>1, <2>1, IdleRecord DEF RequestRecord
<1>5. /\ EnsureToken(q, x, token) /\ req[q].pc = "idle"
      /\ UNCHANGED <<server, cache, template, troubles>>
  BY DEF Ask
<1> HIDE DEF x
<1>6. Sound(x, expiries, password, style, present)
  BY <1>1, <1>2, <1>3, <1>4 DEF Sound, DownloadLists, FileLists
<1> QED
  BY <1>4, <1>5, <1>6, Given, EnsureStep DEF LoggingIn

LEMMA ServeLoginStep ==
    ASSUME IndInv, NEW q \in Requests, ServeLogin(q)
    PROVE  IndInv'
<1> DEFINE b == IF password THEN expiries ELSE None
           a == IF password THEN "ok" ELSE "unauthorized"
           x == [req[q] EXCEPT !.pc = "loginReply", !.bearer = b, !.answer = a]
<1>1. b \in Tokens \cup {None} /\ a \in Answers
  BY Given DEF Answers
<1>2. /\ x \in RequestRecord /\ x.pc = "loginReply" /\ x.answer = a
      /\ x.kind = req[q].kind /\ x.urls = req[q].urls /\ x.bearer = b
      /\ x.refreshed = req[q].refreshed /\ x.aborted = req[q].aborted
  <2>1. req[q] \in RequestRecord
    BY Given
  <2> HIDE DEF a, b
  <2> QED
    BY <1>1, <2>1 DEF RequestRecord, Pcs
<1>3. req' = [req EXCEPT ![q] = x] /\ req[q].pc = "login"
      /\ UNCHANGED <<server, cache, token, loginInFlight, template, troubles>>
  BY Given DEF ServeLogin
<1> HIDE DEF x
<1>4. Sound(x, expiries, password, style, present)
  BY <1>2, Given, SoundMoved
<1>5. ToldLogin(x, expiries, password)
  BY <1>2, Given DEF ToldLogin
<1>6. Fine(x, expiries, password, style, present)
  BY <1>2, <1>4, <1>5 DEF Fine, OnWire
<1>7. Old(x) => \A p \in Requests : req[p].pc \notin OnWire /\ ~req[p].refreshed
  <2> SUFFICES ASSUME Old(x), NEW p \in Requests
               PROVE  req[p].pc \notin OnWire /\ ~req[p].refreshed
    OBVIOUS
  <2>1. password /\ expiries = 0
    BY <1>2 DEF Old
  <2>2. loginInFlight = q /\ token = None
    BY <1>3, Given DEF IndInv, One, LoggingIn
  <2>3. req[p].pc \notin OnWire
    BY <2>1, <2>2 DEF IndInv, Dropped
  <2>4. ~req[p].refreshed
    <3>1. Sound(req[p], expiries, password, style, present)
      BY Given
    <3> QED
      BY <2>1, <3>1 DEF Sound
  <2> QED
    BY <2>3, <2>4
<1> QED
  BY <1>2, <1>3, <1>6, <1>7, Given, MoveStep DEF LoggingIn, OnWire

LEMMA TroubledStep ==
    ASSUME IndInv, NEW q \in Requests, Troubled(q)
    PROVE  IndInv'
<1>1. PICK a \in {"busy", "unreachable", "garbled"} :
        req' = [req EXCEPT ![q] =
                    [@ EXCEPT !.pc = IF req[q].pc = "login" THEN "loginReply" ELSE "reply",
                              !.answer = a]]
  BY DEF Troubled
<1> DEFINE at == IF req[q].pc = "login" THEN "loginReply" ELSE "reply"
           x == [req[q] EXCEPT !.pc = at, !.answer = a]
<1>2. at \in Pcs /\ a \in Answers
  BY DEF Pcs, Answers
<1>3. /\ x \in RequestRecord /\ x.pc = at /\ x.answer = a
      /\ x.kind = req[q].kind /\ x.urls = req[q].urls /\ x.bearer = req[q].bearer
      /\ x.refreshed = req[q].refreshed /\ x.aborted = req[q].aborted
  <2>1. req[q] \in RequestRecord
    BY Given
  <2> HIDE DEF at
  <2> QED
    BY <1>2, <2>1 DEF RequestRecord
<1>4. req' = [req EXCEPT ![q] = x] /\ req[q].pc \in {"login", "sent"}
      /\ UNCHANGED <<server, cache, token, loginInFlight, template>>
      /\ troubles' = troubles + 1 /\ troubles < MaxTroubles
  BY <1>1, Given DEF Troubled
<1> HIDE DEF x
<1>5. Sound(x, expiries, password, style, present)
  BY <1>3, Given, SoundMoved
<1>6. Fine(x, expiries, password, style, present) /\ ~Old(x)
  BY <1>3, <1>4, <1>5, Given DEF Fine, OnWire, Told, ToldLogin, Old
<1>7. troubles' \in 0..MaxTroubles
  BY <1>4, Given, AbsClientAssumption
<1> QED
  BY <1>3, <1>4, <1>6, <1>7, Given, MoveStep DEF LoggingIn, OnWire

LEMMA ServeStep ==
    ASSUME IndInv, NEW q \in Requests, Serve(q)
    PROVE  IndInv'
<1>1. PICK a \in ServeAnswers(req[q]) :
        req' = [req EXCEPT ![q] = [@ EXCEPT !.pc = "reply", !.answer = a]]
  BY DEF Serve
<1> DEFINE x == [req[q] EXCEPT !.pc = "reply", !.answer = a]
<1>2. a \in Answers
  BY DEF ServeAnswers, ServeUpload, ServeDownload, Answers
<1>3. /\ x \in RequestRecord /\ x.pc = "reply" /\ x.answer = a
      /\ x.kind = req[q].kind /\ x.urls = req[q].urls /\ x.bearer = req[q].bearer
      /\ x.refreshed = req[q].refreshed /\ x.aborted = req[q].aborted
  <2>1. req[q] \in RequestRecord /\ "reply" \in Pcs
    BY Given DEF Pcs
  <2> QED
    BY <1>2, <2>1 DEF RequestRecord
<1>4. req' = [req EXCEPT ![q] = x] /\ req[q].pc = "sent"
      /\ UNCHANGED <<server, cache, token, loginInFlight, template, troubles>>
  BY <1>1, Given DEF Serve
<1> HIDE DEF x
<1>5. Sound(x, expiries, password, style, present)
  BY <1>3, Given, SoundMoved
<1>6. req[q].bearer \in Nat /\ req[q].bearer <= expiries
  BY <1>4, Given DEF Fine, OnWire
<1>7. CASE req[q].bearer # expiries
  <2>1. a = "unauthorized"
    BY <1>7 DEF ServeAnswers
  <2>2. Told(x, expiries, password, style, present)
    BY <2>1, <1>3, <1>6, <1>7, Given DEF Told
  <2> QED
    BY <2>2, <1>3, <1>4, <1>5, Given, MoveStep DEF LoggingIn, OnWire, Fine, Old
<1>8. CASE req[q].bearer = expiries
  <2>1. /\ req[q].kind = "json" => a = "ok"
        /\ req[q].kind = "upload" => a \in {"tooLarge", "ok", "forbidden"}
        /\ req[q].kind \notin {"json", "upload"} => a = ServeDownload(Head(req[q].urls))
    BY <1>8 DEF ServeAnswers, ServeUpload
  <2>2. Told(x, expiries, password, style, present)
    <3>1. a # "unauthorized" /\ (a = "forbidden" => x.kind # "json")
      BY <2>1, <1>3 DEF ServeDownload
    <3>2. ASSUME a = "missing" PROVE req[q].kind \in Downloads \cup {"file"}
      BY <2>1, <3>2, Given, Fields DEF AllKinds
    <3>3. ASSUME a = "missing", req[q].kind = "download", Head(req[q].urls) = style
          PROVE  ~present
      <4>1. Head(req[q].urls) \in {"item", "library"}
        BY <3>3, Given, UrlFacts DEF Sound
      <4> QED
        BY <2>1, <3>3, <4>1 DEF ServeDownload
    <3>5. ASSUME a = "missing", req[q].kind = "itemDownload", style = "item"
          PROVE  ~present
      <4>1. Head(req[q].urls) = "item"
        BY <3>5, Given DEF Sound
      <4> QED
        BY <2>1, <3>5, <4>1 DEF ServeDownload
    <3>4. ASSUME a = "missing", req[q].kind = "file" PROVE ~present
      <4>1. req[q].urls \in FileLists /\ (Len(req[q].urls) = 1 => ~present)
        BY <3>4, Given DEF Sound
      <4>2. CASE Len(req[q].urls) = 1
        BY <4>1, <4>2
      <4>3. CASE Len(req[q].urls) # 1
        <5>1. Head(req[q].urls) = "attachment"
          BY <4>1, <4>3, UrlFacts
        <5> QED
          BY <2>1, <3>4, <5>1 DEF ServeDownload
      <4> QED
        BY <4>2, <4>3
    <3> QED
      BY <3>1, <3>2, <3>3, <3>4, <3>5, <1>3 DEF Told
  <2> QED
    BY <2>2, <1>3, <1>4, <1>5, <1>6, Given, MoveStep DEF LoggingIn, OnWire, Fine, Old
<1> QED
  BY <1>7, <1>8

LEMMA ReceiveStep ==
    ASSUME IndInv, NEW q \in Requests, Receive(q)
    PROVE  IndInv'
<1>1. /\ req[q].pc = "reply"
      /\ Told(req[q], expiries, password, style, present)
      /\ UNCHANGED <<server, cache, troubles>>
  BY Given DEF Receive, Fine, OnWire
<1>2. req[q].bearer \in Nat /\ req[q].bearer <= expiries
      /\ (req[q].refreshed => req[q].bearer >= 1)
  BY <1>1, Given DEF Fine, OnWire
<1>3. \A p \in Requests : ~Old(req[p])
  BY <1>1 DEF IndInv, Dropped, OnWire
<1>4. CASE Accept(q)
  <2>1. template' \in {"item", "library", None}
    <3>1. CASE req[q].kind \in Downloads
      <4>1. Head(req[q].urls) \in {"item", "library"}
        BY <3>1, Given, UrlFacts DEF Sound, Downloads
      <4> QED
        BY <1>4, <3>1, <4>1 DEF Accept
    <3>2. CASE req[q].kind \notin Downloads
      BY <1>4, <3>2, Given DEF Accept
    <3> QED
      BY <3>1, <3>2
  <2>2. req' = [req EXCEPT ![q] = IdleRequest] /\ UNCHANGED <<token, loginInFlight>>
    BY <1>4 DEF Accept
  <2> QED
    BY <1>1, <2>1, <2>2, Given, IdleRecord, IdleFine, MoveStep DEF LoggingIn, OnWire, Old
<1>5. CASE Refresh(q)
  <2>1. /\ req[q].kind = "json" /\ req[q].answer = "unauthorized"
        /\ EnsureToken(q, Refreshing(req[q]), None) /\ UNCHANGED template
    BY <1>1, <1>5 DEF Refresh, MayRefresh, Refusals, Told
  <2>2. expiries >= 1
    BY <1>1, <1>2, <2>1, Given DEF Told
  <2>3. req[q] \in RequestRecord
    BY Given
  <2> DEFINE x == Refreshing(req[q])
  <2>4. /\ x \in RequestRecord /\ x.kind = req[q].kind /\ x.urls = req[q].urls
    BY <2>3, RefreshingRecord
  <2>5. EnsureToken(q, x, None)
    BY <2>1
  <2> HIDE DEF x
  <2>6. Sound(x, expiries, password, style, present)
    BY <2>1, <2>2, <2>4, Given DEF Sound
  <2>7. None # 0
    BY Given
  <2> QED
    BY <1>1, <1>3, <2>1, <2>2, <2>4, <2>5, <2>6, <2>7, EnsureStep DEF LoggingIn
<1>6. CASE TryNext(q)
  <2> DEFINE x == [req[q] EXCEPT !.urls = Tail(@), !.bearer = None, !.answer = "none"]
  <2>1. /\ req[q].answer = "missing" /\ Len(req[q].urls) > 1
        /\ EnsureToken(q, x, token) /\ UNCHANGED template
    BY <1>6 DEF TryNext, MayTryNext
  <2>2. req[q] \in RequestRecord
    BY Given
  <2>3. Tail(req[q].urls) \in UrlLists
    BY <2>1, <2>2, Fields, UrlFacts
  <2>4. /\ x \in RequestRecord /\ x.kind = req[q].kind /\ x.urls = Tail(req[q].urls)
        /\ x.refreshed = req[q].refreshed
    BY <2>2, <2>3 DEF RequestRecord, Answers
  <2> HIDE DEF x
  <2>5. Sound(x, expiries, password, style, present)
    <3>1. Sound(req[q], expiries, password, style, present)
      BY Given
    <3>2. CASE req[q].kind = "download"
      <4>1. /\ Tail(req[q].urls) \in DownloadLists
            /\ Head(Tail(req[q].urls)) \in {"item", "library"} \ {Head(req[q].urls)}
            /\ Head(req[q].urls) \in {"item", "library"}
        BY <2>1, <3>1, <3>2, UrlFacts DEF Sound
      <4>2. Head(Tail(req[q].urls)) # style => ~present
        BY <1>1, <2>1, <3>2, <4>1 DEF Told, IndInv, Typed
      <4> QED
        BY <2>4, <3>1, <3>2, <4>1, <4>2 DEF Sound
    <3>3. CASE req[q].kind = "file"
      <4>1. Tail(req[q].urls) \in FileLists /\ ~present
        BY <1>1, <2>1, <3>1, <3>3, UrlFacts DEF Sound, Told
      <4> QED
        BY <2>4, <3>1, <3>3, <4>1 DEF Sound
    <3>4. req[q].kind # "itemDownload"
      <4>1. req[q].kind = "itemDownload" => Len(req[q].urls) = 1
        BY <3>1 DEF Sound
      <4>2. \A n : n > 1 => n # 1
        OBVIOUS
      <4>3. Len(req[q].urls) # 1
        BY <2>1, <4>2, Zenon
      <4> QED
        BY <4>1, <4>3
    <3> QED
      BY <1>1, <2>1, <3>2, <3>3, <3>4 DEF Told, Downloads
  <2>6. x.refreshed => token # 0
    BY <2>4 DEF IndInv, Dropped
  <2> QED
    BY <1>1, <1>3, <2>1, <2>4, <2>5, <2>6, Given, EnsureStep DEF LoggingIn
<1>7. CASE Throw(q)
  <2> DEFINE x == Thrown(req[q], req[q].answer)
  <2>1. \/ x = IdleRequest
        \/ /\ x \in RequestRecord /\ x.pc = "backoff"
           /\ x.kind = req[q].kind /\ x.urls = req[q].urls
           /\ x.refreshed = req[q].refreshed /\ ~x.aborted
    BY Given, ThrownRecord
  <2>2. req' = [req EXCEPT ![q] = x] /\ UNCHANGED <<token, loginInFlight, template>>
    BY <1>7 DEF Throw
  <2> HIDE DEF x
  <2>3. CASE x = IdleRequest
    BY <1>1, <2>2, <2>3, Given, IdleRecord, IdleFine, MoveStep DEF LoggingIn, OnWire, Old
  <2>4. CASE x # IdleRequest
    <3>1. Sound(x, expiries, password, style, present)
      BY <2>1, <2>4, Given, SoundMoved
    <3>2. Fine(x, expiries, password, style, present) /\ ~Old(x)
      BY <2>1, <2>4, <3>1 DEF Fine, OnWire, Old
    <3> QED
      BY <1>1, <2>1, <2>2, <2>4, <3>2, Given, MoveStep DEF LoggingIn, OnWire
  <2> QED
    BY <2>3, <2>4
<1> QED
  BY <1>4, <1>5, <1>6, <1>7 DEF Receive

LEMMA BackoffOverStep ==
    ASSUME IndInv, NEW q \in Requests, BackoffOver(q)
    PROVE  IndInv'
<1>1. /\ req[q].pc = "backoff" /\ EnsureToken(q, req[q], token)
      /\ UNCHANGED <<server, cache, template, troubles>>
  BY DEF BackoffOver
<1>2. req[q].refreshed => token # 0 /\ \A p \in Requests : ~Old(req[p])
  BY DEF IndInv, Dropped
<1> QED
  BY <1>1, <1>2, Given, EnsureStep DEF LoggingIn

LEMMA AbortStep ==
    ASSUME IndInv, NEW q \in Requests, Abort(q)
    PROVE  IndInv'
<1>1. UNCHANGED <<server, cache, token, loginInFlight, template, troubles>>
  BY DEF Abort
<1>2. req[q] \in RequestRecord
  BY Given
<1>3. CASE Stops(req[q])
  <2>1. req' = [req EXCEPT ![q] = IdleRequest]
    BY <1>3 DEF Abort
  <2> QED
    BY <1>1, <1>3, <2>1, Given, IdleRecord, IdleFine, MoveStep
       DEF Stops, LoggingIn, OnWire, Old
<1>4. CASE ~Stops(req[q])
  <2> DEFINE x == [req[q] EXCEPT !.aborted = TRUE]
  <2>1. req' = [req EXCEPT ![q] = x] /\ req[q].pc # "idle"
    BY <1>4 DEF Abort
  <2>2. /\ x \in RequestRecord /\ x.pc = req[q].pc /\ x.kind = req[q].kind
        /\ x.urls = req[q].urls /\ x.bearer = req[q].bearer /\ x.answer = req[q].answer
        /\ x.refreshed = req[q].refreshed
    BY <1>2 DEF RequestRecord
  <2> HIDE DEF x
  <2>3. Sound(x, expiries, password, style, present)
    BY <2>2, Given, SoundMoved
  <2>4. Fine(x, expiries, password, style, present)
    <3>1. Fine(req[q], expiries, password, style, present)
      BY Given
    <3> QED
      BY <1>4, <2>1, <2>2, <2>3, <3>1 DEF Stops, Fine, OnWire, Told, ToldLogin
  <2>5. Old(x) => \A p \in Requests : req[p].pc \notin OnWire /\ ~req[p].refreshed
    BY <2>2 DEF Old, IndInv, Dropped
  <2> QED
    BY <1>1, <2>1, <2>2, <2>4, <2>5, Given, MoveStep
<1> QED
  BY <1>3, <1>4

\* What a served request is once the login has given it a token.
LEMMA ServedRecord ==
    ASSUME NEW x \in RequestRecord, NEW b \in Tokens
    PROVE  LET y == [Sent(x, b) EXCEPT !.answer = "none"]
           IN  \/ y = IdleRequest
               \/ /\ y \in RequestRecord /\ y.pc = "sent" /\ y.bearer = b
                  /\ y.kind = x.kind /\ y.urls = x.urls
                  /\ y.refreshed = x.refreshed /\ ~y.aborted
<1>1. CASE x.aborted
  <2>1. Sent(x, b) = IdleRequest
    BY <1>1 DEF Sent
  <2>2. [IdleRequest EXCEPT !.answer = "none"] = IdleRequest
    <3>1. \A r \in RequestRecord : r.answer = "none" => [r EXCEPT !.answer = "none"] = r
      BY DEF RequestRecord
    <3> QED
      BY <3>1, IdleRecord
  <2> QED
    BY <2>1, <2>2
<1>2. CASE ~x.aborted
  <2> DEFINE z == Sent(x, b)
  <2>1. /\ z \in RequestRecord /\ z.pc = "sent" /\ z.bearer = b
        /\ z.kind = x.kind /\ z.urls = x.urls
        /\ z.refreshed = x.refreshed /\ z.aborted = x.aborted
    BY <1>2, SentRecord
  <2> HIDE DEF z
  <2>2. LET y == [z EXCEPT !.answer = "none"]
        IN  /\ y \in RequestRecord /\ y.pc = "sent" /\ y.bearer = b
            /\ y.kind = x.kind /\ y.urls = x.urls
            /\ y.refreshed = x.refreshed /\ ~y.aborted
    BY <2>1, <1>2 DEF RequestRecord, Answers
  <2> QED
    BY <2>2 DEF z
<1> QED
  BY <1>1, <1>2

LEMMA LoginDoneStep ==
    ASSUME IndInv, NEW q \in Requests, LoginDone(q)
    PROVE  IndInv'
<1> DEFINE b == req[q].bearer
           y(p) == [Sent(req[p], b) EXCEPT !.answer = "none"]
<1>1. /\ req[q].pc = "loginReply" /\ req[q].answer = "ok" /\ token' = b
      /\ saving' = saving \cup {b} /\ loginInFlight' = None
      /\ req' = [p \in Requests |-> IF p \in Served(q) THEN y(p) ELSE req[p]]
      /\ UNCHANGED <<password, style, permits, present, expiries, kept, template, troubles>>
  BY DEF LoginDone, server
<1>2. b \in Nat /\ b <= expiries /\ b \in Tokens
  <2>1. b \in Nat /\ b <= expiries
    BY <1>1, Given DEF Fine, ToldLogin
  <2> QED
    BY <2>1, Given, AbsClientAssumption DEF Tokens
<1>3. loginInFlight = q /\ token = None
  BY <1>1, Given DEF IndInv, One, LoggingIn
<1>4. ASSUME NEW p \in Requests, p \in Served(q)
      PROVE  \/ y(p) = IdleRequest
             \/ /\ y(p) \in RequestRecord /\ y(p).pc = "sent" /\ y(p).bearer = b
                /\ y(p).kind = req[p].kind /\ y(p).urls = req[p].urls
                /\ y(p).refreshed = req[p].refreshed /\ ~y(p).aborted
  <2>1. req[p] \in RequestRecord
    BY Given
  <2> HIDE DEF b
  <2> QED
    BY <1>2, <2>1, ServedRecord
<1>5. \A p \in Requests : req'[p] = IF p \in Served(q) THEN y(p) ELSE req[p]
  BY <1>1
<1> HIDE DEF y
<1>6. ASSUME NEW p \in Requests, req[p].refreshed PROVE b >= 1
  <2>1. ~Old(req[q])
    BY <1>6 DEF IndInv, Dropped
  <2> QED
    BY <1>1, <1>2, <2>1 DEF Old
<1>7. ASSUME NEW p \in Requests
      PROVE  /\ req'[p] \in RequestRecord
             /\ Fine(req'[p], expiries, password, style, present)
             /\ req'[p].refreshed => req[p].refreshed
             /\ req'[p].pc \notin LoggingIn
  <2> USE DEF OnWire, LoggingIn
  <2>0. Sound(req[p], expiries, password, style, present)
    BY Given
  <2>1. CASE p \in Served(q) /\ y(p) = IdleRequest
    BY <2>1, <1>5, IdleFine, IdleRecord
  <2>2. CASE p \in Served(q) /\ y(p) # IdleRequest
    <3>1. Sound(y(p), expiries, password, style, present)
      BY <2>0, <2>2, <1>4, SoundMoved
    <3>2. Fine(y(p), expiries, password, style, present)
      BY <3>1, <2>2, <1>2, <1>4, <1>6 DEF Fine
    <3> QED
      BY <3>2, <2>2, <1>4, <1>5
  <2>3. CASE p \notin Served(q)
    <3>1. p # q /\ req'[p] = req[p]
      BY <2>3, <1>5 DEF Served
    <3>2. req[p].pc \notin LoggingIn
      BY <3>1, <1>3 DEF IndInv, One
    <3> QED
      BY <3>1, <3>2, Given
  <2> QED
    BY <2>1, <2>2, <2>3
<1>8. Typed'
  <2>1. req' \in [Requests -> RequestRecord]
    BY <1>1, <1>5, <1>7
  <2> QED
    BY <1>1, <1>2, <2>1 DEF IndInv, Typed
<1>9. AllFine'
  BY <1>1, <1>7, FinePrime
<1>10. One'
  <2>1. None \notin Requests
    BY AbsClientAssumption
  <2> QED
    BY <1>1, <1>7, <2>1 DEF One
<1>11. Issued'
  BY <1>1, <1>2 DEF IndInv, Issued
<1>12. Dropped'
  <2>1. \A p, r \in Requests : Old(req'[p]) => req'[r].pc \notin OnWire /\ ~req'[r].refreshed
    BY <1>7 DEF Old, LoggingIn
  <2>2. \A p \in Requests : req'[p].refreshed => token' # 0
    BY <1>1, <1>2, <1>6, <1>7
  <2>3. \A p \in Requests : req'[p].pc \in OnWire /\ token' = None => expiries' >= 1
    BY <1>1, <1>2, AbsClientAssumption
  <2> QED
    BY <2>1, <2>2, <2>3, OldPrime
<1> QED
  BY <1>8, <1>9, <1>10, <1>11, <1>12 DEF IndInv

LEMMA LoginFailedStep ==
    ASSUME IndInv, NEW q \in Requests, LoginFailed(q)
    PROVE  IndInv'
<1> DEFINE error == req[q].answer
           again == {p \in Served(q) : MayRefresh(req[p], error)}
           y(p, leader) == [Refreshing(req[p]) EXCEPT !.pc = IF p = leader THEN "login"
                                                             ELSE "await"]
           z(p) == Thrown(req[p], error)
<1>1. /\ req[q].pc = "loginReply" /\ error # "ok"
      /\ token' = IF again = {} THEN token ELSE None
      /\ UNCHANGED <<password, style, permits, present, expiries, kept, saving, template,
                     troubles>>
  BY DEF LoginFailed, server, cache
<1>2. PICK leader \in IF again = {} THEN {None} ELSE again :
        /\ loginInFlight' = leader
        /\ req' = [p \in Requests |-> CASE p \in again -> y(p, leader)
                                        [] p \in Served(q) \ again -> z(p)
                                        [] OTHER -> req[p]]
  BY DEF LoginFailed
<1>3. loginInFlight = q /\ token = None /\ token' = None
  BY <1>1, Given DEF IndInv, One, LoggingIn
<1>4. ToldLogin(req[q], expiries, password)
  BY <1>1, Given DEF Fine
<1>5. again \subseteq Requests /\ Served(q) \subseteq Requests /\ again \subseteq Served(q)
  BY DEF Served
<1>6. ASSUME NEW p \in again
      PROVE  /\ y(p, leader) \in RequestRecord
             /\ y(p, leader).pc = IF p = leader THEN "login" ELSE "await"
             /\ y(p, leader).kind = req[p].kind /\ y(p, leader).urls = req[p].urls
             /\ req[p].kind = "json" /\ ~password
  <2>1. req[p] \in RequestRecord
    BY <1>5, Given
  <2>2. req[p].kind = "json" /\ ~password
    BY <1>4 DEF MayRefresh, Refusals, ToldLogin
  <2> DEFINE r == Refreshing(req[p])
             at == IF p = leader THEN "login" ELSE "await"
  <2>3. r \in RequestRecord /\ r.kind = req[p].kind /\ r.urls = req[p].urls
    BY <2>1, RefreshingRecord
  <2>4. at \in Pcs
    BY DEF Pcs
  <2> HIDE DEF r, at
  <2>5. LET w == [r EXCEPT !.pc = at]
        IN  w \in RequestRecord /\ w.pc = at /\ w.kind = r.kind /\ w.urls = r.urls
    BY <2>3, <2>4 DEF RequestRecord
  <2> QED
    BY <2>2, <2>3, <2>5 DEF r, at
<1>7. ASSUME NEW p \in Requests
      PROVE  \/ z(p) = IdleRequest
             \/ /\ z(p) \in RequestRecord /\ z(p).pc = "backoff"
                /\ z(p).kind = req[p].kind /\ z(p).urls = req[p].urls
                /\ z(p).refreshed = req[p].refreshed /\ ~z(p).aborted
  <2>1. req[p] \in RequestRecord
    BY Given
  <2> HIDE DEF error
  <2> QED
    BY <2>1, ThrownRecord
<1>8. \A p \in Requests :
        /\ p \in again => req'[p] = y(p, leader)
        /\ p \in Served(q) \ again => req'[p] = z(p)
        /\ p \notin Served(q) => req'[p] = req[p]
  <2> HIDE DEF again, y, z
  <2> QED
    BY <1>2, <1>5
<1>9. leader \in again \/ (again = {} /\ leader = None)
  <2> HIDE DEF again
  <2> QED
    BY <1>2
<1> HIDE DEF again, y, z
<1>10. ASSUME NEW p \in Requests
       PROVE  /\ req'[p] \in RequestRecord
              /\ Fine(req'[p], expiries, password, style, present)
              /\ req'[p].pc \in LoggingIn <=> p = leader
              /\ ~Old(req'[p])
              /\ req'[p].pc \in OnWire => req[p].pc \in OnWire
  <2> USE DEF OnWire, LoggingIn, Old
  <2>0. Sound(req[p], expiries, password, style, present) /\ None \notin Requests
    BY Given
  <2>1. CASE p \in again
    <3>1. /\ req'[p] \in RequestRecord
          /\ req'[p].pc = IF p = leader THEN "login" ELSE "await"
          /\ req'[p].kind = req[p].kind /\ req'[p].urls = req[p].urls
          /\ req[p].kind = "json" /\ ~password
      BY <2>1, <1>6, <1>8
    <3>2. Sound(req'[p], expiries, password, style, present)
      BY <3>1, <2>0 DEF Sound
    <3>3. Fine(req'[p], expiries, password, style, present)
      BY <3>1, <3>2 DEF Fine
    <3> QED
      BY <3>1, <3>3
  <2>2. CASE p \in Served(q) \ again /\ z(p) = IdleRequest
    BY <2>0, <2>2, <1>8, <1>9, IdleFine, IdleRecord
  <2>3. CASE p \in Served(q) \ again /\ z(p) # IdleRequest
    <3>1. /\ req'[p] \in RequestRecord /\ req'[p].pc = "backoff"
          /\ req'[p].kind = req[p].kind /\ req'[p].urls = req[p].urls
          /\ req'[p].refreshed = req[p].refreshed /\ ~req'[p].aborted
      BY <2>3, <1>7, <1>8
    <3>2. Sound(req'[p], expiries, password, style, present)
      BY <3>1, <2>0, SoundMoved
    <3>3. Fine(req'[p], expiries, password, style, present)
      BY <3>1, <3>2 DEF Fine
    <3> QED
      BY <3>1, <3>3, <2>0, <2>3, <1>9
  <2>4. CASE p \notin Served(q)
    <3>1. p # q /\ req'[p] = req[p] /\ p # leader
      BY <2>0, <2>4, <1>5, <1>8, <1>9 DEF Served
    <3>2. req[p].pc \notin LoggingIn
      BY <3>1, <1>3 DEF IndInv, One
    <3> QED
      BY <3>1, <3>2, Given
  <2> QED
    BY <2>1, <2>2, <2>3, <2>4
<1>11. Typed'
  <2>1. req' \in [Requests -> RequestRecord]
    <3>1. req' = [p \in Requests |-> req'[p]]
      BY <1>2
    <3> QED
      BY <3>1, <1>10
  <2>2. loginInFlight' \in Requests \cup {None}
    BY <1>2, <1>5, <1>9
  <2> QED
    BY <1>1, <1>3, <2>1, <2>2 DEF IndInv, Typed
<1>12. AllFine'
  BY <1>1, <1>10, FinePrime
<1>13. One'
  <2>1. \A p \in Requests : req'[p].pc \in LoggingIn <=> loginInFlight' = p
    BY <1>2, <1>10
  <2> QED
    BY <1>3, <2>1 DEF One
<1>14. Issued'
  BY <1>1, <1>3 DEF IndInv, Issued
<1>15. Dropped'
  <2>1. \A p, r \in Requests : Old(req'[p]) => req'[r].pc \notin OnWire /\ ~req'[r].refreshed
    BY <1>10
  <2>2. token' # 0
    BY <1>3, Given
  <2>3. \A p \in Requests : req'[p].pc \in OnWire /\ token' = None => expiries' >= 1
    BY <1>1, <1>3, <1>10 DEF IndInv, Dropped
  <2> QED
    BY <2>1, <2>2, <2>3, OldPrime
<1> QED
  BY <1>11, <1>12, <1>13, <1>14, <1>15 DEF IndInv

LEMMA QuietStep ==
    ASSUME IndInv, UNCHANGED <<password, style, permits, present, req, loginInFlight, troubles>>,
           expiries' \in Tokens, expiries' >= expiries,
           kept' \in Tokens \cup {None}, saving' \subseteq Tokens,
           token' \in Tokens \cup {None}, template' \in {"item", "library", None},
           Issued', token' = token \/ \A q \in Requests : req[q] = IdleRequest
    PROVE  IndInv'
<1>1. Typed'
  BY DEF IndInv, Typed
<1>2. AllFine'
  <2>1. ASSUME NEW p \in Requests
        PROVE  Fine(req'[p], expiries', password', style', present')
    <3>1. /\ Fine(req[p], expiries, password, style, present) /\ req'[p] = req[p]
          /\ password' = password /\ style' = style /\ present' = present
          /\ expiries \in Nat /\ expiries' \in Nat
          /\ req[p].bearer \in Tokens \cup {None}
      BY Given, Fields DEF Tokens
    <3>2. Sound(req[p], expiries', password, style, present)
      BY <3>1 DEF Fine, Sound
    <3>3. req[p].pc \in OnWire =>
            /\ req[p].bearer \in Nat /\ req[p].bearer <= expiries'
            /\ req[p].refreshed => req[p].bearer >= 1
      BY <3>1 DEF Fine
    <3>4. req[p].pc = "reply" => Told(req[p], expiries', password, style, present)
      BY <3>1 DEF Fine, Told, OnWire
    <3>5. req[p].pc = "loginReply" => ToldLogin(req[p], expiries', password)
      BY <3>1 DEF Fine, ToldLogin
    <3> QED
      BY <3>1, <3>2, <3>3, <3>4, <3>5 DEF Fine
  <2> QED
    BY <2>1, FinePrime
<1>3. CASE token' = token
  <2>1. One'
    BY <1>3 DEF IndInv, One
  <2>2. Dropped'
    <3>1. \A q \in Requests : req[q].pc \in OnWire /\ token = None => expiries' >= 1
      BY DEF IndInv, Dropped, Typed, Tokens
    <3> QED
      BY <1>3, <3>1 DEF IndInv, Dropped, Old
  <2> QED
    BY <1>1, <1>2, <2>1, <2>2 DEF IndInv
<1>4. CASE \A q \in Requests : req[q] = IdleRequest
  <2>1. One'
    <3>1. loginInFlight = None
      BY <1>4, IdleRecord DEF IndInv, One, Typed, LoggingIn
    <3> QED
      BY <1>4, <3>1, IdleRecord, AbsClientAssumption DEF IndInv, One, LoggingIn
  <2>2. Dropped'
    BY <1>4, IdleRecord DEF Dropped, Old, OnWire
  <2> QED
    BY <1>1, <1>2, <2>1, <2>2 DEF IndInv
<1> QED
  BY <1>3, <1>4

LEMMA SaveTokenStep ==
    ASSUME IndInv, NEW t \in Tokens, SaveToken(t)
    PROVE  IndInv'
<1>1. Issued'
  BY DEF IndInv, Issued, SaveToken, server
<1> QED
  BY <1>1, QuietStep, AbsClientAssumption DEF IndInv, Typed, SaveToken, server, Tokens

LEMMA NewClientStep ==
    ASSUME IndInv, NewClient
    PROVE  IndInv'
<1>1. Issued'
  BY DEF IndInv, Issued, NewClient, server, cache
<1>2. \A q \in Requests : req[q] = IdleRequest
  BY Given DEF NewClient, Fine
<1> QED
  BY <1>1, <1>2, QuietStep, AbsClientAssumption
     DEF IndInv, Typed, NewClient, server, cache, Tokens

LEMMA ExpireStep ==
    ASSUME IndInv, Expire
    PROVE  IndInv'
<1>1. expiries \in Nat /\ expiries' = expiries + 1 /\ expiries' \in Tokens
  BY AbsClientAssumption DEF IndInv, Typed, Expire, Tokens
<1>2. Issued'
  BY <1>1 DEF IndInv, Issued, Typed, Tokens, Expire, cache
<1> QED
  BY <1>1, <1>2, QuietStep DEF IndInv, Typed, Expire, cache

LEMMA IndInvStep == IndInv /\ [Next]_vars => IndInv'
<1> SUFFICES ASSUME IndInv, [Next]_vars PROVE IndInv'
  OBVIOUS
<1>1. ASSUME NEW q \in Requests, NEW kind \in Kinds, Ask(q, kind) PROVE IndInv'
  BY <1>1, AskStep
<1>2. ASSUME NEW q \in Requests, RequestStep(q) PROVE IndInv'
  BY <1>2, ServeLoginStep, LoginDoneStep, LoginFailedStep, ServeStep, ReceiveStep,
     BackoffOverStep DEF RequestStep
<1>3. ASSUME NEW q \in Requests, Troubled(q) \/ Abort(q) PROVE IndInv'
  BY <1>3, TroubledStep, AbortStep
<1>4. ASSUME NEW t \in Tokens, SaveToken(t) PROVE IndInv'
  BY <1>4, SaveTokenStep
<1>5. CASE NewClient
  BY <1>5, NewClientStep
<1>6. CASE Expire
  BY <1>6, ExpireStep
<1>7. CASE UNCHANGED vars
  <2>1. UNCHANGED <<password, style, permits, present, expiries, kept, saving, token,
                    loginInFlight, template, req, troubles>>
    BY <1>7 DEF vars, server, cache
  <2>2. Issued'
    BY <2>1 DEF IndInv, Issued
  <2>3. expiries' >= expiries
    BY <2>1 DEF IndInv, Typed, Tokens
  <2> QED
    BY <2>1, <2>2, <2>3, QuietStep DEF IndInv, Typed
<1> QED
  BY <1>1, <1>2, <1>3, <1>4, <1>5, <1>6, <1>7 DEF Next

LEMMA Invariance == Spec => []IndInv
  BY InitHolds, IndInvStep, PTL DEF Spec
-----------------------------------------------------------------------------
\* Requests, logins and tokens keep their types, with a retry counter within its limit.
THEOREM ClientTypesHold == Spec => []TypeOK
<1>1. IndInv => TypeOK
  BY TypeSplit DEF IndInv
<1> QED
  BY <1>1, Invariance, PTL

\* However many requests share the client, one login at most is under way (loginInFlight in
\* ensureToken).
THEOREM OneLoginHolds == Spec => []OneLogin
<1>1. IndInv => OneLogin
  <2> SUFFICES ASSUME IndInv PROVE OneLogin
    OBVIOUS
  <2> DEFINE S == {q \in Requests : req[q].pc \in {"login", "loginReply"}}
  <2>1. \A q \in S : loginInFlight = q
    BY DEF IndInv, One, LoggingIn
  <2>2. S = {} \/ S = {loginInFlight}
    BY <2>1
  <2>3. Cardinality({}) = 0
    BY FS_EmptySet
  <2>4. Cardinality({loginInFlight}) = 1
    BY FS_Singleton
  <2> HIDE DEF S
  <2>5. Cardinality(S) <= 1
    BY <2>2, <2>3, <2>4
  <2> QED
    BY <2>5 DEF S, OneLogin
<1> QED
  BY <1>1, Invariance, PTL

\* What ends a request with its error: the error thrown, of the first URL that is left.
LEMMA FailsThrows ==
    ASSUME IndInv, NEW q \in Requests, NEW answer, answer # "ok", Fails(q, answer)
    PROVE  /\ req[q].pc = "reply" /\ req[q].answer = answer /\ ~req[q].aborted
           /\ ~MayRefresh(req[q], answer) /\ ~MayTryNext(req[q])
<1>1. req[q].pc = "reply" /\ req[q].answer = answer /\ ~req[q].aborted /\ req'[q].pc = "idle"
  BY DEF Fails, Receive
<1>2. req[q] \in RequestRecord /\ req \in [Requests -> RequestRecord]
  BY Given
<1>3. ~Accept(q)
  BY <1>1 DEF Accept
<1>4. ~Refresh(q)
  <2> SUFFICES ASSUME Refresh(q) PROVE FALSE
    OBVIOUS
  <2>1. PICK at \in {"await", "login"} :
          req' = [req EXCEPT ![q] = [Refreshing(req[q]) EXCEPT !.pc = at]]
    BY DEF Refresh, EnsureToken
  <2>2. Refreshing(req[q]) \in RequestRecord /\ at \in Pcs
    BY <1>2, RefreshingRecord DEF Pcs
  <2> DEFINE r == Refreshing(req[q])
  <2>3. req'[q] = [r EXCEPT !.pc = at]
    BY <1>2, <2>1
  <2> HIDE DEF r
  <2>4. [r EXCEPT !.pc = at].pc = at
    BY <2>2, PlacedRecord DEF r
  <2> QED
    BY <1>1, <2>3, <2>4
<1>5. ~TryNext(q)
  <2> SUFFICES ASSUME TryNext(q) PROVE FALSE
    OBVIOUS
  <2> DEFINE x == [req[q] EXCEPT !.urls = Tail(@), !.bearer = None, !.answer = "none"]
  <2>1. EnsureToken(q, x, token) /\ Len(req[q].urls) > 1
    BY DEF TryNext, MayTryNext
  <2>2. x \in RequestRecord /\ ~x.aborted
    <3>1. Tail(req[q].urls) \in UrlLists
      BY <1>2, <2>1, Fields, UrlFacts
    <3> QED
      BY <1>1, <1>2, <3>1 DEF RequestRecord, Answers
  <2> HIDE DEF x
  <2>3. PICK y : req' = [req EXCEPT ![q] = y] /\ y.pc \in {"sent", "await", "login"}
    <3>1. CASE token # None /\ req' = [req EXCEPT ![q] = Sent(x, token)]
      <4>1. token \in Tokens
        BY <3>1, Given
      <4>2. Sent(x, token).pc = "sent"
        BY <2>2, <4>1, SentRecord
      <4> QED
        BY <3>1, <4>2
    <3>2. \A at \in Pcs : [x EXCEPT !.pc = at].pc = at
      BY <2>2, PlacedRecord
    <3>3. {"await", "login"} \subseteq Pcs
      BY DEF Pcs
    <3> QED
      BY <2>1, <3>1, <3>2, <3>3 DEF EnsureToken
  <2> QED
    BY <1>1, <1>2, <2>3
<1>6. Throw(q)
  BY <1>3, <1>4, <1>5 DEF Fails, Receive
<1> QED
  BY <1>1, <1>6 DEF Throw

\* The tokens expiring once costs no JSON request its answer (request's second attempt and
\* the token it drops): it fails for its token only after they have expired twice.
THEOREM SurvivesExpiryHolds == Spec => SurvivesExpiry
<1>1. ASSUME IndInv, NEW q \in Requests, Fails(q, "unauthorized"), req[q].kind = "json"
      PROVE  expiries > 1
  <2>1. /\ req[q].pc = "reply" /\ req[q].answer = "unauthorized" /\ ~req[q].aborted
        /\ ~MayRefresh(req[q], "unauthorized")
    BY <1>1, FailsThrows
  <2>2. req[q].refreshed
    BY <1>1, <2>1 DEF MayRefresh, Refusals
  <2>3. /\ req[q].bearer \in Nat /\ req[q].bearer >= 1 /\ req[q].bearer < expiries
        /\ expiries \in Nat
    BY <1>1, <2>1, <2>2, Given DEF Fine, OnWire, Told
  <2> QED
    BY <2>3
<1>2. IndInv => \A q \in Requests :
        Fails(q, "unauthorized") /\ req[q].kind = "json" => expiries > 1
  BY <1>1
<1> QED
  BY <1>2, Invariance, PTL DEF SurvivesExpiry

\* A download or a file is only told that there is nothing when there is nothing, whichever
\* URLs the server knows and whatever order they are tried in (downloadPaths, 404 and 405);
\* but for the download without the library's id, which has one URL, of a server that does
\* not know that one.
THEOREM DownloadFindsHolds == Spec => DownloadFinds
<1>1. ASSUME IndInv, NEW q \in Requests, Fails(q, "missing")
      PROVE  ~present \/ (req[q].kind = "itemDownload" /\ style = "library")
  <2>1. /\ req[q].pc = "reply" /\ req[q].answer = "missing" /\ ~MayTryNext(req[q])
    BY <1>1, FailsThrows
  <2>2. Told(req[q], expiries, password, style, present)
        /\ Sound(req[q], expiries, password, style, present)
    BY <1>1, <2>1, Given DEF Fine
  <2>3. CASE req[q].kind = "file"
    BY <2>1, <2>2, <2>3 DEF Told
  <2>4. CASE req[q].kind = "download"
    <3>1. Len(req[q].urls) = 1
      BY <2>1, <2>2, <2>4, UrlFacts DEF Sound, MayTryNext
    <3> QED
      BY <2>1, <2>2, <2>4, <3>1 DEF Sound, Told
  <2>5. CASE req[q].kind = "itemDownload"
    <3>1. style \in {"item", "library"}
      BY <1>1 DEF IndInv, Typed
    <3> QED
      BY <2>1, <2>2, <2>5, <3>1 DEF Told
  <2> QED
    BY <2>1, <2>2, <2>3, <2>4, <2>5 DEF Told, Downloads
<1>2. IndInv => \A q \in Requests :
        Fails(q, "missing") => ~present \/ (req[q].kind = "itemDownload" /\ style = "library")
  BY <1>1
<1> QED
  BY <1>2, Invariance, PTL DEF DownloadFinds

-----------------------------------------------------------------------------
(***************************************************************************)
(* The upload: there is no head without a settled promise, so that what    *)
(* comes after the head has nothing to settle.                             *)
(***************************************************************************)
HeadSettles == UploadTypeOK /\ (head # "none" => Settled)

\* Every event keeps it.
LEMMA HeadStep == HeadSettles /\ [UploadNext]_uploadVars => HeadSettles'
<1> SUFFICES ASSUME HeadSettles, [UploadNext]_uploadVars PROVE HeadSettles'
  OBVIOUS
<1> USE DEF HeadSettles, UploadTypeOK, Settled
<1>1. CASE Continue \/ ContinueTimeout
  BY <1>1 DEF Continue, ContinueTimeout, StartBody, Settled
<1>2. CASE BodySent \/ SourceFails \/ Destroy
  BY <1>2 DEF BodySent, SourceFails, Destroy
<1>3. ASSUME NEW kind \in {"answer", "redirect"}, Response(kind)
      PROVE  HeadSettles'
  BY <1>3 DEF Response, Finish
<1>4. CASE Collect \/ CollectFails
  BY <1>4 DEF Collect, CollectFails
<1>5. CASE ErrorEvent
  BY <1>5 DEF ErrorEvent, Finish
<1>6. CASE PipelineRejects
  BY <1>6 DEF PipelineRejects, Finish
<1>7. CASE UNCHANGED uploadVars
  BY <1>7 DEF uploadVars
<1> QED
  BY <1>1, <1>2, <1>3, <1>4, <1>5, <1>6, <1>7 DEF UploadNext

\* It is always so.
LEMMA HeadAlways == UploadSpec => []HeadSettles
<1>1. UploadInit => HeadSettles
  BY DEF UploadInit, HeadSettles, UploadTypeOK
<1> QED
  BY <1>1, HeadStep, PTL DEF UploadSpec

\* Types of the upload.
THEOREM UploadTypesHold == UploadSpec => []UploadTypeOK
<1>1. HeadSettles => UploadTypeOK
  BY DEF HeadSettles
<1> QED
  BY <1>1, HeadAlways, PTL

\* A server that has answered is heard: of all events only the answer's own breaking off,
\* on a connection that is gone, can still reject (collectResponse in node-upload.ts).
THEOREM AnswerToldHolds == UploadSpec => AnswerTold
<1> DEFINE Heard == (head = "answer" /\ promise' = "rejected" /\ promise # "rejected") =>
                       promise = "collecting" /\ socket # "open"
<1>1. HeadSettles /\ [UploadNext]_uploadVars => [Heard]_uploadVars
  <2> SUFFICES ASSUME HeadSettles, UploadNext, head = "answer", promise' = "rejected",
                      promise # "rejected"
               PROVE  promise = "collecting" /\ socket # "open"
    OBVIOUS
  <2>1. Settled
    BY DEF HeadSettles
  <2>2. UNCHANGED promise \/ CollectFails \/ Collect
    BY <2>1 DEF UploadNext, Continue, ContinueTimeout, BodySent, SourceFails, Destroy,
                Response, ErrorEvent, PipelineRejects, Finish
  <2> QED
    BY <2>2 DEF Collect, CollectFails
<1> QED
  BY <1>1, HeadAlways, PTL DEF UploadSpec, AnswerTold
-----------------------------------------------------------------------------
(***************************************************************************)
(* The spool: the listing, and what the attempts make of it.               *)
(***************************************************************************)
\* Of some numbers one is the least.
LEMMA Least ==
    ASSUME NEW T \in SUBSET Nat, T # {}
    PROVE  \E m \in T : \A n \in T : m <= n
<1> DEFINE R == StrictSubsetOrdering(Nat)
           F == FiniteSubsetsOf(Nat)
           Below == {0..n : n \in T}
<1>1. IsWellFoundedOn(R, F)
  BY FS_StrictSubsetOrderingWellFounded
<1>2. \A n \in Nat : 0..n \in F
  <2>1. ASSUME NEW n \in Nat PROVE IsFiniteSet(0..n)
    <3>1. 0 \in Int /\ n \in Int
      OBVIOUS
    <3> QED
      BY <3>1, FS_Interval
  <2> QED
    BY <2>1 DEF FiniteSubsetsOf
<1>3. Below \subseteq F /\ Below # {}
  <2> HIDE DEF F
  <2> QED
    BY <1>2
<1>4. \A m, n \in Nat : n < m => <<0..n, 0..m>> \in R
  <2> SUFFICES ASSUME NEW m \in Nat, NEW n \in Nat, n < m PROVE <<0..n, 0..m>> \in R
    OBVIOUS
  <2>1. 0..n \subseteq 0..m /\ 0..n # 0..m /\ 0..m \subseteq Nat
    <3>1. m \in 0..m /\ m \notin 0..n
      OBVIOUS
    <3> QED
      BY <3>1
  <2> QED
    BY <2>1 DEF StrictSubsetOrdering
<1> HIDE DEF R, F
<1>5. PICK x \in Below : \A y \in Below : ~ (<<y, x>> \in R)
  <2> HIDE DEF Below
  <2> QED
    BY <1>1, <1>3, WFMin
<1>6. PICK m \in T : x = 0..m
  BY <1>5
<1>7. \A n \in T : m <= n
  <2>1. ASSUME NEW n \in T PROVE m <= n
    <3>1. 0..n \in Below
      OBVIOUS
    <3>2. ~ (<<0..n, 0..m>> \in R)
      BY <3>1, <1>5, <1>6
    <3> QED
      BY <3>2, <1>4
  <2> QED
    BY <2>1
<1> QED
  BY <1>7


Step(listed, made, n) ==
    IF n = 0 THEN <<>>
    ELSE IF listed[n].kind \in TRANSFERABLE
         THEN Append(made[n - 1], listed[n]) ELSE made[n - 1]

\* The list that is built step by step exists: a least length without one would have a
\* predecessor.
LEMMA StepByStep ==
    ASSUME NEW listed, NEW n \in Nat
    PROVE  \E made : made = [k \in 0..n |-> Step(listed, made, k)]
<1> DEFINE P(k) == \E made : made = [i \in 0..k |-> Step(listed, made, i)]
           Wrong == {k \in Nat : ~P(k)}
<1> SUFFICES Wrong = {}
  OBVIOUS
<1> SUFFICES ASSUME Wrong # {} PROVE FALSE
  OBVIOUS
<1>1. PICK m \in Wrong : \A k \in Wrong : m <= k
  <2>1. Wrong \in SUBSET Nat
    OBVIOUS
  <2> HIDE DEF Wrong
  <2> QED
    BY <2>1, Least
<1>2. m \in Nat /\ ~P(m)
  BY <1>1
<1>3. P(0)
  <2> DEFINE made == [i \in 0..0 |-> <<>>]
  <2>1. made = [i \in 0..0 |-> Step(listed, made, i)]
    <3>1. \A i \in 0..0 : Step(listed, made, i) = <<>>
      BY DEF Step
    <3> QED
      BY <3>1
  <2> QED
    BY <2>1
<1>4. m - 1 \in Nat /\ P(m - 1)
  <2>1. m # 0
    <3> HIDE DEF P
    <3> QED
      BY <1>2, <1>3
  <2>2. m - 1 \in Nat /\ ~(m <= m - 1)
    BY <1>2, <2>1
  <2>3. m - 1 \notin Wrong
    <3> HIDE DEF Wrong
    <3> QED
      BY <1>1, <2>2
  <2> HIDE DEF P
  <2> QED
    BY <2>2, <2>3
<1>5. PICK made : made = [i \in 0..(m - 1) |-> Step(listed, made, i)]
  BY <1>4
<1> DEFINE more == [i \in 0..m |-> IF i = m THEN Step(listed, made, m) ELSE made[i]]
<1>6. \A i \in 0..m : i # m => i \in 0..(m - 1)
  BY <1>2
<1>7. \A i \in 0..m : Step(listed, more, i) = Step(listed, made, i)
  <2>1. ASSUME NEW i \in 0..m, i # 0
        PROVE  more[i - 1] = made[i - 1]
    BY <2>1, <1>2
  <2> HIDE DEF more
  <2> QED
    BY <2>1 DEF Step
<1>8. more = [i \in 0..m |-> Step(listed, more, i)]
  <2>1. \A i \in 0..m : more[i] = Step(listed, made, i)
    <3>1. ASSUME NEW i \in 0..m, i # m
          PROVE  made[i] = Step(listed, made, i)
      BY <3>1, <1>5, <1>6
    <3> QED
      BY <3>1
  <2>2. more = [i \in 0..m |-> more[i]]
    OBVIOUS
  <2> HIDE DEF more
  <2> QED
    BY <2>1, <2>2, <1>7
<1>9. P(m)
  <2> HIDE DEF more
  <2> QED
    BY <1>8
<1> QED
  BY <1>2, <1>9

OneEach(list) == \A m, n \in DOMAIN list : list[m].ino = list[n].ino => m = n

\* What an item's listing is.
LEMMA ListingFacts ==
    ASSUME NEW i \in Items
    PROVE  /\ Listing(i) \in Seq(ToSet(Listing(i))) /\ OneEach(Listing(i))
           /\ \A f \in ToSet(Listing(i)) :
                /\ IsFile(f)
                /\ Serves(i, f.ino) # {}
           /\ \A a \in ToSet(i.audio) :
                \/ a \in Unfetchable(i)
                \/ \E f \in ToSet(Listing(i)) : f.name = a.name /\ f.kind = "audio"
                \/ \E f \in ToSet(i.files) : f.name = a.name /\ f.kind = "other"
<1>1. /\ i.files \in Seq(ToSet(i.files)) /\ i.audio \in Seq(ToSet(i.audio))
      /\ OneEach(i.files) /\ OneEach(i.audio)
      /\ \A f \in ToSet(i.files) \cup ToSet(i.audio) : IsFile(f)
  BY SpoolAssumption DEF OneEach
<1>2. \A a \in ToSet(i.audio) :
         /\ a.kind = "audio"
         /\ \A f \in ToSet(i.files) :
              /\ f.ino = a.ino => f.name = a.name
              /\ f.ino = a.ino \/ f.name = a.name => f.kind \in {"audio", "other"}
  BY SpoolAssumption
<1>3. CASE i.files = <<>>
  <2>1. Listing(i) = i.audio
    BY <1>3 DEF Listing
  <2>2. \A f \in ToSet(i.audio) : f \in Serves(i, f.ino)
    BY <1>3 DEF Serves
  <2> QED
    BY <1>1, <1>2, <2>1, <2>2
<1>4. CASE i.files # <<>>
  <2> DEFINE l == Listing(i)
  <2>1. l = FromLibrary(i)
    BY <1>4 DEF Listing
  <2>2. DOMAIN l = DOMAIN i.files
    BY <2>1 DEF FromLibrary
  <2>3. ASSUME NEW n \in DOMAIN i.files
        PROVE  /\ IsFile(l[n]) /\ l[n].ino = i.files[n].ino /\ l[n].name = i.files[n].name
               /\ i.files[n].kind # "other" => l[n].kind = i.files[n].kind
               /\ (\E a \in ToSet(i.audio) : a.ino = i.files[n].ino)
                     => l[n].kind = "audio"
    <3> DEFINE f == i.files[n]
    <3>1. l[n] = IF f.kind = "other" /\ \E a \in ToSet(i.audio) : a.ino = f.ino
                 THEN [f EXCEPT !.kind = "audio"] ELSE f
      BY <2>1 DEF FromLibrary
    <3>2. f \in ToSet(i.files)
      BY DEF ToSet
    <3>3. f \in [ino : {f.ino}, name : {f.name}, size : Nat, told : BOOLEAN, kind : FileKinds]
      BY <1>1, <3>2 DEF IsFile
    <3>4. (\E a \in ToSet(i.audio) : a.ino = f.ino) => f.kind \in {"audio", "other"}
      BY <1>2, <3>2
    <3> HIDE DEF f, l
    <3>5. CASE f.kind = "other" /\ \E a \in ToSet(i.audio) : a.ino = f.ino
      <4>1. l[n] = [f EXCEPT !.kind = "audio"]
        BY <3>1, <3>5
      <4>2. /\ l[n].ino = f.ino /\ l[n].name = f.name /\ l[n].kind = "audio"
            /\ l[n] \in [ino : {f.ino}, name : {f.name}, size : Nat, told : BOOLEAN,
                         kind : FileKinds]
        BY <4>1, <3>3 DEF FileKinds
      <4> QED
        BY <3>5, <4>2 DEF IsFile, f
    <3>6. CASE ~(f.kind = "other" /\ \E a \in ToSet(i.audio) : a.ino = f.ino)
      <4>1. l[n] = f
        BY <3>1, <3>6
      <4> QED
        BY <3>3, <3>4, <3>6, <4>1 DEF IsFile, f
    <3> QED
      BY <3>5, <3>6
  <2>4. DOMAIN i.files = 1..Len(i.files) /\ Len(i.files) \in Nat
    BY <1>1
  <2>5. l \in Seq(ToSet(l))
    <3>1. l = [n \in 1..Len(i.files) |-> l[n]]
      BY <2>1, <2>2, <2>4 DEF FromLibrary
    <3>2. \A n \in 1..Len(i.files) : l[n] \in ToSet(l)
      BY <2>2, <2>4 DEF ToSet
    <3> HIDE DEF l
    <3> QED
      BY <2>4, <3>1, <3>2
  <2>6. OneEach(l)
    BY <1>1, <2>2, <2>3 DEF OneEach
  <2>7. ASSUME NEW f \in ToSet(l)
        PROVE  IsFile(f) /\ Serves(i, f.ino) # {}
    <3>1. PICK n \in DOMAIN i.files : f = l[n]
      BY <2>2 DEF ToSet
    <3>2. i.files[n] \in ToSet(i.files) /\ i.files[n].ino = f.ino
      BY <2>3, <3>1 DEF ToSet
    <3>3. i.files[n] \in Serves(i, f.ino)
      BY <1>4, <3>2 DEF Serves
    <3> QED
      BY <2>3, <3>1, <3>3
  <2>8. ASSUME NEW a \in ToSet(i.audio), a \notin Unfetchable(i)
        PROVE  \/ \E f \in ToSet(l) : f.name = a.name /\ f.kind = "audio"
               \/ \E f \in ToSet(i.files) : f.name = a.name /\ f.kind = "other"
    <3>1. \/ \E f \in ToSet(i.files) : f.ino = a.ino
          \/ \E f \in ToSet(i.files) : f.name = a.name
      BY <1>4, <2>8 DEF Unfetchable, Inos, NamesSeen
    <3>2. CASE \E f \in ToSet(i.files) : f.ino = a.ino
      <4>1. PICK n \in DOMAIN i.files : i.files[n].ino = a.ino
        BY <3>2 DEF ToSet
      <4>2. i.files[n] \in ToSet(i.files) /\ l[n] \in ToSet(l)
        BY <2>2 DEF ToSet
      <4>3. i.files[n].name = a.name
        BY <1>2, <4>1, <4>2
      <4>4. l[n].name = a.name /\ l[n].kind = "audio"
        BY <2>3, <4>1, <4>3
      <4> QED
        BY <4>2, <4>4
    <3>3. CASE \E f \in ToSet(i.files) : f.name = a.name
      <4>1. PICK n \in DOMAIN i.files : i.files[n].name = a.name
        BY <3>3 DEF ToSet
      <4>2. i.files[n] \in ToSet(i.files) /\ l[n] \in ToSet(l)
        BY <2>2 DEF ToSet
      <4>3. i.files[n].kind \in {"audio", "other"}
        BY <1>2, <4>1, <4>2
      <4>4. i.files[n].kind = "audio" => l[n].name = a.name /\ l[n].kind = "audio"
        BY <2>3, <4>1
      <4> QED
        BY <4>1, <4>2, <4>3, <4>4
    <3> QED
      BY <3>1, <3>2, <3>3
  <2> QED
    BY <2>5, <2>6, <2>7, <2>8
<1> QED
  BY <1>3, <1>4

\* What is transferred of an item: of its listing every file of those kinds, each once.
LEMMA TransferableFacts ==
    ASSUME NEW i \in Items
    PROVE  /\ Transferable(i) \in Seq(ToSet(Listing(i))) /\ OneEach(Transferable(i))
           /\ Len(Transferable(i)) <= Len(Listing(i))
           /\ ToSet(Transferable(i)) = {f \in ToSet(Listing(i)) : f.kind \in TRANSFERABLE}
<1> DEFINE listed == Listing(i)
           made == CHOOSE f : f = [n \in 0..Len(listed) |-> Step(listed, f, n)]
<1>1. listed \in Seq(ToSet(listed)) /\ OneEach(listed)
  BY ListingFacts
<1>2. Len(listed) \in Nat /\ DOMAIN listed = 1..Len(listed)
  BY <1>1
<1>3. \E f : f = [n \in 0..Len(listed) |-> Step(listed, f, n)]
  BY <1>2, StepByStep
<1>4. made = [n \in 0..Len(listed) |-> Step(listed, made, n)]
  BY <1>3
<1>5. Transferable(i) = made[Len(listed)]
  BY Zenon DEF Transferable, Step
<1> HIDE DEF listed, made
<1>6. \A n \in 0..Len(listed) : made[n] = Step(listed, made, n)
  BY <1>4
<1> DEFINE Sifted(n) == {listed[m] : m \in {k \in 1..n : listed[k].kind \in TRANSFERABLE}}
           Good(n) == /\ made[n] \in Seq(ToSet(listed)) /\ OneEach(made[n])
                      /\ Len(made[n]) <= n /\ ToSet(made[n]) = Sifted(n)
           Wrong == {n \in 0..Len(listed) : ~Good(n)}
<1>7. Good(0)
  <2>1. made[0] = <<>>
    BY <1>2, <1>6 DEF Step
  <2>2. Sifted(0) = {}
    OBVIOUS
  <2> QED
    BY <2>1, <2>2 DEF OneEach, ToSet
<1>8. ASSUME NEW n \in 1..Len(listed), Good(n - 1)
      PROVE  Good(n)
  <2>1. n \in 0..Len(listed) /\ n # 0 /\ n \in DOMAIN listed
    BY <1>2
  <2>2. made[n] = IF listed[n].kind \in TRANSFERABLE
                  THEN Append(made[n - 1], listed[n]) ELSE made[n - 1]
    BY <2>1, <1>6 DEF Step
  <2>3. listed[n] \in ToSet(listed)
    BY <2>1 DEF ToSet
  <2>4. Sifted(n) = Sifted(n - 1) \cup (IF listed[n].kind \in TRANSFERABLE
                                      THEN {listed[n]} ELSE {})
    <3>1. 1..n = 1..(n - 1) \cup {n}
      BY <2>1, <1>2
    <3> QED
      BY <3>1
  <2>5. CASE listed[n].kind \in TRANSFERABLE
    <3> DEFINE old == made[n - 1]
               x == listed[n]
               new == Append(old, x)
    <3>1. made[n] = new
      BY <2>2, <2>5
    <3>2. /\ old \in Seq(ToSet(listed)) /\ OneEach(old) /\ ToSet(old) = Sifted(n - 1)
          /\ Len(old) <= n - 1
      BY <1>8
    <3>3. \A k \in DOMAIN old : old[k].ino # x.ino
      <4>1. ASSUME NEW k \in DOMAIN old PROVE old[k].ino # x.ino
        <5>1. old[k] \in Sifted(n - 1)
          BY <3>2 DEF ToSet
        <5>2. PICK m \in 1..(n - 1) : old[k] = listed[m]
          BY <5>1
        <5>3. m \in DOMAIN listed /\ m # n
          BY <1>2, <2>1
        <5> QED
          BY <1>1, <2>1, <5>2, <5>3 DEF OneEach
      <4> QED
        BY <4>1
    <3> HIDE DEF x, old, Sifted
    <3>4. /\ DOMAIN new = 1..(Len(old) + 1) /\ DOMAIN old = 1..Len(old) /\ Len(old) \in Nat
          /\ new[Len(old) + 1] = x /\ \A k \in 1..Len(old) : new[k] = old[k]
          /\ new \in Seq(ToSet(listed)) /\ Len(new) = Len(old) + 1 /\ Len(new) <= n
      BY <1>2, <2>1, <2>3, <3>2 DEF x
    <3> HIDE DEF new
    <3>5. OneEach(new)
      BY <3>2, <3>3, <3>4 DEF OneEach
    <3>6. ToSet(new) = ToSet(old) \cup {x}
      <4>1. DOMAIN new = DOMAIN old \cup {Len(old) + 1}
        BY <3>4
      <4> QED
        BY <3>4, <4>1 DEF ToSet
    <3>7. ToSet(new) = Sifted(n)
      BY <2>4, <2>5, <3>2, <3>6 DEF x
    <3> QED
      BY <3>1, <3>4, <3>5, <3>7
  <2>6. CASE listed[n].kind \notin TRANSFERABLE
    <3>1. made[n] = made[n - 1] /\ Len(made[n]) \in Nat
      BY <1>8, <2>2, <2>6
    <3>2. Len(made[n]) <= n
      BY <1>2, <1>8, <2>1, <3>1
    <3>3. Sifted(n) = Sifted(n - 1)
      BY <2>4, <2>6
    <3> QED
      BY <1>8, <3>1, <3>2, <3>3
  <2> QED
    BY <2>5, <2>6
<1>9. Good(Len(listed))
  <2> SUFFICES ASSUME Wrong # {} PROVE FALSE
    <3>1. Len(listed) \in 0..Len(listed)
      BY <1>2
    <3> HIDE DEF Good
    <3> QED
      BY <3>1
  <2>1. PICK m \in Wrong : \A k \in Wrong : m <= k
    <3>1. Wrong \in SUBSET Nat
      BY <1>2
    <3> HIDE DEF Wrong
    <3> QED
      BY <3>1, Least
  <2>2. m \in 0..Len(listed) /\ ~Good(m)
    BY <2>1
  <2>3. m # 0
    <3> HIDE DEF Good
    <3> QED
      BY <2>2, <1>7
  <2>4. m \in 1..Len(listed) /\ m - 1 \in 0..Len(listed) /\ ~(m <= m - 1)
    BY <2>2, <2>3, <1>2
  <2>5. m - 1 \notin Wrong
    <3> HIDE DEF Wrong
    <3> QED
      BY <2>1, <2>4
  <2> HIDE DEF Good
  <2>6. Good(m - 1)
    BY <2>4, <2>5
  <2> QED
    BY <2>2, <2>4, <2>6, <1>8
<1>10. Sifted(Len(listed)) = {f \in ToSet(listed) : f.kind \in TRANSFERABLE}
  BY <1>2 DEF ToSet
<1> QED
  BY <1>5, <1>9, <1>10 DEF listed

-----------------------------------------------------------------------------
Place(f) == <<f.ino, f.name>>
Places == {Place(f) : f \in ToSet(Expected)}

\* What an attempt has done and has still to do is its listing, in order.
Lists ==
    /\ seen \in Items /\ Unfetchable(seen) = {}
    /\ todo \in Seq(ToSet(Expected)) /\ parts \in Seq([file : ToSet(Expected), bytes : Nat])
    /\ Len(parts) + Len(todo) = Len(Expected)
    /\ \A n \in DOMAIN parts : parts[n].file = Expected[n]
    /\ \A n \in DOMAIN todo : todo[n] = Expected[Len(parts) + n]
    /\ \A n \in DOMAIN parts :
         ReportedSize(parts[n].file) > 0 => parts[n].bytes = parts[n].file.size

\* What was fetched whole is on the disk as it was listed.
WholeFine ==
    /\ \A path \in DOMAIN spool : spool[path] \in Nat
    /\ \A f \in whole : /\ IsFile(f) /\ ReportedSize(f) > 0
                        /\ Place(f) \in DOMAIN spool /\ spool[Place(f)] = f.size

\* So is every part, and nothing else is.
PartsFine ==
    /\ DOMAIN spool \subseteq Places /\ whole \subseteq ToSet(Expected)
    /\ \A n \in DOMAIN parts : /\ Place(parts[n].file) \in DOMAIN spool
                               /\ spool[Place(parts[n].file)] = parts[n].bytes

\* What holds between any two steps of runJob.
SpoolInv ==
    /\ item \in Items /\ changes \in 0..MaxChanges /\ attempt \in 0..MaxAttempts
    /\ pc \in {"queued", "listed", "download", "fetching", "upload", "completed", "failed"}
    /\ pc = "queued" => attempt < MaxAttempts
    /\ pc \in {"queued", "failed"} => seen = NoItem /\ todo = <<>> /\ parts = <<>>
    /\ pc \notin {"queued", "failed"} => Lists
    /\ pc = "listed" => parts = <<>>
    /\ pc = "fetching" => todo # <<>> /\ Head(todo) \notin whole
    /\ pc \in {"upload", "completed"} => todo = <<>>
    /\ WholeFine
    /\ pc \in {"download", "fetching", "upload"} => PartsFine

\* The listing of the item that was seen.
LEMMA ExpectedFacts ==
    ASSUME seen \in Items
    PROVE  /\ Expected \in Seq(ToSet(Expected)) /\ OneEach(Expected)
           /\ \A f \in ToSet(Expected) : IsFile(f) /\ f \in ToSet(Listing(seen))
           /\ \A n \in 1..Len(Expected) : Expected[n] \in ToSet(Expected)
           /\ Len(Expected) \in Nat /\ DOMAIN Expected = 1..Len(Expected)
<1>1. /\ Expected \in Seq(ToSet(Listing(seen))) /\ OneEach(Expected)
      /\ ToSet(Expected) = {f \in ToSet(Listing(seen)) : f.kind \in TRANSFERABLE}
  BY TransferableFacts DEF Expected
<1>2. \A f \in ToSet(Expected) : IsFile(f) /\ f \in ToSet(Listing(seen))
  BY <1>1, ListingFacts
<1>3. Len(Expected) \in Nat /\ DOMAIN Expected = 1..Len(Expected)
  BY <1>1
<1>4. \A n \in 1..Len(Expected) : Expected[n] \in ToSet(Expected)
  BY <1>3 DEF ToSet
<1>5. Expected \in Seq(ToSet(Expected))
  <2>1. Expected = [n \in 1..Len(Expected) |-> Expected[n]]
    BY <1>1
  <2> DEFINE e == Expected
  <2> HIDE DEF e
  <2>2. e \in Seq(ToSet(e))
    BY <1>3, <1>4, <2>1 DEF e
  <2> QED
    BY <2>2 DEF e
<1> QED
  BY <1>1, <1>2, <1>3, <1>4, <1>5

\* The next file is one of the listing, and its ino is none of a part's.
LEMMA NextFile ==
    ASSUME Lists, todo # <<>>
    PROVE  /\ Head(todo) \in ToSet(Expected) /\ IsFile(Head(todo))
           /\ Head(todo) = Expected[Len(parts) + 1] /\ Len(parts) + 1 \in 1..Len(Expected)
           /\ \A n \in DOMAIN parts : parts[n].file.ino # Head(todo).ino
           /\ \A f \in ToSet(Expected) : f # Head(todo) => f.ino # Head(todo).ino
<1>1. /\ Expected \in Seq(ToSet(Expected)) /\ OneEach(Expected)
      /\ \A f \in ToSet(Expected) : IsFile(f)
      /\ Len(Expected) \in Nat /\ DOMAIN Expected = 1..Len(Expected)
  BY ExpectedFacts DEF Lists
<1>2. /\ Len(todo) \in Nat /\ Len(todo) >= 1 /\ Len(parts) \in Nat /\ Head(todo) = todo[1]
      /\ 1 \in DOMAIN todo /\ DOMAIN parts = 1..Len(parts) /\ Head(todo) \in ToSet(Expected)
  BY DEF Lists
<1>3. Len(parts) + 1 \in 1..Len(Expected) /\ Len(parts) + Len(todo) = Len(Expected)
  BY <1>1, <1>2 DEF Lists
<1>4. Head(todo) = Expected[Len(parts) + 1]
  BY <1>2 DEF Lists
<1>5. ASSUME NEW n \in DOMAIN parts
      PROVE  parts[n].file.ino # Head(todo).ino
  <2>1. n \in DOMAIN Expected /\ n # Len(parts) + 1
    BY <1>1, <1>2, <1>3
  <2>2. parts[n].file = Expected[n]
    BY DEF Lists
  <2> QED
    BY <1>1, <1>3, <1>4, <2>1, <2>2 DEF OneEach
<1>6. ASSUME NEW f \in ToSet(Expected), f # Head(todo)
      PROVE  f.ino # Head(todo).ino
  <2>1. PICK n \in DOMAIN Expected : f = Expected[n]
    BY DEF ToSet
  <2> QED
    BY <1>1, <1>3, <1>4, <1>6, <2>1 DEF OneEach
<1> QED
  BY <1>1, <1>2, <1>3, <1>4, <1>5, <1>6

\* Writing the next file leaves what the spool has of the others.
LEMMA FilledFacts ==
    ASSUME Lists, WholeFine, PartsFine, todo # <<>>, Head(todo) \notin whole,
           NEW bytes \in Nat, spool' = Filled(Head(todo), bytes)
    PROVE  /\ \A path \in DOMAIN spool' : spool'[path] \in Nat
           /\ \A f \in whole : /\ IsFile(f) /\ ReportedSize(f) > 0
                               /\ Place(f) \in DOMAIN spool' /\ spool'[Place(f)] = f.size
           /\ DOMAIN spool' \subseteq Places
           /\ \A n \in DOMAIN parts : /\ Place(parts[n].file) \in DOMAIN spool'
                                      /\ spool'[Place(parts[n].file)] = parts[n].bytes
           /\ Place(Head(todo)) \in DOMAIN spool' /\ spool'[Place(Head(todo))] = bytes
<1> DEFINE file == Head(todo)
           new == [path \in DOMAIN spool \cup {Place(file)} |->
                      IF path = Place(file) THEN bytes ELSE spool[path]]
<1>1. spool' = new
  BY DEF Filled, Path, Place
<1>2. /\ file \in ToSet(Expected) /\ IsFile(file)
      /\ \A n \in DOMAIN parts : parts[n].file.ino # file.ino
      /\ \A f \in ToSet(Expected) : f # file => f.ino # file.ino
  BY NextFile
<1> HIDE DEF file
<1>3. /\ DOMAIN new = DOMAIN spool \cup {Place(file)} /\ new[Place(file)] = bytes
      /\ \A path \in DOMAIN spool : path # Place(file) => new[path] = spool[path]
  OBVIOUS
<1>4. \A f : f.ino # file.ino => Place(f) # Place(file)
  BY DEF Place
<1> HIDE DEF new
<1>5. \A path \in DOMAIN new : new[path] \in Nat
  BY <1>3 DEF WholeFine
<1>6. ASSUME NEW f \in whole
      PROVE  /\ IsFile(f) /\ ReportedSize(f) > 0
             /\ Place(f) \in DOMAIN new /\ new[Place(f)] = f.size
  <2>1. f \in ToSet(Expected) /\ f # file
    BY DEF PartsFine, file
  <2>2. Place(f) # Place(file)
    BY <1>2, <1>4, <2>1
  <2> QED
    BY <1>3, <2>2 DEF WholeFine
<1>7. DOMAIN new \subseteq Places
  BY <1>2, <1>3 DEF PartsFine, Places
<1>8. ASSUME NEW n \in DOMAIN parts
      PROVE  /\ Place(parts[n].file) \in DOMAIN new
             /\ new[Place(parts[n].file)] = parts[n].bytes
  BY <1>2, <1>3, <1>4 DEF PartsFine
<1> QED
  BY <1>1, <1>3, <1>5, <1>6, <1>7, <1>8 DEF file

\* Append, by its positions.
LEMMA AppendFacts ==
    ASSUME NEW S, NEW s \in Seq(S), NEW x \in S
    PROVE  /\ Append(s, x) \in Seq(S) /\ Len(Append(s, x)) = Len(s) + 1
           /\ DOMAIN Append(s, x) = 1..(Len(s) + 1) /\ DOMAIN s = 1..Len(s) /\ Len(s) \in Nat
           /\ Append(s, x)[Len(s) + 1] = x
           /\ \A n \in 1..Len(s) : Append(s, x)[n] = s[n]
  OBVIOUS

\* Tail, by its positions.
LEMMA TailFacts ==
    ASSUME NEW S, NEW s \in Seq(S), s # <<>>
    PROVE  /\ Tail(s) \in Seq(S) /\ Len(Tail(s)) = Len(s) - 1 /\ Len(s) \in Nat
           /\ DOMAIN Tail(s) = 1..(Len(s) - 1) /\ DOMAIN s = 1..Len(s)
           /\ \A n \in 1..(Len(s) - 1) : Tail(s)[n] = s[n + 1]
  OBVIOUS

\* A file is done: it is the next part.
LEMMA DoneFacts ==
    ASSUME Lists, todo # <<>>, UNCHANGED seen, NEW bytes \in Nat,
           ReportedSize(Head(todo)) > 0 => bytes = Head(todo).size,
           parts' = Taken(Head(todo), bytes), todo' = Tail(todo)
    PROVE  /\ Lists' /\ Expected' = Expected
           /\ \A n \in DOMAIN parts' : (n \in DOMAIN parts /\ parts'[n] = parts[n])
                  \/ (parts'[n].file = Head(todo) /\ parts'[n].bytes = bytes)
<1> DEFINE file == Head(todo)
           part == [file |-> file, bytes |-> bytes]
           E == Expected
           F == ToSet(E)
           S == [file : F, bytes : Nat]
<1>1. Expected' = E
  BY DEF Expected
<1>2. file \in F /\ file = E[Len(parts) + 1]
  BY NextFile
<1>3. /\ todo \in Seq(F) /\ parts \in Seq(S)
      /\ Len(parts) + Len(todo) = Len(E)
      /\ \A n \in DOMAIN parts : parts[n].file = E[n]
      /\ \A n \in DOMAIN todo : todo[n] = E[Len(parts) + n]
      /\ \A n \in DOMAIN parts :
           ReportedSize(parts[n].file) > 0 => parts[n].bytes = parts[n].file.size
  BY DEF Lists
<1>4. part \in S /\ part.file = file /\ part.bytes = bytes
  BY <1>2
<1>5. parts' = Append(parts, part) /\ todo' = Tail(todo)
  BY DEF Taken
<1>6. ReportedSize(file) > 0 => bytes = file.size
  OBVIOUS
<1>7. todo # <<>>
  OBVIOUS
<1> HIDE DEF file, part, E, F, S
<1>8. /\ parts' \in Seq(S) /\ Len(parts') = Len(parts) + 1
      /\ DOMAIN parts' = 1..(Len(parts) + 1) /\ DOMAIN parts = 1..Len(parts)
      /\ Len(parts) \in Nat /\ parts'[Len(parts) + 1] = part
      /\ \A n \in 1..Len(parts) : parts'[n] = parts[n]
  <2>1. parts \in Seq(S) /\ part \in S
    BY <1>3, <1>4
  <2>2. /\ Append(parts, part) \in Seq(S) /\ Len(Append(parts, part)) = Len(parts) + 1
        /\ DOMAIN Append(parts, part) = 1..(Len(parts) + 1)
        /\ DOMAIN parts = 1..Len(parts) /\ Len(parts) \in Nat
        /\ Append(parts, part)[Len(parts) + 1] = part
        /\ \A n \in 1..Len(parts) : Append(parts, part)[n] = parts[n]
    BY <2>1
  <2> QED
    BY <1>5, <2>2, Zenon
<1>9. /\ todo' \in Seq(F) /\ Len(todo') = Len(todo) - 1 /\ Len(todo) \in Nat
      /\ DOMAIN todo' = 1..(Len(todo) - 1) /\ DOMAIN todo = 1..Len(todo)
      /\ \A n \in 1..(Len(todo) - 1) : todo'[n] = todo[n + 1]
  <2>1. todo \in Seq(F) /\ todo # <<>> /\ todo' = Tail(todo)
    BY <1>3, <1>5, <1>7
  <2> QED
    BY <2>1, TailFacts
<1>10. Len(parts) + Len(todo) = Len(E)
  BY <1>3
<1>11. Len(parts') + Len(todo') = Len(E)
  <2>1. Len(parts') = Len(parts) + 1 /\ Len(todo') = Len(todo) - 1
    BY <1>8, <1>9
  <2>2. Len(parts) \in Nat /\ Len(todo) \in Nat
    BY <1>8, <1>9
  <2> QED
    BY <1>10, <2>1, <2>2
<1>12. \A n \in DOMAIN parts' : n \in DOMAIN parts \/ n = Len(parts) + 1
  BY <1>8
<1>13. \A n \in DOMAIN parts' : parts'[n].file = E[n]
  BY <1>2, <1>3, <1>4, <1>8, <1>12
<1>14. ASSUME NEW n \in DOMAIN todo'
       PROVE  todo'[n] = E[Len(parts') + n]
  <2>1. n + 1 \in DOMAIN todo /\ todo'[n] = todo[n + 1]
    BY <1>9
  <2>2. Len(parts) + (n + 1) = Len(parts') + n
    <3>1. Len(parts') = Len(parts) + 1 /\ Len(parts) \in Nat
      BY <1>8
    <3>2. n \in 1..(Len(todo) - 1)
      BY <1>9
    <3> QED
      BY <3>1, <3>2
  <2> QED
    BY <1>3, <2>1, <2>2
<1>15. \A n \in DOMAIN parts' :
          ReportedSize(parts'[n].file) > 0 => parts'[n].bytes = parts'[n].file.size
  BY <1>3, <1>4, <1>6, <1>8, <1>12
<1>16. seen' \in Items /\ Unfetchable(seen') = {}
  BY DEF Lists
<1>17. Lists'
  BY <1>1, <1>8, <1>9, <1>11, <1>13, <1>14, <1>15, <1>16 DEF Lists, S, F
<1> QED
  BY <1>1, <1>4, <1>8, <1>12, <1>17 DEF file, E

-----------------------------------------------------------------------------
\* What does not change keeps what is true of it.
LEMMA Kept ==
    /\ Lists /\ UNCHANGED <<seen, todo, parts>> => Lists' /\ Expected' = Expected
    /\ WholeFine /\ UNCHANGED <<spool, whole>> => WholeFine'
    /\ PartsFine /\ UNCHANGED <<seen, spool, whole, parts>> => PartsFine'
<1>1. ASSUME Lists, UNCHANGED <<seen, todo, parts>>
      PROVE  Lists' /\ Expected' = Expected
  <2>1. Expected' = Expected
    BY <1>1 DEF Expected
  <2> QED
    BY <1>1, <2>1 DEF Lists
<1>2. WholeFine /\ UNCHANGED <<spool, whole>> => WholeFine'
  BY DEF WholeFine
<1>3. ASSUME PartsFine, UNCHANGED <<seen, spool, whole, parts>>
      PROVE  PartsFine'
  <2>1. Expected' = Expected
    BY <1>3 DEF Expected
  <2> QED
    BY <1>3, <2>1 DEF PartsFine, Places
<1> QED
  BY <1>1, <1>2, <1>3

\* An attempt lists the item and has all of the listing before it.
LEMMA AttemptStep ==
    ASSUME SpoolInv, Attempt
    PROVE  SpoolInv'
<1>1. /\ pc = "queued" /\ item \in Items /\ parts = <<>> /\ WholeFine
      /\ attempt \in 0..MaxAttempts /\ attempt < MaxAttempts /\ changes \in 0..MaxChanges
  BY DEF SpoolInv, Attempt
<1>2. /\ attempt' = attempt + 1 /\ pc' = "listed" /\ seen' = item
      /\ todo' = Transferable(item) /\ Unfetchable(item) = {}
      /\ UNCHANGED <<item, changes, parts, spool, whole>>
  BY DEF Attempt
<1>3. attempt' \in 0..MaxAttempts
  BY <1>1, <1>2, SpoolAssumption
<1>4. Expected' = todo'
  BY <1>2 DEF Expected
<1>5. /\ todo' \in Seq(ToSet(todo')) /\ Len(todo') \in Nat /\ DOMAIN todo' = 1..Len(todo')
  <2>1. todo' \in Seq(ToSet(Listing(item)))
    BY <1>1, <1>2, TransferableFacts
  <2> DEFINE t == Transferable(item)
  <2>2. t \in Seq(ToSet(Listing(item)))
    BY <1>2, <2>1
  <2> HIDE DEF t
  <2>3. t = [n \in 1..Len(t) |-> t[n]] /\ Len(t) \in Nat /\ DOMAIN t = 1..Len(t)
    BY <2>2
  <2>4. \A n \in 1..Len(t) : t[n] \in ToSet(t)
    BY <2>3 DEF ToSet
  <2>5. t \in Seq(ToSet(t))
    BY <2>3, <2>4
  <2> QED
    BY <1>2, <2>3, <2>5 DEF t
<1>6. Lists'
  <2>1. parts' = <<>> /\ seen' \in Items /\ Unfetchable(seen') = {}
    BY <1>1, <1>2
  <2>2. DOMAIN parts' = {} /\ Len(parts') = 0
    BY <2>1
  <2>3. parts' \in Seq([file : ToSet(todo'), bytes : Nat])
    BY <2>1
  <2>4. Len(parts') + Len(todo') = Len(todo')
    BY <1>5, <2>2
  <2>5. \A n \in DOMAIN todo' : todo'[n] = todo'[Len(parts') + n]
    BY <1>5, <2>2
  <2> QED
    BY <1>4, <1>5, <2>1, <2>2, <2>3, <2>4, <2>5 DEF Lists
<1>7. WholeFine'
  BY <1>1, <1>2, Kept
<1> QED
  BY <1>1, <1>2, <1>3, <1>6, <1>7 DEF SpoolInv

\* What discardStaleSpoolFiles leaves is of the listing.
LEMMA DiscardStep ==
    ASSUME SpoolInv, Discard
    PROVE  SpoolInv'
<1>1. pc = "listed" /\ Lists /\ parts = <<>> /\ WholeFine
  BY DEF SpoolInv, Discard
<1>2. /\ pc' = "download" /\ whole' = whole \cap ToSet(todo)
      /\ UNCHANGED <<item, changes, attempt, seen, todo, parts>>
  BY DEF Discard
<1>3. Lists' /\ Expected' = Expected
  BY <1>1, <1>2, Kept
<1>4. ToSet(todo) \subseteq ToSet(Expected)
  <2>1. todo \in Seq(ToSet(Expected))
    BY <1>1 DEF Lists
  <2> DEFINE F == ToSet(Expected)
  <2> HIDE DEF F
  <2>2. \A n \in DOMAIN todo : todo[n] \in F
    BY <2>1 DEF F
  <2>3. ToSet(todo) \subseteq F
    BY <2>2 DEF ToSet
  <2> QED
    BY <2>3 DEF F
<1> DEFINE D == DOMAIN spool \cap {Place(f) : f \in ToSet(todo)}
<1>5. spool' = [path \in D |-> spool[path]]
  BY DEF Discard, Restrict, Path, Place
<1>6. DOMAIN spool' = D /\ \A path \in D : spool'[path] = spool[path]
  BY <1>5
<1>7. D \subseteq DOMAIN spool /\ D \subseteq Places
  BY <1>4 DEF Places
<1>8. \A f \in whole' : f \in whole /\ f \in ToSet(Expected) /\ Place(f) \in D
  BY <1>1, <1>2, <1>4 DEF WholeFine
<1> HIDE DEF D
<1>9. WholeFine'
  BY <1>1, <1>6, <1>7, <1>8 DEF WholeFine
<1>10. PartsFine'
  <2>1. DOMAIN spool' \subseteq Places' /\ whole' \subseteq ToSet(Expected')
    BY <1>3, <1>6, <1>7, <1>8 DEF Places
  <2>2. DOMAIN parts' = {}
    BY <1>1, <1>2
  <2> QED
    BY <2>1, <2>2 DEF PartsFine
<1> QED
  BY <1>2, <1>3, <1>9, <1>10 DEF SpoolInv

\* A file is done: PartsFine, if the spool has it as the part says.
LEMMA PartsGrow ==
    ASSUME Expected' = Expected, NEW file, NEW bytes,
           \A n \in DOMAIN parts' : (n \in DOMAIN parts /\ parts'[n] = parts[n])
                  \/ (parts'[n].file = file /\ parts'[n].bytes = bytes),
           DOMAIN spool' \subseteq Places, whole' \subseteq ToSet(Expected),
           Place(file) \in DOMAIN spool', spool'[Place(file)] = bytes,
           \A n \in DOMAIN parts : /\ Place(parts[n].file) \in DOMAIN spool'
                                   /\ spool'[Place(parts[n].file)] = parts[n].bytes
    PROVE  PartsFine'
<1>1. Places' = Places
  BY DEF Places
<1>2. ASSUME NEW n \in DOMAIN parts'
      PROVE  /\ Place(parts'[n].file) \in DOMAIN spool'
             /\ spool'[Place(parts'[n].file)] = parts'[n].bytes
  <2>1. CASE n \in DOMAIN parts /\ parts'[n] = parts[n]
    BY <2>1
  <2>2. CASE parts'[n].file = file /\ parts'[n].bytes = bytes
    BY <2>2
  <2> QED
    BY <2>1, <2>2
<1> QED
  BY <1>1, <1>2 DEF PartsFine

\* A size that is told is the size.
LEMMA Reported ==
    ASSUME NEW f, IsFile(f), ReportedSize(f) > 0
    PROVE  f.size \in Nat /\ ReportedSize(f) = f.size
  BY DEF IsFile, ReportedSize

\* What completeOnDisk accepts is the next part.
LEMMA ReuseStep ==
    ASSUME SpoolInv, Reuse
    PROVE  SpoolInv'
<1> DEFINE file == Head(todo)
           bytes == InSpool(Path(file, Expected))
<1>1. pc = "download" /\ Lists /\ WholeFine /\ PartsFine /\ todo # <<>>
  BY DEF SpoolInv, Reuse
<1>2. /\ ReportedSize(file) > 0 /\ bytes = file.size
      /\ parts' = Taken(file, bytes) /\ todo' = Tail(todo)
      /\ UNCHANGED <<item, changes, pc, attempt, seen, spool, whole>>
  BY DEF Reuse, CompleteOnDisk
<1>3. IsFile(file)
  BY <1>1, NextFile
<1>4. bytes \in Nat
  BY <1>2, <1>3, Reported
<1>5. Place(file) \in DOMAIN spool /\ spool[Place(file)] = bytes
  <2>1. Path(file, Expected) = Place(file)
    BY DEF Path, Place
  <2>2. Absent \notin Nat
    BY SpoolAssumption
  <2> QED
    BY <1>4, <2>1, <2>2 DEF InSpool
<1> HIDE DEF file, bytes
<1>6. /\ Lists' /\ Expected' = Expected
      /\ \A n \in DOMAIN parts' : (n \in DOMAIN parts /\ parts'[n] = parts[n])
             \/ (parts'[n].file = file /\ parts'[n].bytes = bytes)
  BY <1>1, <1>2, <1>4, DoneFacts DEF file
<1>7. WholeFine'
  BY <1>1, <1>2, Kept
<1>8. PartsFine'
  <2>1. /\ DOMAIN spool' \subseteq Places /\ whole' \subseteq ToSet(Expected)
        /\ Place(file) \in DOMAIN spool' /\ spool'[Place(file)] = bytes
        /\ \A n \in DOMAIN parts : /\ Place(parts[n].file) \in DOMAIN spool'
                                   /\ spool'[Place(parts[n].file)] = parts[n].bytes
    BY <1>1, <1>2, <1>5 DEF PartsFine
  <2> QED
    BY <1>6, <2>1, PartsGrow
<1> QED
  BY <1>1, <1>2, <1>6, <1>7, <1>8 DEF SpoolInv

\* What was fetched whole and listed ever since is complete on the disk.
LEMMA WholeComplete ==
    ASSUME SpoolInv, Open
    PROVE  Head(todo) \notin whole
<1> SUFFICES ASSUME Head(todo) \in whole
             PROVE  CompleteOnDisk(Head(todo))
  BY DEF Open
<1>1. /\ ReportedSize(Head(todo)) > 0 /\ Place(Head(todo)) \in DOMAIN spool
      /\ spool[Place(Head(todo))] = Head(todo).size
  BY DEF SpoolInv, WholeFine
<1>2. Path(Head(todo), Expected) = Place(Head(todo))
  BY DEF Path, Place
<1> QED
  BY <1>1, <1>2 DEF CompleteOnDisk, InSpool

\* Filling the next file keeps what is true of the disk.
LEMMA FilledKept ==
    ASSUME Lists, WholeFine, PartsFine, todo # <<>>, Head(todo) \notin whole,
           NEW bytes \in Nat, spool' = Filled(Head(todo), bytes), UNCHANGED whole
    PROVE  WholeFine'
  BY FilledFacts DEF WholeFine

\* The file is opened, and has nothing yet.
LEMMA OpenStep ==
    ASSUME SpoolInv, Open
    PROVE  SpoolInv'
<1>1. pc = "download" /\ Lists /\ WholeFine /\ PartsFine /\ todo # <<>>
  BY DEF SpoolInv, Open
<1>2. /\ pc' = "fetching" /\ spool' = Filled(Head(todo), 0)
      /\ UNCHANGED <<item, changes, attempt, seen, todo, parts, whole>>
  BY DEF Open
<1>3. Head(todo) \notin whole
  BY WholeComplete
<1>4. Lists' /\ Expected' = Expected
  BY <1>1, <1>2, Kept
<1>5. WholeFine'
  BY <1>1, <1>2, <1>3, FilledKept
<1>6. PartsFine'
  <2>1. /\ DOMAIN spool' \subseteq Places
        /\ \A n \in DOMAIN parts : /\ Place(parts[n].file) \in DOMAIN spool'
                                   /\ spool'[Place(parts[n].file)] = parts[n].bytes
    BY <1>1, <1>2, <1>3, FilledFacts
  <2>2. Places' = Places
    BY <1>4 DEF Places
  <2> QED
    BY <1>1, <1>2, <1>4, <2>1, <2>2 DEF PartsFine
<1>7. todo' # <<>> /\ Head(todo') \notin whole'
  BY <1>1, <1>2, <1>3
<1> QED
  BY <1>2, <1>4, <1>5, <1>6, <1>7 DEF SpoolInv

\* The stream ended well: the file is the next part.
LEMMA FetchedStep ==
    ASSUME SpoolInv, NEW bytes \in Bytes, Fetched(bytes)
    PROVE  SpoolInv'
<1> DEFINE file == Head(todo)
<1>1. /\ pc = "fetching" /\ Lists /\ WholeFine /\ PartsFine
      /\ todo # <<>> /\ file \notin whole
  BY DEF SpoolInv, Fetched
<1>2. /\ ~Mismatch(file, bytes) /\ spool' = Filled(file, bytes)
      /\ parts' = Taken(file, bytes) /\ todo' = Tail(todo) /\ pc' = "download"
      /\ whole' = IF ReportedSize(file) > 0 THEN whole \cup {file} ELSE whole
      /\ UNCHANGED <<item, changes, attempt, seen>>
  BY DEF Fetched
<1>3. bytes \in Nat
  BY SpoolAssumption DEF Bytes
<1>4. IsFile(file) /\ file \in ToSet(Expected)
  BY <1>1, NextFile
<1>5. ReportedSize(file) > 0 => bytes = file.size
  <2>1. ReportedSize(file) > 0 => bytes = ReportedSize(file)
    BY <1>2 DEF Mismatch
  <2> QED
    BY <1>4, <2>1, Reported
<1>6. /\ Lists' /\ Expected' = Expected
      /\ \A n \in DOMAIN parts' : (n \in DOMAIN parts /\ parts'[n] = parts[n])
             \/ (parts'[n].file = file /\ parts'[n].bytes = bytes)
  BY <1>1, <1>2, <1>3, <1>5, DoneFacts
<1>7. /\ \A path \in DOMAIN spool' : spool'[path] \in Nat
      /\ \A f \in whole : /\ IsFile(f) /\ ReportedSize(f) > 0
                          /\ Place(f) \in DOMAIN spool' /\ spool'[Place(f)] = f.size
      /\ DOMAIN spool' \subseteq Places
      /\ \A n \in DOMAIN parts : /\ Place(parts[n].file) \in DOMAIN spool'
                                 /\ spool'[Place(parts[n].file)] = parts[n].bytes
      /\ Place(file) \in DOMAIN spool' /\ spool'[Place(file)] = bytes
  BY <1>1, <1>2, <1>3, FilledFacts
<1> HIDE DEF file
<1>8. WholeFine'
  <2>1. CASE ReportedSize(file) > 0
    <3>1. whole' = whole \cup {file} /\ bytes = file.size
      BY <1>2, <1>5, <2>1
    <3> QED
      BY <1>4, <1>7, <2>1, <3>1 DEF WholeFine
  <2>2. CASE ~(ReportedSize(file) > 0)
    <3>1. whole' = whole
      BY <1>2, <2>2
    <3> QED
      BY <1>7, <3>1 DEF WholeFine
  <2> QED
    BY <2>1, <2>2
<1>9. whole' \subseteq ToSet(Expected)
  BY <1>1, <1>2, <1>4 DEF PartsFine
<1>10. PartsFine'
  BY <1>6, <1>7, <1>9, PartsGrow
<1> QED
  BY <1>2, <1>6, <1>8, <1>10 DEF SpoolInv

\* The end of an attempt, whatever its last file came to.
LEMMA EndStep ==
    ASSUME SpoolInv, AttemptEnds, UNCHANGED <<item, changes, attempt>>, WholeFine'
    PROVE  SpoolInv'
  BY DEF SpoolInv, AttemptEnds

\* It ended too early: what there is stays in the spool.
LEMMA TruncatedStep ==
    ASSUME SpoolInv, NEW bytes \in Bytes, Truncated(bytes)
    PROVE  SpoolInv'
<1>1. /\ pc = "fetching" /\ Lists /\ WholeFine /\ PartsFine
      /\ todo # <<>> /\ Head(todo) \notin whole
  BY DEF SpoolInv, Truncated
<1>2. /\ spool' = Filled(Head(todo), bytes) /\ AttemptEnds
      /\ UNCHANGED <<item, changes, attempt, whole>>
  BY DEF Truncated
<1>3. bytes \in Nat
  BY SpoolAssumption DEF Bytes
<1>4. WholeFine'
  BY <1>1, <1>2, <1>3, FilledKept
<1> QED
  BY <1>2, <1>4, EndStep

\* So it does when the attempt breaks off.
LEMMA BreaksStep ==
    ASSUME SpoolInv, NEW bytes \in Bytes, Breaks(bytes)
    PROVE  SpoolInv'
<1>1. AttemptEnds /\ UNCHANGED <<item, changes, attempt, whole>>
  BY DEF Breaks
<1>2. bytes \in Nat
  BY SpoolAssumption DEF Bytes
<1>3. CASE pc = "fetching"
  <2>1. /\ Lists /\ WholeFine /\ PartsFine /\ todo # <<>> /\ Head(todo) \notin whole
    BY <1>3 DEF SpoolInv
  <2>2. spool' = Filled(Head(todo), bytes)
    BY <1>3 DEF Breaks
  <2>3. WholeFine'
    BY <1>1, <1>2, <2>1, <2>2, FilledKept
  <2> QED
    BY <1>1, <2>3, EndStep
<1>4. CASE pc # "fetching"
  <2>1. UNCHANGED spool
    BY <1>4 DEF Breaks
  <2>2. WholeFine'
    BY <1>1, <2>1, Kept DEF SpoolInv
  <2> QED
    BY <1>1, <2>2, EndStep
<1> QED
  BY <1>3, <1>4

\* Of the other actions none but the last writes to the disk, and that one empties it.
LEMMA OtherSteps ==
    ASSUME SpoolInv,
           (\E i \in Items : Change(i)) \/ Refused \/ Loaded \/ Uploaded \/ UNCHANGED spoolVars
    PROVE  SpoolInv'
<1>1. ASSUME NEW i \in Items, Change(i)
      PROVE  SpoolInv'
  <2>1. changes' \in 0..MaxChanges /\ item' \in Items
    BY <1>1, SpoolAssumption DEF SpoolInv, Change
  <2>2. UNCHANGED <<pc, attempt, seen, todo, parts, spool, whole>>
    BY <1>1 DEF Change
  <2> QED
    BY <2>1, <2>2, Kept DEF SpoolInv
<1>2. CASE Refused
  <2>1. /\ pc = "queued" /\ attempt' = attempt + 1
        /\ pc' = IF attempt' < MaxAttempts THEN "queued" ELSE "failed"
        /\ UNCHANGED <<item, changes, seen, todo, parts, spool, whole>>
    BY <1>2 DEF Refused
  <2>2. attempt' \in 0..MaxAttempts
    BY <2>1, SpoolAssumption DEF SpoolInv
  <2> QED
    BY <2>1, <2>2, Kept DEF SpoolInv
<1>3. CASE Loaded
  <2>1. /\ pc = "download" /\ pc' = "upload" /\ todo = <<>>
        /\ UNCHANGED <<item, changes, attempt, seen, todo, parts, spool, whole>>
    BY <1>3 DEF Loaded
  <2> QED
    BY <2>1, Kept DEF SpoolInv
<1>4. CASE Uploaded
  <2>1. /\ pc = "upload" /\ pc' = "completed" /\ spool' = <<>> /\ whole' = {}
        /\ UNCHANGED <<item, changes, attempt, seen, todo, parts>>
    BY <1>4 DEF Uploaded
  <2>2. WholeFine'
    BY <2>1 DEF WholeFine
  <2> QED
    BY <2>1, <2>2, Kept DEF SpoolInv
<1>5. CASE UNCHANGED spoolVars
  <2>1. UNCHANGED <<item, changes, pc, attempt, seen, todo, parts, spool, whole>>
    BY <1>5 DEF spoolVars
  <2> QED
    BY <2>1, Kept DEF SpoolInv
<1> QED
  BY <1>1, <1>2, <1>3, <1>4, <1>5

\* Every step keeps the invariant.
LEMMA SpoolStep == SpoolInv /\ [SpoolNext]_spoolVars => SpoolInv'
<1> SUFFICES ASSUME SpoolInv, [SpoolNext]_spoolVars PROVE SpoolInv'
  OBVIOUS
<1>1. CASE Attempt
  BY <1>1, AttemptStep
<1>2. CASE Discard
  BY <1>2, DiscardStep
<1>3. CASE Reuse
  BY <1>3, ReuseStep
<1>4. CASE Open
  BY <1>4, OpenStep
<1>5. ASSUME NEW bytes \in Bytes, Fetched(bytes)
      PROVE  SpoolInv'
  BY <1>5, FetchedStep
<1>6. ASSUME NEW bytes \in Bytes, Truncated(bytes)
      PROVE  SpoolInv'
  BY <1>6, TruncatedStep
<1>7. ASSUME NEW bytes \in Bytes, Breaks(bytes)
      PROVE  SpoolInv'
  BY <1>7, BreaksStep
<1>8. CASE \/ \E i \in Items : Change(i)
           \/ Refused \/ Loaded \/ Uploaded \/ UNCHANGED spoolVars
  BY <1>8, OtherSteps
<1> QED
  BY <1>1, <1>2, <1>3, <1>4, <1>5, <1>6, <1>7, <1>8 DEF SpoolNext

\* The invariant of the spool holds throughout runJob, from attempt to attempt.
THEOREM SpoolInvHolds == SpoolSpec => []SpoolInv
<1>1. SpoolInit => SpoolInv
  <2> SUFFICES ASSUME SpoolInit PROVE SpoolInv
    OBVIOUS
  <2>1. WholeFine
    BY DEF SpoolInit, WholeFine
  <2>2. changes \in 0..MaxChanges /\ attempt \in 0..MaxAttempts /\ attempt < MaxAttempts
    BY SpoolAssumption DEF SpoolInit
  <2> QED
    BY <2>1, <2>2 DEF SpoolInit, SpoolInv
<1> QED
  BY <1>1, SpoolStep, PTL DEF SpoolSpec

\* Types of the spool: no list grows beyond the listing, no size is negative or unknown.
THEOREM SpoolTypesHold == SpoolSpec => []SpoolTypeOK
<1>1. SpoolInv => SpoolTypeOK
  <2> SUFFICES ASSUME SpoolInv PROVE SpoolTypeOK
    OBVIOUS
  <2>1. seen \in Items \cup {NoItem}
    BY DEF SpoolInv, Lists
  <2>2. Len(todo) <= Len(seen.files) + Len(seen.audio)
    <3>1. CASE pc \in {"queued", "failed"}
      <4>1. seen = NoItem /\ todo = <<>>
        BY <3>1 DEF SpoolInv
      <4>2. seen.files = <<>> /\ seen.audio = <<>>
        BY <4>1 DEF NoItem
      <4> QED
        BY <4>1, <4>2
    <3>2. CASE pc \notin {"queued", "failed"}
      <4>1. Lists
        BY <3>2 DEF SpoolInv
      <4>2. Len(todo) \in Nat /\ Len(parts) \in Nat /\ Len(Expected) \in Nat
        BY <4>1, ExpectedFacts DEF Lists
      <4>3. Len(parts) + Len(todo) = Len(Expected)
        BY <4>1 DEF Lists
      <4>4. Len(Expected) <= Len(Listing(seen))
        BY <4>1, TransferableFacts DEF Lists, Expected
      <4>5. /\ Len(seen.files) \in Nat /\ Len(seen.audio) \in Nat
            /\ DOMAIN seen.files = 1..Len(seen.files)
            /\ Listing(seen) \in Seq(ToSet(Listing(seen)))
        BY <4>1, SpoolAssumption, ListingFacts DEF Lists
      <4>6. Len(Listing(seen)) \in {Len(seen.files), Len(seen.audio)}
        <5>1. CASE seen.files = <<>>
          BY <5>1 DEF Listing
        <5>2. CASE seen.files # <<>>
          <6>1. DOMAIN Listing(seen) = DOMAIN seen.files
            BY <5>2 DEF Listing, FromLibrary
          <6>2. Len(Listing(seen)) = Len(seen.files)
            BY <4>5, <6>1
          <6> QED
            BY <6>2
        <5> QED
          BY <5>1, <5>2
      <4>7. \A parted, t, e, l, m, n \in Nat :
               parted + t = e /\ e <= l /\ l \in {m, n} => t <= m + n
        OBVIOUS
      <4>8. Len(Listing(seen)) \in Nat
        BY <4>5, <4>6
      <4> QED
        BY <4>2, <4>3, <4>4, <4>5, <4>6, <4>7, <4>8, Zenon
    <3> QED
      BY <3>1, <3>2
  <2>3. \A p \in ToSet(parts) : p.bytes \in Nat
    <3>1. CASE pc \in {"queued", "failed"}
      BY <3>1 DEF SpoolInv, ToSet
    <3>2. CASE pc \notin {"queued", "failed"}
      <4> DEFINE S == [file : ToSet(Expected), bytes : Nat]
      <4>1. parts \in Seq(S)
        BY <3>2 DEF SpoolInv, Lists
      <4>2. \A x \in S : x.bytes \in Nat
        OBVIOUS
      <4> HIDE DEF S
      <4>3. \A n \in DOMAIN parts : parts[n] \in S
        BY <4>1
      <4> QED
        BY <4>2, <4>3 DEF ToSet
    <3> QED
      BY <3>1, <3>2
  <2> QED
    BY <2>1, <2>2, <2>3 DEF SpoolInv, WholeFine, SpoolTypeOK
<1> QED
  BY <1>1, SpoolInvHolds, PTL

\* When nothing is left to do, the parts are the listing.
LEMMA AllParts ==
    ASSUME Lists, todo = <<>>
    PROVE  /\ DOMAIN parts = DOMAIN Expected
           /\ \A f \in ToSet(Expected) : \E p \in ToSet(parts) : p.file = f
<1>1. Len(Expected) \in Nat /\ DOMAIN Expected = 1..Len(Expected)
  BY ExpectedFacts DEF Lists
<1>2. Len(parts) \in Nat /\ DOMAIN parts = 1..Len(parts) /\ Len(todo) = 0
  BY DEF Lists
<1>3. Len(parts) = Len(Expected)
  <2>1. Len(parts) + Len(todo) = Len(Expected)
    BY DEF Lists
  <2>2. \A m, n \in Nat : m + 0 = n => m = n
    OBVIOUS
  <2>3. Len(parts) + 0 = Len(Expected)
    BY <1>2, <2>1, Zenon
  <2> QED
    BY <1>1, <1>2, <2>2, <2>3, Zenon
<1>4. ASSUME NEW f \in ToSet(Expected)
      PROVE  \E p \in ToSet(parts) : p.file = f
  <2>1. PICK n \in DOMAIN Expected : f = Expected[n]
    BY DEF ToSet
  <2>2. n \in DOMAIN parts /\ parts[n].file = f
    BY <1>1, <1>2, <1>3, <2>1 DEF Lists
  <2>3. parts[n] \in ToSet(parts)
    BY <2>2 DEF ToSet
  <2> QED
    BY <2>2, <2>3
<1> QED
  BY <1>1, <1>2, <1>3, <1>4

\* What is uploaded is the listing, each file as large as it was listed, whatever earlier
\* attempts left and however the item changed (runJob, completeOnDisk, discardStaleSpoolFiles).
THEOREM UploadWholeHolds == SpoolSpec => []UploadWhole
<1>1. SpoolInv => UploadWhole
  <2> SUFFICES ASSUME SpoolInv, Uploading PROVE UploadWhole
    BY DEF UploadWhole
  <2>1. pc \in {"upload", "completed"} /\ Lists /\ todo = <<>>
    BY DEF SpoolInv, Uploading
  <2>2. /\ DOMAIN parts = DOMAIN Expected
        /\ \A f \in ToSet(Expected) : \E p \in ToSet(parts) : p.file = f
    BY <2>1, AllParts
  <2>3. [n \in DOMAIN parts |-> parts[n].file] = Expected
    <3>1. Expected \in Seq(ToSet(Expected))
      BY <2>1, ExpectedFacts DEF Lists
    <3>2. Expected = [n \in DOMAIN Expected |-> Expected[n]]
      BY <3>1
    <3>3. \A n \in DOMAIN parts : parts[n].file = Expected[n]
      BY <2>1 DEF Lists
    <3> QED
      BY <2>2, <3>2, <3>3, Zenon
  <2>4. \A p \in ToSet(parts) : ReportedSize(p.file) > 0 => p.bytes = p.file.size
    BY <2>1 DEF Lists, ToSet
  <2>5. ASSUME pc = "upload"
        PROVE  /\ \A p \in ToSet(parts) : InSpool(Path(p.file, Expected)) = p.bytes
               /\ DOMAIN spool = {Path(p.file, Expected) : p \in ToSet(parts)}
    <3>1. PartsFine
      BY <2>5 DEF SpoolInv
    <3>2. \A f : Path(f, Expected) = Place(f)
      BY DEF Path, Place
    <3>3. \A p \in ToSet(parts) : Place(p.file) \in DOMAIN spool /\ spool[Place(p.file)] = p.bytes
      BY <3>1 DEF PartsFine, ToSet
    <3>4. Places \subseteq {Place(p.file) : p \in ToSet(parts)}
      BY <2>2 DEF Places
    <3>5. DOMAIN spool = {Place(p.file) : p \in ToSet(parts)}
      BY <3>1, <3>3, <3>4 DEF PartsFine
    <3> QED
      BY <3>2, <3>3, <3>5 DEF InSpool
  <2> QED
    BY <2>3, <2>4, <2>5 DEF UploadWhole
<1> QED
  BY <1>1, SpoolInvHolds, PTL

\* The listing is right: no chapter is missing unless the source denies that it is audio, and
\* no file is asked for that the source does not serve (listItemFilesDetailed).
THEOREM ListingRightHolds == SpoolSpec => []ListingRight
<1>1. SpoolInv => ListingRight
  <2> SUFFICES ASSUME SpoolInv PROVE ListingRight
    OBVIOUS
  <2>1. ASSUME Uploading, NEW a \in ToSet(seen.audio)
        PROVE  \/ \E p \in ToSet(parts) : p.file.name = a.name /\ p.file.kind = "audio"
               \/ \E f \in ToSet(seen.files) : f.name = a.name /\ f.kind = "other"
    <3>1. Lists /\ todo = <<>>
      BY <2>1 DEF SpoolInv, Uploading
    <3>2. seen \in Items /\ a \notin Unfetchable(seen)
      BY <3>1 DEF Lists
    <3>3. \/ \E f \in ToSet(Listing(seen)) : f.name = a.name /\ f.kind = "audio"
          \/ \E f \in ToSet(seen.files) : f.name = a.name /\ f.kind = "other"
      BY <2>1, <3>2, ListingFacts
    <3>4. ASSUME NEW f \in ToSet(Listing(seen)), f.name = a.name, f.kind = "audio"
          PROVE  \E p \in ToSet(parts) : p.file.name = a.name /\ p.file.kind = "audio"
      <4>1. f \in ToSet(Expected)
        BY <3>2, <3>4, TransferableFacts DEF Expected, TRANSFERABLE
      <4> QED
        BY <3>1, <3>4, <4>1, AllParts
    <3> QED
      BY <3>3, <3>4
  <2>2. ASSUME pc \in {"download", "fetching"}, item = seen, NEW f \in ToSet(todo)
        PROVE  OnServer(f.ino) # {}
    <3>1. Lists
      BY <2>2 DEF SpoolInv
    <3> DEFINE F == ToSet(Expected)
    <3>2. todo \in Seq(F)
      BY <3>1 DEF Lists
    <3>3. seen \in Items /\ \A g \in F : g \in ToSet(Listing(seen))
      BY <3>1, ExpectedFacts DEF Lists
    <3> HIDE DEF F
    <3>4. f \in F
      BY <2>2, <3>2 DEF ToSet
    <3> QED
      BY <2>2, <3>3, <3>4, ListingFacts DEF OnServer
  <2> QED
    BY <2>1, <2>2 DEF ListingRight
<1> QED
  BY <1>1, SpoolInvHolds, PTL

\* No file that was fetched whole, and listed as it is ever since, is opened again.
THEOREM FetchedOnceHolds == SpoolSpec => FetchedOnce
<1>1. SpoolInv /\ [SpoolNext]_spoolVars => [Open => Head(todo) \notin whole]_spoolVars
  BY WholeComplete
<1> QED
  BY <1>1, SpoolInvHolds, PTL DEF SpoolSpec, FetchedOnce
=============================================================================
