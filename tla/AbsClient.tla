------------------------------ MODULE AbsClient ------------------------------
(***************************************************************************)
(* One client of an Audiobookshelf server (packages/abs-client/src/        *)
(* client.ts) and the requests that share it: the token, the one login     *)
(* under way, the second attempt after a refusal, the retries after        *)
(* trouble, and the URLs a download tries in turn.                         *)
(*                                                                         *)
(* The server is what its stand-in (mock-server.ts) is: it answers by the  *)
(* token, the permissions and the URLs it knows.  Its tokens may expire at *)
(* any time; a token is the number of expiries it was issued after.  A     *)
(* request is one step when it is sent, one when the server answers and    *)
(* one when the answer is acted upon.                                      *)
(***************************************************************************)
EXTENDS Integers, FiniteSets, Sequences

CONSTANTS
    Requests,     \* bound: requests under way at once
    Kinds,        \* what is requested, a subset of AllKinds
    Accounts,     \* bound: the servers, accounts and saved tokens to begin with
    MaxRetries,   \* AbsClientOptions.maxRetries
    MaxTroubles,  \* bound: times the server or the network is in trouble
    MaxExpiries,  \* bound: times the server's tokens expire
    None          \* no token, no request, no URL

\* openDownload is "download" with a libraryId and "itemDownload" without one.
Downloads == {"download", "itemDownload"}
AllKinds == Downloads \cup {"json", "file", "upload"}
Tokens == 0..MaxExpiries

ASSUME AbsClientAssumption ==
    /\ Kinds \subseteq AllKinds
    /\ MaxRetries \in Nat /\ MaxTroubles \in Nat /\ MaxExpiries \in Nat
    /\ None \notin Tokens \cup Requests
    /\ Accounts \subseteq [password : BOOLEAN, style : {"item", "library"}, present : BOOLEAN,
                           permits : SUBSET {"download", "upload"}, kept : {0, None}]

VARIABLES
    \* The server.
    password,       \* whether the password is right
    style,          \* the download URL it knows
    permits,        \* what the account may do
    present,        \* whether it has the item
    expiries,       \* expiries so far: the one token it accepts
    \* The client.
    kept,           \* Server.tokenCipher, where the token is cached between clients
    saving,         \* tokens on their way there
    token,          \* AbsClient.token
    loginInFlight,  \* AbsClient.loginInFlight: the request whose login it is
    template,       \* AbsClient.downloadTemplate
    req,            \* each request: where it is and what it holds
    troubles        \* troubles so far

server == <<password, style, permits, present, expiries>>
cache == <<kept, saving>>
vars == <<server, cache, token, loginInFlight, template, req, troubles>>

Pcs == {"idle", "login", "loginReply", "await", "sent", "reply", "backoff"}
Answers == {"none", "ok", "unauthorized", "forbidden", "missing", "tooLarge",
            "busy", "unreachable", "garbled"}
Urls == {"item", "library", "attachment", "bare"}
IdleRequest == [pc |-> "idle", kind |-> "json", urls |-> <<>>, bearer |-> None,
                answer |-> "none", refreshed |-> FALSE, refreshing |-> FALSE,
                attempt |-> 0, aborted |-> FALSE]

TypeOK ==
    /\ password \in BOOLEAN /\ style \in {"item", "library"}
    /\ permits \subseteq {"download", "upload"} /\ present \in BOOLEAN
    /\ expiries \in Tokens
    /\ kept \in Tokens \cup {None} /\ saving \subseteq Tokens
    /\ token \in Tokens \cup {None} /\ loginInFlight \in Requests \cup {None}
    /\ template \in {"item", "library", None}
    /\ \A q \in Requests :
         /\ req[q] \in [pc : Pcs, kind : AllKinds, urls : {req[q].urls},
                        bearer : Tokens \cup {None}, answer : Answers, refreshed : BOOLEAN,
                        refreshing : BOOLEAN, attempt : 0..MaxRetries, aborted : BOOLEAN]
         /\ \A i \in DOMAIN req[q].urls : req[q].urls[i] \in Urls
    /\ troubles \in 0..MaxTroubles

Init ==
    /\ \E account \in Accounts :
         /\ password = account.password /\ style = account.style
         /\ permits = account.permits /\ present = account.present
         /\ kept = account.kept /\ token = account.kept
    /\ expiries = 0 /\ saving = {}
    /\ loginInFlight = None /\ template = None
    /\ req = [q \in Requests |-> IdleRequest]
    /\ troubles = 0

-----------------------------------------------------------------------------
(***************************************************************************)
(* The token.                                                              *)
(***************************************************************************)
\* A request on its way once it has a token; a signal that has fired stops it there.
Sent(x, bearer) ==
    IF x.aborted THEN IdleRequest
    ELSE [x EXCEPT !.pc = "sent", !.bearer = bearer, !.refreshing = FALSE]

\* ensureToken, up to its first await, for a request whose record is x by now: use the
\* token, join the login that is in flight, or start one.  (Variant: start one anyway.)
EnsureTokenAlone(q, x, known) ==
    /\ token' = known
    /\ \/ /\ known # None
          /\ req' = [req EXCEPT ![q] = Sent(x, known)]
          /\ UNCHANGED loginInFlight
       \/ /\ known = None
          /\ req' = [req EXCEPT ![q] = [x EXCEPT !.pc = "login"]]
          /\ loginInFlight' = q

EnsureToken(q, x, known) ==
    /\ token' = known
    /\ \/ /\ known # None
          /\ req' = [req EXCEPT ![q] = Sent(x, known)]
          /\ UNCHANGED loginInFlight
       \/ /\ known = None /\ loginInFlight # None
          /\ req' = [req EXCEPT ![q] = [x EXCEPT !.pc = "await"]]
          /\ UNCHANGED loginInFlight
       \/ /\ known = None /\ loginInFlight = None
          /\ req' = [req EXCEPT ![q] = [x EXCEPT !.pc = "login"]]
          /\ loginInFlight' = q

\* The URLs a download tries, the one this server accepted last time first; that of the
\* library can only be told with its id.  (Variant: nothing else is tried.)
CandidatesOne(kind) == <<IF kind = "file" THEN "attachment" ELSE "item">>
Candidates(kind) ==
    CASE kind = "file" -> <<"attachment", "bare">>
      [] kind = "download" /\ template = "library" -> <<"library", "item">>
      [] kind = "download" /\ template # "library" -> <<"item", "library">>
      [] kind = "itemDownload" -> <<"item">>
      [] OTHER -> <<>>

Ask(q, kind) ==
    /\ req[q].pc = "idle"
    /\ EnsureToken(q, [IdleRequest EXCEPT !.kind = kind, !.urls = Candidates(kind)], token)
    /\ UNCHANGED <<server, cache, template, troubles>>

ServeLogin(q) ==
    /\ req[q].pc = "login"
    /\ req' = [req EXCEPT ![q] =
                 [@ EXCEPT !.pc = "loginReply", !.bearer = IF password THEN expiries ELSE None,
                           !.answer = IF password THEN "ok" ELSE "unauthorized"]]
    /\ UNCHANGED <<server, cache, token, loginInFlight, template, troubles>>

\* The server, the network or a proxy fails a request, or a login.
Troubled(q) ==
    /\ req[q].pc \in {"login", "sent"}
    /\ troubles < MaxTroubles
    /\ troubles' = troubles + 1
    /\ \E answer \in {"busy", "unreachable", "garbled"} :
          req' = [req EXCEPT ![q] =
                    [@ EXCEPT !.pc = IF req[q].pc = "login" THEN "loginReply" ELSE "reply",
                              !.answer = answer]]
    /\ UNCHANGED <<server, cache, token, loginInFlight, template>>

\* Those who are served by the login of q.
Served(q) == {p \in Requests : p = q \/ req[p].pc = "await"}

\* The login is over: everybody goes on with its token, which is saved on the side.
LoginDone(q) ==
    /\ req[q].pc = "loginReply" /\ req[q].answer = "ok"
    /\ token' = req[q].bearer
    /\ saving' = saving \cup {req[q].bearer}
    /\ loginInFlight' = None
    /\ req' = [p \in Requests |->
                 IF p \in Served(q) THEN [Sent(req[p], req[q].bearer) EXCEPT !.answer = "none"]
                 ELSE req[p]]
    /\ UNCHANGED <<server, kept, template, troubles>>

Retryable == {"busy", "unreachable"}
Refusals == {"unauthorized", "forbidden"}

\* A request that was refused, and has not been before, tries once more with a new login:
\* also one that was aborted meanwhile, though no further than to the login's end.
MayRefresh(x, error) == error \in Refusals /\ x.kind = "json" /\ ~x.refreshed
Refreshing(x) == [x EXCEPT !.refreshed = TRUE, !.refreshing = TRUE, !.bearer = None,
                           !.answer = "none"]

\* Any other error ends it, unless it has retries left; a stream has none, nor has one
\* whose second login failed.
Thrown(x, error) ==
    IF /\ error \in Retryable /\ x.attempt < MaxRetries
       /\ x.kind = "json" /\ ~x.refreshing /\ ~x.aborted
    THEN [x EXCEPT !.pc = "backoff", !.attempt = @ + 1, !.bearer = None, !.answer = "none"]
    ELSE IdleRequest

\* All who shared it fail with it; a wrong password is tried once more, together.
LoginFailed(q) ==
    LET error == req[q].answer
        again == {p \in Served(q) : MayRefresh(req[p], error)}
    IN
    /\ req[q].pc = "loginReply" /\ error # "ok"
    /\ token' = IF again = {} THEN token ELSE None
    /\ \E leader \in IF again = {} THEN {None} ELSE again :
         /\ loginInFlight' = leader
         /\ req' = [p \in Requests |->
                      CASE p \in again ->
                             [Refreshing(req[p]) EXCEPT !.pc = IF p = leader THEN "login"
                                                               ELSE "await"]
                        [] p \in Served(q) \ again -> Thrown(req[p], error)
                        [] OTHER -> req[p]]
    /\ UNCHANGED <<server, cache, template, troubles>>

\* onToken's updates land in any order, or are lost.
SaveToken(t) ==
    /\ t \in saving
    /\ saving' = saving \ {t}
    /\ kept' \in {kept, t}
    /\ UNCHANGED <<server, token, loginInFlight, template, req, troubles>>

\* clientFor: the next job or handler has a client of its own, with the saved token.
NewClient ==
    /\ \A q \in Requests : req[q].pc = "idle"
    /\ token # kept \/ template # None
    /\ token' = kept
    /\ template' = None
    /\ UNCHANGED <<server, cache, loginInFlight, req, troubles>>

-----------------------------------------------------------------------------
(***************************************************************************)
(* The server's answers.                                                   *)
(***************************************************************************)
Expire ==
    /\ expiries < MaxExpiries
    /\ expiries' = expiries + 1
    /\ UNCHANGED <<password, style, permits, present, cache, token, loginInFlight,
                   template, req, troubles>>

\* A server of the "library" style does not know a file's bare URL either.
ServeDownload(url) ==
    IF url \in {"item", "library"} /\ url # style THEN "missing"
    ELSE IF "download" \notin permits THEN "forbidden"
    ELSE IF url = "bare" /\ style = "library" THEN "missing"
    ELSE IF present THEN "ok" ELSE "missing"

\* A proxy may object to the size before the server objects to the account.
ServeUpload == {"tooLarge", IF "upload" \in permits THEN "ok" ELSE "forbidden"}

\* checkAuth, then the route.
ServeAnswers(x) ==
    IF x.bearer # expiries THEN {"unauthorized"}
    ELSE IF x.kind = "json" THEN {"ok"}
    ELSE IF x.kind = "upload" THEN ServeUpload ELSE {ServeDownload(Head(x.urls))}

Serve(q) ==
    /\ req[q].pc = "sent"
    /\ \E answer \in ServeAnswers(req[q]) :
          req' = [req EXCEPT ![q] = [@ EXCEPT !.pc = "reply", !.answer = answer]]
    /\ UNCHANGED <<server, cache, token, loginInFlight, template, troubles>>

-----------------------------------------------------------------------------
(***************************************************************************)
(* What the client makes of them.                                          *)
(***************************************************************************)
\* The URL that worked is tried first the next time.  (Variant: a file's too.)
AcceptAny(q) ==
    /\ req[q].answer = "ok"
    /\ template' = IF req[q].urls # <<>> THEN Head(req[q].urls) ELSE template
    /\ req' = [req EXCEPT ![q] = IdleRequest]
    /\ UNCHANGED <<token, loginInFlight>>

Accept(q) ==
    /\ req[q].answer = "ok"
    /\ template' = IF req[q].kind \in Downloads THEN Head(req[q].urls) ELSE template
    /\ req' = [req EXCEPT ![q] = IdleRequest]
    /\ UNCHANGED <<token, loginInFlight>>

\* A refused request drops the token, whoever has set it since.  (Variant: it keeps it.)
RefreshKeepsToken(q) ==
    /\ MayRefresh(req[q], req[q].answer)
    /\ EnsureToken(q, Refreshing(req[q]), token)
    /\ UNCHANGED template

Refresh(q) ==
    /\ MayRefresh(req[q], req[q].answer)
    /\ EnsureToken(q, Refreshing(req[q]), None)
    /\ UNCHANGED template

\* 404 or 405: the next URL, if there is one.
MayTryNext(x) == x.answer = "missing" /\ Len(x.urls) > 1
TryNext(q) ==
    /\ MayTryNext(req[q])
    /\ EnsureToken(q, [req[q] EXCEPT !.urls = Tail(@), !.bearer = None, !.answer = "none"],
                   token)
    /\ UNCHANGED template

Throw(q) ==
    /\ req[q].answer # "ok"
    /\ ~MayRefresh(req[q], req[q].answer) /\ ~MayTryNext(req[q])
    /\ req' = [req EXCEPT ![q] = Thrown(req[q], req[q].answer)]
    /\ UNCHANGED <<token, loginInFlight, template>>

Receive(q) ==
    /\ req[q].pc = "reply"
    /\ Accept(q) \/ Refresh(q) \/ TryNext(q) \/ Throw(q)
    /\ UNCHANGED <<server, cache, troubles>>

BackoffOver(q) ==
    /\ req[q].pc = "backoff"
    /\ EnsureToken(q, req[q], token)
    /\ UNCHANGED <<server, cache, template, troubles>>

\* Where a request notices its signal: on its way, in its pause, and as it reads the body
\* of a good answer; that of an error is not missed, and the error is acted upon.
Stops(x) == x.pc \in {"sent", "backoff"} \/ (x.pc = "reply" /\ x.answer = "ok")

\* The caller's signal.  It ends a request and a pause, but not a login, for which others
\* may be waiting.  (Variant: that too.)
AbortLogin(q) ==
    /\ req[q].pc # "idle" /\ ~req[q].aborted
    /\ req' = [req EXCEPT ![q] = IdleRequest]
    /\ UNCHANGED <<server, cache, token, loginInFlight, template, troubles>>

Abort(q) ==
    /\ req[q].pc # "idle" /\ ~req[q].aborted
    /\ req' = [req EXCEPT ![q] = IF Stops(@) THEN IdleRequest ELSE [@ EXCEPT !.aborted = TRUE]]
    /\ UNCHANGED <<server, cache, token, loginInFlight, template, troubles>>

RequestStep(q) ==
    \/ ServeLogin(q) \/ LoginDone(q) \/ LoginFailed(q)
    \/ Serve(q) \/ Receive(q) \/ BackoffOver(q)

Next ==
    \/ \E q \in Requests, kind \in Kinds : Ask(q, kind)
    \/ \E q \in Requests : RequestStep(q) \/ Troubled(q) \/ Abort(q)
    \/ \E t \in Tokens : SaveToken(t)
    \/ NewClient \/ Expire

Spec == Init /\ [][Next]_vars

\* The server answers, or the request times out.
FairSpec == Spec /\ \A q \in Requests : WF_vars(RequestStep(q))
-----------------------------------------------------------------------------
\* However many requests find no token, or are refused at once, one login is under way.
OneLogin == Cardinality({q \in Requests : req[q].pc \in {"login", "loginReply"}}) <= 1

\* The error is what its caller is told, unless that has aborted it.
Fails(q, answer) ==
    Receive(q) /\ req[q].answer = answer /\ ~req[q].aborted /\ req'[q].pc = "idle"

\* The tokens expiring once costs no JSON request its answer, whether the token was
\* another's, a saved one, or got by a login that was under way at the time.
SurvivesExpiry ==
    [][\A q \in Requests :
         Fails(q, "unauthorized") /\ req[q].kind = "json" => expiries > 1]_vars

\* A download is only told that there is no such item when there is none, whichever URLs
\* the server knows and whatever another download has learnt of it meanwhile: unless it was
\* asked for without the library's id, and the server knows no URL without it.
DownloadFinds ==
    [][\A q \in Requests :
         Fails(q, "missing")
           => ~present \/ (req[q].kind = "itemDownload" /\ style = "library")]_vars

\* Every request comes to an end, even one that waits for the login of another that was
\* aborted.
Answered == \A q \in Requests : req[q].pc # "idle" ~> req[q].pc = "idle"
=============================================================================
