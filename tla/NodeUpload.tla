------------------------------ MODULE NodeUpload ------------------------------
(***************************************************************************)
(* One upload over node:http (apps/web/lib/node-upload.ts): when the body  *)
(* is sent, and what settles the promise among the response, the source,   *)
(* the socket, the two timers and the caller's signal.                     *)
(*                                                                         *)
(* Destroying the request is one step, the error event and the pipeline's  *)
(* rejection that it causes are others, in either order.                   *)
(***************************************************************************)
VARIABLES
    timer,     \* continueTimer is armed
    body,      \* "held" back, "sending", "sent", or "broken" off
    socket,    \* "open", "destroyed", or "closed" once its error event was delivered
    piping,    \* the pipeline still has its outcome to tell
    head,      \* the head of the response: "none", "answer" or "redirect"
    promise    \* "pending", "collecting" the answer's body, "resolved" or "rejected"

uploadVars == <<timer, body, socket, piping, head, promise>>

UploadTypeOK ==
    /\ timer \in BOOLEAN /\ piping \in BOOLEAN
    /\ body \in {"held", "sending", "sent", "broken"}
    /\ socket \in {"open", "destroyed", "closed"}
    /\ head \in {"none", "answer", "redirect"}
    /\ promise \in {"pending", "collecting", "resolved", "rejected"}

UploadInit ==
    /\ timer = TRUE /\ piping = FALSE
    /\ body = "held" /\ socket = "open" /\ head = "none" /\ promise = "pending"

Settled == promise # "pending"

\* finish: the first to come settles the promise.  (Variant: the last.)
FinishAlways(outcome) == promise' = outcome
Finish(outcome) == promise' = IF Settled THEN promise ELSE outcome

StartBody ==
    IF body = "held" /\ ~Settled
    THEN body' = "sending" /\ piping' = TRUE
    ELSE UNCHANGED <<body, piping>>

\* The server asks for the body, or has kept silent for CONTINUE_TIMEOUT_MS.
Continue ==
    /\ socket = "open" /\ head = "none"
    /\ timer' = FALSE
    /\ StartBody
    /\ UNCHANGED <<socket, head, promise>>

ContinueTimeout ==
    /\ timer
    /\ timer' = FALSE
    /\ StartBody
    /\ UNCHANGED <<socket, head, promise>>

BodySent ==
    /\ body = "sending" /\ socket = "open"
    /\ body' = "sent" /\ piping' = FALSE
    /\ UNCHANGED <<timer, socket, head, promise>>

\* A file of the spool cannot be read: the pipeline destroys the request.
SourceFails ==
    /\ body = "sending" /\ socket = "open"
    /\ body' = "broken" /\ socket' = "destroyed"
    /\ UNCHANGED <<timer, piping, head, promise>>

\* The connection breaks, IDLE_TIMEOUT_MS go by, or the caller's signal fires.
Destroy ==
    /\ socket = "open"
    /\ socket' = "destroyed"
    /\ UNCHANGED <<timer, body, piping, head, promise>>

\* A redirect cannot be followed; anything else is read before hanging up.
Response(kind) ==
    /\ socket = "open" /\ head = "none"
    /\ head' = kind /\ timer' = FALSE
    /\ Finish(IF kind = "redirect" THEN "rejected" ELSE "collecting")
    /\ socket' = IF kind = "redirect" THEN "destroyed" ELSE socket
    /\ UNCHANGED <<body, piping>>

\* collectResponse: the answer's body ends, and the request is destroyed.
Collect ==
    /\ promise = "collecting" /\ socket = "open"
    /\ promise' = "resolved"
    /\ socket' = "destroyed"
    /\ UNCHANGED <<timer, body, piping, head>>

\* Or it breaks off.
CollectFails ==
    /\ promise = "collecting" /\ socket # "open"
    /\ promise' = "rejected"
    /\ UNCHANGED <<timer, body, socket, piping, head>>

\* (Variant: nobody listens for it until the body is under way.)
ErrorEventUnheard ==
    /\ socket = "destroyed"
    /\ socket' = "closed" /\ timer' = FALSE
    /\ UNCHANGED <<body, piping, head, promise>>

ErrorEvent ==
    /\ socket = "destroyed"
    /\ socket' = "closed" /\ timer' = FALSE
    /\ Finish("rejected")
    /\ UNCHANGED <<body, piping, head>>

\* A body that starts on a destroyed request breaks off too.
PipelineRejects ==
    /\ piping /\ socket # "open"
    /\ piping' = FALSE
    /\ body' = "broken"
    /\ Finish("rejected")
    /\ UNCHANGED <<timer, socket, head>>

UploadNext ==
    \/ Continue \/ ContinueTimeout \/ BodySent \/ SourceFails \/ Destroy
    \/ Response("answer") \/ Response("redirect") \/ Collect \/ CollectFails
    \/ ErrorEvent \/ PipelineRejects

UploadSpec == UploadInit /\ [][UploadNext]_uploadVars

\* The idle timer fires sooner or later, and Node delivers the events of a destroyed request.
UploadFairness == WF_uploadVars(Destroy) /\ WF_uploadVars(CollectFails) /\ WF_uploadVars(ErrorEvent)
FairUploadSpec == UploadSpec /\ UploadFairness
-----------------------------------------------------------------------------
\* Nothing hangs: whatever the server, the source and the socket do, and in whatever order
\* their events come, the upload ends with an answer or an error.
Ends == <>(promise \in {"resolved", "rejected"})

\* A server that has answered is heard: no later failure of the body, the socket or a
\* timer turns an answer that was read into an error, and while the answer can be read the
\* failure that hanging up causes does not replace it.
AnswerTold ==
    [][(head = "answer" /\ promise' = "rejected" /\ promise # "rejected") =>
         promise = "collecting" /\ socket # "open"]_uploadVars
=============================================================================
