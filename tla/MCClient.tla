------------------------------ MODULE MCClient ------------------------------
(* Three small instances.  The client: both styles of server, accounts that may   *)
(* do everything, download and nothing, a saved token and none, a wrong password, *)
(* and an item that is not there.  The upload: one, over node:http.               *)
(* The spool: an item of two chapters and a cover, and what may become of it.     *)
(* They share nothing here; while one moves the others stay in their initial      *)
(* states.                                                                        *)
EXTENDS AbsClient, NodeUpload, Spool

VARIABLE part

Chapter(ino, name, size) ==
    [ino |-> ino, name |-> name, size |-> size, told |-> TRUE, kind |-> "audio"]
First == Chapter("i1", "a", 2)
Second == Chapter("i2", "b", 1)
Cover == [Chapter("i9", "cover", 1) EXCEPT !.kind = "image"]
Usual == [files |-> <<First, Cover, Second>>, audio |-> <<First, Second>>]

\* As it should be; with a chapter less; with an ino of before a remount in media.*; with a
\* chapter that libraryFiles lacks; without libraryFiles; with a file that was replaced,
\* one of no size and one of no type; with the chapter of no type under another ino; too
\* large.
MCItems ==
    {Usual,
     [files |-> <<Second, Cover>>, audio |-> <<Second>>],
     [Usual EXCEPT !.audio = <<Chapter("i5", "a", 2), First, Second>>],
     [Usual EXCEPT !.files = <<Second>>],
     [Usual EXCEPT !.files = <<>>],
     [Usual EXCEPT !.files = <<[First EXCEPT !.size = 1], Second>>],
     [Usual EXCEPT !.files = <<[First EXCEPT !.told = FALSE], [Second EXCEPT !.kind = "other"]>>],
     [Usual EXCEPT !.files = <<First, [Second EXCEPT !.kind = "other", !.ino = "i6"]>>],
     [Usual EXCEPT !.files = <<[First EXCEPT !.size = 4], Second>>]}

Account == [password |-> TRUE, style |-> "item", permits |-> {"download", "upload"},
            present |-> TRUE, kept |-> 0]
MCAccounts ==
    {[Account EXCEPT !.style = "library"], [Account EXCEPT !.kept = None, !.permits = {"download"}],
     [Account EXCEPT !.permits = {}, !.present = FALSE],
     [Account EXCEPT !.password = FALSE]}

MCInit ==
    /\ Init /\ UploadInit /\ SpoolInit
    /\ part \in {"client", "upload", "spool"}
    /\ item = Usual
    /\ part \in {"upload", "spool"} => style = "library"
\* Of two requests under way at once one is for JSON, or both are downloads and one of them
\* knows its library: the others have only the login in common.  With the account that may
\* only download there are no others than JSON and downloads.
Together ==
    \A q, r \in Requests :
        \/ q = r \/ "json" \in {req[q].kind, req[r].kind}
        \/ {req[q].kind, req[r].kind} \in {{"download"}, Downloads}
Asked == permits = {"download"} => \A q \in Requests : req[q].kind \in {"json"} \cup Downloads

MCNext ==
    /\ \/ part = "client" /\ Next /\ Together' /\ Asked' /\ UNCHANGED <<uploadVars, spoolVars>>
       \/ part = "upload" /\ UploadNext /\ UNCHANGED <<vars, spoolVars>>
       \/ part = "spool" /\ SpoolNext /\ UNCHANGED <<vars, uploadVars>>
    /\ UNCHANGED part
\* Fairness as AbsClient and NodeUpload state it; that of the upload while it is its turn.
MCSpec ==
    /\ MCInit /\ [][MCNext]_<<vars, uploadVars, spoolVars, part>>
    /\ \A q \in Requests : WF_vars(RequestStep(q))
    /\ WF_uploadVars(part = "upload" /\ Destroy)
    /\ WF_uploadVars(part = "upload" /\ CollectFails)
    /\ WF_uploadVars(part = "upload" /\ ErrorEvent)

TypesOK == TypeOK /\ UploadTypeOK /\ SpoolTypeOK

\* The property of the upload, in the runs in which it is its turn.
UploadEnds == part = "upload" => Ends
=============================================================================
