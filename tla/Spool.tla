-------------------------------- MODULE Spool --------------------------------
(***************************************************************************)
(* The files of one transfer: which ones the source is asked for            *)
(* (listItemFilesDetailed in packages/abs-client/src/client.ts), what each  *)
(* attempt leaves in the spool and takes from there again, and what is      *)
(* uploaded in the end (runJob and the helpers below it in                  *)
(* apps/web/lib/sync-worker.ts).                                            *)
(*                                                                         *)
(* SyncWorker.tla has the life of a job and counts files; here there is one *)
(* job, and the files have inos, names and sizes.  The item may change at   *)
(* its server at any time, and so may what the server knows of it.          *)
(* Contents are not modelled, only how many bytes there are of them.        *)
(***************************************************************************)
EXTENDS Integers, FiniteSets, Sequences, SequencesExt, Functions

CONSTANTS
    Items,        \* bound: the states the item goes through at the source
    MaxChanges,   \* bound: how often it changes
    MaxAttempts,  \* ABS_SYNC_MAX_ATTEMPTS
    MaxItemSize,  \* ABS_SYNC_MAX_ITEM_BYTES
    Absent        \* no such file in the spool

\* What the source says of a file; told if it gives the size.
FileKinds == {"audio", "ebook", "image", "other"}
IsFile(f) == f \in [ino : {f.ino}, name : {f.name}, size : Nat, told : BOOLEAN,
                    kind : FileKinds]

\* An item: its libraryFiles, in order, and the audio that media.* knows; of both, each ino
\* once, as the Map of listItemFilesDetailed has it.  What libraryFiles has of that audio, by
\* ino or by name, is audio there too or is of no type, and its ino goes with its name.
ASSUME SpoolAssumption ==
    /\ MaxChanges \in Nat /\ MaxAttempts \in Nat \ {0} /\ MaxItemSize \in Nat
    /\ Absent \notin Nat
    /\ \A i \in Items :
         /\ \A list \in {i.files, i.audio} :
              /\ list \in Seq(ToSet(list)) /\ \A f \in ToSet(list) : IsFile(f)
              /\ \A m, n \in DOMAIN list : list[m].ino = list[n].ino => m = n
         /\ \A a \in ToSet(i.audio) :
              /\ a.kind = "audio"
              /\ \A f \in ToSet(i.files) :
                   /\ f.ino = a.ino => f.name = a.name
                   /\ f.ino = a.ino \/ f.name = a.name => f.kind \in {"audio", "other"}

VARIABLES
    item,      \* the item as it is at the source
    changes,   \* how often it has changed
    pc,        \* where the attempt is; "queued" between attempts
    attempt,   \* how many there have been
    seen,      \* the item as this attempt listed it
    todo,      \* the files of the loop that are still to come
    parts,     \* downloaded: what will be uploaded
    spool,     \* how many bytes there are under each path
    whole      \* history: files fetched whole, and listed ever since

spoolVars == <<item, changes, pc, attempt, seen, todo, parts, spool, whole>>

NoItem == [files |-> <<>>, audio |-> <<>>]

\* spoolPathFor.  (Variant: by the place in the list.)
PathByPlace(file, files) == <<CHOOSE n \in DOMAIN files : files[n] = file, file.name>>
Path(file, files) == <<file.ino, file.name>>

SpoolTypeOK ==
    /\ item \in Items /\ changes \in 0..MaxChanges /\ attempt \in 0..MaxAttempts
    /\ pc \in {"queued", "listed", "download", "fetching", "upload", "completed", "failed"}
    /\ seen \in Items \cup {NoItem}
    /\ Len(todo) <= Len(seen.files) + Len(seen.audio)
    /\ \A p \in ToSet(parts) : p.bytes \in Nat
    /\ \A path \in DOMAIN spool : spool[path] \in Nat

SpoolInit ==
    /\ item \in Items /\ changes = 0
    /\ pc = "queued" /\ attempt = 0 /\ seen = NoItem /\ todo = <<>> /\ parts = <<>>
    /\ spool = <<>> /\ whole = {}

\* The server looks an ino up in libraryFiles, if the item has any.
Serves(i, ino) == {f \in ToSet(IF i.files = <<>> THEN i.audio ELSE i.files) : f.ino = ino}

\* A re-scan, a remount, an upload, an edit: the source says something else.
Change(i) ==
    /\ changes < MaxChanges /\ i # item
    /\ changes' = changes + 1
    /\ item' = i
    /\ UNCHANGED <<pc, attempt, seen, todo, parts, spool, whole>>

-----------------------------------------------------------------------------
(***************************************************************************)
(* listItemFilesDetailed.                                                  *)
(***************************************************************************)
Inos(i) == {f.ino : f \in ToSet(i.files)}
NamesSeen(i) == {f.name : f \in ToSet(i.files)}

\* What libraryFiles lists, and as audio what media.* knows to be; without any
\* libraryFiles, what media.* lists.
FromLibrary(i) ==
    [n \in DOMAIN i.files |->
        IF i.files[n].kind = "other" /\ \E a \in ToSet(i.audio) : a.ino = i.files[n].ino
        THEN [i.files[n] EXCEPT !.kind = "audio"] ELSE i.files[n]]
Listing(i) == IF i.files = <<>> THEN i.audio ELSE FromLibrary(i)

\* Audio that no ino of libraryFiles serves: a file of that name is there, under another
\* ino, or there is none.  (Variant: it is taken for the former.)
UnfetchableNever(i) == {}
Unfetchable(i) ==
    {a \in ToSet(i.audio) : i.files # <<>> /\ a.ino \notin Inos(i) /\ a.name \notin NamesSeen(i)}

TRANSFERABLE == {"audio", "ebook", "image"}

\* Those that are transferred, in their order.
Transferable(i) ==
    LET listed == Listing(i)
        upTo[n \in 0..Len(listed)] ==
            IF n = 0 THEN <<>>
            ELSE IF listed[n].kind \in TRANSFERABLE
                 THEN Append(upTo[n - 1], listed[n]) ELSE upTo[n - 1]
    IN upTo[Len(listed)]

ReportedSize(file) == IF file.told THEN file.size ELSE 0
TotalSize(files) == FoldSeq(LAMBDA f, sum : sum + ReportedSize(f), 0, files)

-----------------------------------------------------------------------------
(***************************************************************************)
(* One attempt.                                                            *)
(***************************************************************************)
\* The catch block: the job waits for another attempt or has failed; either way what is
\* in the spool is kept.
AttemptEnds ==
    /\ pc' = IF attempt < MaxAttempts THEN "queued" ELSE "failed"
    /\ seen' = NoItem /\ todo' = <<>> /\ parts' = <<>>

Attempt ==
    LET files == Transferable(item) IN
    /\ pc = "queued"
    /\ attempt' = attempt + 1
    /\ Unfetchable(item) = {} /\ (\E f \in ToSet(files) : f.kind = "audio")
    /\ TotalSize(files) <= MaxItemSize
    /\ pc' = "listed" /\ seen' = item /\ todo' = files
    /\ UNCHANGED <<item, changes, parts, spool, whole>>

\* Chapters would be missing, it would be no audiobook, or it is too large.
Refused ==
    LET files == Transferable(item) IN
    /\ pc = "queued"
    /\ attempt' = attempt + 1
    /\ \/ Unfetchable(item) # {} \/ ~\E f \in ToSet(files) : f.kind = "audio"
       \/ TotalSize(files) > MaxItemSize
    /\ pc' = IF attempt' < MaxAttempts THEN "queued" ELSE "failed"
    /\ UNCHANGED <<item, changes, seen, todo, parts, spool, whole>>

\* discardStaleSpoolFiles.
Discard ==
    /\ pc = "listed" /\ pc' = "download"
    /\ spool' = Restrict(spool, DOMAIN spool \cap {Path(f, todo) : f \in ToSet(todo)})
    /\ whole' = whole \cap ToSet(todo)
    /\ UNCHANGED <<item, changes, attempt, seen, todo, parts>>

Expected == Transferable(seen)
InSpool(path) == IF path \in DOMAIN spool THEN spool[path] ELSE Absent

\* completeOnDisk: as large as the source says, if it says.  (Variant: there at all.)
OnDiskAtAll(file) == InSpool(Path(file, Expected)) # Absent
CompleteOnDisk(file) ==
    ReportedSize(file) > 0 /\ InSpool(Path(file, Expected)) = file.size

Taken(file, bytes) == Append(parts, [file |-> file, bytes |-> bytes])
Filled(file, bytes) == [path \in DOMAIN spool \cup {Path(file, Expected)} |->
                           IF path = Path(file, Expected) THEN bytes ELSE spool[path]]

Reuse ==
    /\ pc = "download" /\ todo # <<>> /\ CompleteOnDisk(Head(todo))
    /\ parts' = Taken(Head(todo), InSpool(Path(Head(todo), Expected)))
    /\ todo' = Tail(todo)
    /\ UNCHANGED <<item, changes, pc, attempt, seen, spool, whole>>

OnServer(ino) == Serves(item, ino)

\* createWriteStream empties what there is.
Open ==
    /\ pc = "download" /\ todo # <<>> /\ ~CompleteOnDisk(Head(todo))
    /\ OnServer(Head(todo).ino) # {}
    /\ pc' = "fetching"
    /\ spool' = Filled(Head(todo), 0)
    /\ UNCHANGED <<item, changes, attempt, seen, todo, parts, whole>>

\* The stream ends, maybe before its time; a file of another size than was listed is an
\* error, if one was.
Mismatch(file, bytes) == ReportedSize(file) > 0 /\ bytes # ReportedSize(file)

Fetched(bytes) ==
    LET file == Head(todo) IN
    /\ pc = "fetching"
    /\ \E f \in OnServer(file.ino) : bytes <= f.size
    /\ ~Mismatch(file, bytes)
    /\ spool' = Filled(file, bytes)
    /\ parts' = Taken(file, bytes)
    /\ todo' = Tail(todo)
    /\ pc' = "download"
    /\ whole' = IF ReportedSize(file) > 0 THEN whole \cup {file} ELSE whole
    /\ UNCHANGED <<item, changes, attempt, seen>>

Truncated(bytes) ==
    LET file == Head(todo) IN
    /\ pc = "fetching"
    /\ \E f \in OnServer(file.ino) : bytes <= f.size
    /\ Mismatch(file, bytes)
    /\ spool' = Filled(file, bytes)
    /\ AttemptEnds
    /\ UNCHANGED <<item, changes, attempt, whole>>

\* The connection breaks, the process stops, the ino is not there: some bytes are.
Breaks(bytes) ==
    /\ pc \in {"listed", "download", "fetching", "upload"}
    /\ IF pc = "fetching"
       THEN /\ bytes <= Head(todo).size /\ spool' = Filled(Head(todo), bytes)
       ELSE /\ bytes = 0 /\ UNCHANGED spool
    /\ AttemptEnds
    /\ UNCHANGED <<item, changes, attempt, whole>>

Loaded ==
    /\ pc = "download" /\ todo = <<>>
    /\ pc' = "upload"
    /\ UNCHANGED <<item, changes, attempt, seen, todo, parts, spool, whole>>

\* The upload is accepted, and the spool is dropped.
Uploaded ==
    /\ pc = "upload"
    /\ pc' = "completed"
    /\ spool' = <<>> /\ whole' = {}
    /\ UNCHANGED <<item, changes, attempt, seen, todo, parts>>

Bytes == 0..MaxItemSize

SpoolNext ==
    \/ \E i \in Items : Change(i)
    \/ Attempt \/ Refused \/ Discard \/ Reuse \/ Open \/ Loaded \/ Uploaded
    \/ \E bytes \in Bytes : Fetched(bytes) \/ Truncated(bytes) \/ Breaks(bytes)

SpoolSpec == SpoolInit /\ [][SpoolNext]_spoolVars
-----------------------------------------------------------------------------
Uploading == pc \in {"upload", "completed"}

\* What is uploaded is each file of the listing once, and each of them as large as the
\* listing had it, if the source told its size: after whatever attempts broke off, whatever
\* they left in the spool, and whatever became of the item meanwhile.
UploadWhole ==
    Uploading =>
        /\ [n \in DOMAIN parts |-> parts[n].file] = Expected
        /\ \A p \in ToSet(parts) :
             ReportedSize(p.file) > 0 => p.bytes = p.file.size
        /\ pc = "upload" =>
             /\ \A p \in ToSet(parts) : InSpool(Path(p.file, Expected)) = p.bytes
             /\ DOMAIN spool = {Path(p.file, Expected) : p \in ToSet(parts)}

\* The listing is right.  "an audiobook with chapters silently missing": what media.* knows
\* as audio of the item is uploaded, every name of it; unless libraryFiles has it under
\* another ino than media.* and does not say that it is audio.  "Trusting media.* for inos
\* queues transfers that cannot succeed": as long as the item stays what was listed, its
\* server has every file that is asked for.
ListingRight ==
    /\ Uploading => \A a \in ToSet(seen.audio) :
         \/ \E p \in ToSet(parts) : p.file.name = a.name /\ p.file.kind = "audio"
         \/ \E f \in ToSet(seen.files) : f.name = a.name /\ f.kind = "other"
    /\ pc \in {"download", "fetching"} /\ item = seen =>
         \A f \in ToSet(todo) : OnServer(f.ino) # {}

\* "so a source that gains or loses a file does not invalidate everything already
\* downloaded": what was fetched whole, and has been listed as it is since, is not opened
\* again.
FetchedOnce == [][Open => Head(todo) \notin whole]_spoolVars
=============================================================================
