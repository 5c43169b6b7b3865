------------------------------ MODULE Uploads ------------------------------
(***************************************************************************)
(* Batch uploads of the dashboard page (handleUploadQueue): each drop of   *)
(* files is a batch that encrypts and sends one file after the other, asks *)
(* about names that are taken, and lists the folder again at the end.  A   *)
(* new batch aborts the one before, which notices at its next check; both  *)
(* write the same panel, upload zone and prompt.  An upload request that   *)
(* was sent may be served after its batch has given it up.                 *)
(*                                                                         *)
(* One folder is open, below the root, and the server is reached (no       *)
(* sandbox); the files over the size limit are already sorted out.         *)
(***************************************************************************)
EXTENDS Naturals, FiniteSets

CONSTANTS
    File,       \* the paths, below the open folder, that batches upload
    InDir,      \* those that lie in a directory of the dropped folder
    MaxBatch,   \* bound: how many batches are dropped
    MaxFiles,   \* bound: how many files they hold together
    MaxUpsets,  \* bound: how many failures, cancellations, dismissals of the panel
                \* and deletions by another tab there are
    Old,        \* who uploaded what the folder holds already
    Nil

ASSUME FileAssumption == IsFiniteSet(File) /\ InDir \subseteq File
ASSUME BoundAssumption == MaxBatch \in Nat /\ MaxFiles \in Nat /\ MaxUpsets \in Nat
ASSUME NilAssumption == Old \notin Nat /\ Nil \notin Nat \cup {Old} \cup File

Batch == 1..MaxBatch

\* A document is named for its path and its uploader.
Doc == File \X (Batch \cup {Old})

VARIABLES
    \* the server
    live,       \* the documents that are not deleted
    pending,    \* the upload requests sent and not yet served
    \* the page
    documents,
    panel,      \* batchUploads: the state of each entry, or "absent"
    zone,       \* uploadState
    prompt,     \* the batch whose duplicateFilePrompt is shown
    current,    \* the batch of abortControllerRef
    aborted,    \* the batches whose signal is aborted
    timers,     \* the timeouts that will set the zone to "idle"
    \* the batches
    phase, item, queue, choice,
    seen,       \* the listing of the render the batch belongs to, then the
                \* one its reload has fetched
    knows,      \* the batches whose allFolders has the directory
    renamed,    \* the documents that were given a name of their own
    \* history
    dropped,    \* how many files have been dropped
    upsets,     \* how many of these have happened
    latest,     \* the batch that was started last
    stored,     \* the documents the server has accepted
    replaced,   \* the documents whose upload began by deleting another
    hidden      \* the batches whose entries were cleared off the panel

server == <<live, pending>>
page == <<documents, panel, zone, prompt, current, aborted, timers>>
batch == <<phase, item, queue, choice, seen, knows, renamed>>
marks == <<dropped, latest, stored, replaced, hidden>>
history == <<upsets, marks>>
vars == <<server, page, batch, history>>

-----------------------------------------------------------------------------
EmptyPanel == [f \in File |-> "absent"]
Listed == {d \in live : d[1] \notin InDir}

\* The unique index: no other live document has the name.
NameFree(d) == d \in renamed \/ \A e \in live : e[1] = d[1] => e \in renamed

\* existingDocs.find: the document of the batch's listing that has the name.
Duplicates(b, f) == {d \in seen[b] : d[1] = f /\ d \notin renamed}

Upload(b) == <<item[b], b>>
Goto(b, p) == phase' = [phase EXCEPT ![b] = p]
ShowEntry(b, s) == panel' = [panel EXCEPT ![item[b]] = s]

\* Mutant of Abort: the batch in progress goes on.
AbortNothing == aborted' = aborted

\* abortControllerRef.current?.abort()
Abort == aborted' = aborted \cup ({current} \ {Nil})

Upset == upsets < MaxUpsets /\ upsets' = upsets + 1

\* The batch returns: its locals are gone.
Return(b) ==
    /\ Goto(b, "done")
    /\ item' = [item EXCEPT ![b] = Nil]
    /\ queue' = [queue EXCEPT ![b] = {}]
    /\ choice' = [choice EXCEPT ![b] = "new"]
    /\ seen' = [seen EXCEPT ![b] = {}]

\* catch of uploadWorker: the entry of the path fails, whosever it is by now.
EntryFails(b) == ShowEntry(b, "failed") /\ Goto(b, "next")

-----------------------------------------------------------------------------
\* handleUploadQueue.
Start(b, fs) ==
    /\ phase[b] = "new" /\ \A c \in 1..b-1 : phase[c] # "new"
    /\ fs # {} /\ dropped + Cardinality(fs) <= MaxFiles
    /\ dropped' = dropped + Cardinality(fs)
    /\ Abort
    /\ current' = b /\ latest' = b
    /\ panel' = [f \in File |-> IF f \in fs THEN "encrypting" ELSE "absent"]
    /\ zone' = "encrypting"
    /\ Goto(b, "key")
    /\ queue' = [queue EXCEPT ![b] = fs]
    /\ seen' = [seen EXCEPT ![b] = documents]
    /\ UNCHANGED <<server, documents, prompt, timers, item, choice, knows, renamed,
                   upsets, stored, replaced, hidden>>

KeyReady(b) ==
    /\ phase[b] = "key"
    /\ Goto(b, "next")
    /\ UNCHANGED <<server, page, item, queue, choice, seen, knows, renamed, history>>

\* The outer catch: the entries stay "encrypting".
KeyFails(b) ==
    /\ phase[b] = "key" /\ Upset
    /\ zone' = "idle"
    /\ Goto(b, "reload")
    /\ UNCHANGED <<server, documents, panel, prompt, current, aborted, timers, item,
                   queue, choice, seen, knows, renamed, marks>>

\* The next file: its directory is created if the batch does not know it.  In
\* the open folder a file whose name is taken asks the user; a prompt that is
\* still open is replaced, and its batch waits for ever.
Pick(b, f) ==
    /\ phase[b] = "next" /\ b \notin aborted /\ f \in queue[b]
    /\ item' = [item EXCEPT ![b] = f]
    /\ queue' = [queue EXCEPT ![b] = @ \ {f}]
    /\ choice' = [choice EXCEPT ![b] = "new"]
    /\ \/ /\ f \in InDir /\ b \notin knows
          /\ Goto(b, "folder") /\ UNCHANGED prompt
       \/ /\ f \in InDir => b \in knows
          /\ IF Duplicates(b, f) = {} THEN Goto(b, "encrypt") /\ UNCHANGED prompt
             ELSE Goto(b, "prompt") /\ prompt' = b
    /\ UNCHANGED <<server, documents, panel, zone, current, aborted, timers, seen,
                   knows, renamed, history>>

FolderMade(b) ==
    /\ phase[b] = "folder"
    /\ knows' = knows \cup {b}
    /\ Goto(b, IF b \in aborted THEN "next" ELSE "encrypt")
    /\ UNCHANGED <<server, page, item, queue, choice, seen, renamed, history>>

\* The directory exists already, or the request fails.
FolderFails(b) ==
    /\ phase[b] = "folder" /\ Upset
    /\ EntryFails(b)
    /\ UNCHANGED <<server, documents, zone, prompt, current, aborted, timers, item,
                   queue, choice, seen, knows, renamed, marks>>

\* Mutant of Answer: "skip" goes on with the upload.
AnswerSkipGoesOn(c) ==
    /\ prompt # Nil
    /\ prompt' = Nil
    /\ choice' = [choice EXCEPT ![prompt] = c]
    /\ Goto(prompt, IF prompt \in aborted THEN "next" ELSE "encrypt")
    /\ UNCHANGED <<server, documents, panel, zone, current, aborted, timers, item,
                   queue, seen, knows, renamed, history>>

\* The user answers the prompt on the screen; closing it skips the file.
Answer(c) ==
    /\ prompt # Nil
    /\ prompt' = Nil
    /\ \/ /\ c = "skip"
          /\ ShowEntry(prompt, "absent") /\ Goto(prompt, "next")
          /\ UNCHANGED choice
       \/ /\ c # "skip"
          /\ choice' = [choice EXCEPT ![prompt] = c]
          /\ Goto(prompt, IF prompt \in aborted THEN "next" ELSE "encrypt")
          /\ UNCHANGED panel
    /\ UNCHANGED <<server, documents, zone, current, aborted, timers, item, queue,
                   seen, knows, renamed, history>>

-----------------------------------------------------------------------------
\* fetch with the batch's signal: nothing is sent when it is aborted.
Send(b) ==
    \/ b \in aborted /\ Goto(b, "next") /\ UNCHANGED pending
    \/ b \notin aborted /\ Goto(b, "upload") /\ pending' = pending \cup {Upload(b)}

\* Mutant of Encrypted: the promise of an aborted encryption never settles.
EncryptedUnlessAborted(b) ==
    /\ phase[b] = "encrypt" /\ b \notin aborted
    /\ ShowEntry(b, "uploading")
    /\ IF choice[b] = "overwrite" THEN Goto(b, "delete") /\ UNCHANGED pending
       ELSE Send(b)
    /\ renamed' = IF choice[b] = "keep-both" THEN renamed \cup {Upload(b)} ELSE renamed
    /\ UNCHANGED <<live, documents, zone, prompt, current, aborted, timers, item,
                   queue, choice, seen, knows, history>>

Encrypted(b) ==
    /\ phase[b] = "encrypt"
    /\ \/ b \in aborted /\ Goto(b, "next") /\ UNCHANGED <<pending, panel, renamed>>
       \/ /\ b \notin aborted
          /\ ShowEntry(b, "uploading")
          /\ IF choice[b] = "overwrite" THEN Goto(b, "delete") /\ UNCHANGED pending
             ELSE Send(b)
          /\ renamed' = IF choice[b] = "keep-both" THEN renamed \cup {Upload(b)}
                        ELSE renamed
    /\ UNCHANGED <<live, documents, zone, prompt, current, aborted, timers, item,
                   queue, choice, seen, knows, history>>

EncryptFails(b) ==
    /\ phase[b] = "encrypt" /\ Upset
    /\ EntryFails(b)
    /\ UNCHANGED <<server, documents, zone, prompt, current, aborted, timers, item,
                   queue, choice, seen, knows, renamed, marks>>

\* "Overwrite" deletes the document first.  The DELETE has no signal; it fails
\* when the document is gone, and its answer may be lost.
DeleteOld(b) ==
    /\ phase[b] = "delete"
    /\ \/ /\ Duplicates(b, item[b]) \subseteq live
          /\ live' = live \ Duplicates(b, item[b])
          /\ replaced' = replaced \cup {Upload(b)}
          /\ \/ Send(b) /\ UNCHANGED <<panel, upsets>>
             \/ EntryFails(b) /\ Upset /\ UNCHANGED pending
       \/ /\ IF Duplicates(b, item[b]) \subseteq live THEN Upset ELSE UNCHANGED upsets
          /\ EntryFails(b) /\ UNCHANGED <<server, replaced>>
    /\ UNCHANGED <<documents, zone, prompt, current, aborted, timers, item, queue,
                   choice, seen, knows, renamed, dropped, latest, stored, hidden>>

\* The server stores the document, or refuses it: the name is taken, the quota
\* is reached.  A batch that is still waiting gets the answer.
Waiting(d) == phase[d[2]] = "upload" /\ Upload(d[2]) = d
Serve(d) ==
    /\ d \in pending
    /\ pending' = pending \ {d}
    /\ \/ /\ NameFree(d)
          /\ live' = live \cup {d} /\ stored' = stored \cup {d} /\ UNCHANGED upsets
          /\ IF Waiting(d) THEN Goto(d[2], "stored") ELSE UNCHANGED phase
       \/ /\ IF NameFree(d) THEN Upset ELSE UNCHANGED upsets
          /\ IF Waiting(d) THEN Goto(d[2], "refused") ELSE UNCHANGED phase
          /\ UNCHANGED <<live, stored>>
    /\ UNCHANGED <<page, item, queue, choice, seen, knows, renamed, dropped, latest, replaced,
                   hidden>>

\* Mutants of UploadDone: the signal is not checked after the request; the entry
\* is not updated.
UploadDoneAnyway(b) ==
    /\ phase[b] = "stored"
    /\ ShowEntry(b, "complete")
    /\ Goto(b, "next")
    /\ UNCHANGED <<server, documents, zone, prompt, current, aborted, timers, item,
                   queue, choice, seen, knows, renamed, history>>
UploadDoneUnshown(b) ==
    /\ phase[b] = "stored" /\ b \notin aborted
    /\ Goto(b, "next")
    /\ UNCHANGED <<server, page, item, queue, choice, seen, knows, renamed, history>>

UploadDone(b) ==
    /\ phase[b] = "stored" /\ b \notin aborted
    /\ ShowEntry(b, "complete")
    /\ Goto(b, "next")
    /\ UNCHANGED <<server, documents, zone, prompt, current, aborted, timers, item,
                   queue, choice, seen, knows, renamed, history>>

\* Mutant of UploadFails: the error of the server is ignored.
UploadRefusedUnshown(b) ==
    /\ phase[b] = "refused" /\ Goto(b, "next")
    /\ UNCHANGED <<server, page, item, queue, choice, seen, knows, renamed, history>>

\* An error of the server, or of the network at any moment.
UploadFails(b) ==
    /\ \/ phase[b] = "refused" /\ UNCHANGED upsets
       \/ phase[b] \in {"upload", "stored"} /\ b \notin aborted /\ Upset
    /\ EntryFails(b)
    /\ UNCHANGED <<server, documents, zone, prompt, current, aborted, timers, item,
                   queue, choice, seen, knows, renamed, marks>>

\* AbortError: the request may have left the browser, or not.
UploadAborted(b) ==
    /\ phase[b] \in {"upload", "stored", "refused"} /\ b \in aborted
    /\ pending' \in {pending, pending \ {Upload(b)}}
    /\ Goto(b, "next")
    /\ UNCHANGED <<live, page, item, queue, choice, seen, knows, renamed, history>>

-----------------------------------------------------------------------------
\* Mutant of End: the zone is not told that the batch is complete.
EndKeepsZone(b) ==
    /\ phase[b] = "next"
    /\ \/ /\ b \in aborted
          /\ zone' = "idle" /\ panel' = EmptyPanel
          /\ hidden' = hidden \cup {latest}
       \/ b \notin aborted /\ queue[b] = {} /\ UNCHANGED <<zone, panel, hidden>>
    /\ Goto(b, "reload")
    /\ UNCHANGED <<server, documents, prompt, current, aborted, timers, item, queue,
                   choice, seen, knows, renamed, upsets, dropped, latest, stored,
                   replaced>>

\* The loop is left.  A batch that was aborted clears the panel and the zone,
\* which may show another batch by now.
End(b) ==
    /\ phase[b] = "next"
    /\ \/ /\ b \in aborted
          /\ zone' = "idle" /\ panel' = EmptyPanel
          /\ hidden' = hidden \cup {latest}
          /\ UNCHANGED timers
       \/ /\ b \notin aborted /\ queue[b] = {}
          /\ zone' = "complete" /\ timers' = timers \cup {b}
          /\ UNCHANGED <<panel, hidden>>
    /\ Goto(b, "reload")
    /\ UNCHANGED <<server, documents, prompt, current, aborted, item, queue, choice,
                   seen, knows, renamed, upsets, dropped, latest, stored,
                   replaced>>

\* finally: the folder is listed again, whatever has become of the batch.
AnswerReload(b) ==
    /\ phase[b] = "reload"
    /\ Goto(b, "listed")
    /\ seen' = [seen EXCEPT ![b] = Listed]
    /\ UNCHANGED <<server, page, item, queue, choice, knows, renamed, history>>

ReloadArrives(b) ==
    /\ phase[b] = "listed"
    /\ documents' = seen[b]
    /\ Return(b)
    /\ UNCHANGED <<server, panel, zone, prompt, current, aborted, timers, knows,
                   renamed, history>>

ReloadFails(b) ==
    /\ phase[b] = "reload" /\ Upset
    /\ Return(b)
    /\ UNCHANGED <<server, page, knows, renamed, marks>>

\* handleCancelUpload.  The prompt's modal covers its buttons.
Cancel ==
    /\ prompt = Nil /\ Upset
    /\ zone = "encrypting" \/ \E f \in File : panel[f] \in {"encrypting", "uploading"}
    /\ Abort
    /\ current' = Nil
    /\ zone' = "idle" /\ panel' = EmptyPanel
    /\ UNCHANGED <<server, documents, prompt, timers, batch, marks>>

Dismiss ==
    /\ prompt = Nil /\ panel # EmptyPanel /\ Upset
    /\ panel' = EmptyPanel
    /\ hidden' = hidden \cup {latest}
    /\ UNCHANGED <<server, documents, zone, prompt, current, aborted, timers, batch,
                   dropped, latest, stored, replaced>>

\* Two seconds after a batch was complete, whatever the zone shows.
Timeout(b) ==
    /\ b \in timers
    /\ timers' = timers \ {b} /\ zone' = "idle"
    /\ UNCHANGED <<server, documents, panel, prompt, current, aborted, batch, history>>

\* Another tab deletes a document.
OtherTab(d) ==
    /\ d \in live /\ live' = live \ {d} /\ Upset
    /\ UNCHANGED <<pending, page, batch, marks>>

-----------------------------------------------------------------------------
Init ==
    /\ live \in SUBSET (File \X {Old}) /\ pending = {}
    /\ documents = Listed
    /\ panel = EmptyPanel /\ zone = "idle" /\ prompt = Nil
    /\ current = Nil /\ aborted = {} /\ timers = {}
    /\ phase = [b \in Batch |-> "new"]
    /\ item = [b \in Batch |-> Nil]
    /\ queue = [b \in Batch |-> {}]
    /\ choice = [b \in Batch |-> "new"]
    /\ seen = [b \in Batch |-> {}]
    /\ knows = {} /\ renamed = {}
    /\ dropped = 0 /\ upsets = 0
    /\ latest = Nil /\ stored = {} /\ replaced = {} /\ hidden = {}

\* What the page does by itself: encryption ends, requests are answered or
\* fail, timers fire.
Continue(b) ==
    \/ KeyReady(b) \/ KeyFails(b)
    \/ \E f \in File : Pick(b, f) \/ Serve(<<f, b>>)
    \/ FolderMade(b) \/ FolderFails(b) \/ Encrypted(b) \/ EncryptFails(b)
    \/ DeleteOld(b) \/ UploadDone(b) \/ UploadFails(b) \/ UploadAborted(b)
    \/ End(b) \/ AnswerReload(b) \/ ReloadArrives(b) \/ ReloadFails(b) \/ Timeout(b)

Gesture ==
    \/ \E b \in Batch, fs \in SUBSET File : Start(b, fs)
    \/ \E c \in {"skip", "keep-both", "overwrite"} : Answer(c)
    \/ Cancel \/ Dismiss

Next == Gesture \/ (\E b \in Batch : Continue(b)) \/ (\E d \in Doc : OtherTab(d))

Spec == Init /\ [][Next]_vars
FairSpec == Spec /\ \A b \in Batch : WF_vars(Continue(b))

-----------------------------------------------------------------------------
Phases == {"new", "key", "next", "folder", "prompt", "encrypt", "delete", "upload",
           "stored", "refused", "reload", "listed", "done"}

\* Types of the page's upload state and of the batches' locals.
TypeOK ==
    /\ live \in SUBSET Doc /\ pending \in SUBSET (File \X Batch)
    /\ documents \in SUBSET Doc
    /\ panel \in [File -> {"absent", "encrypting", "uploading", "complete", "failed"}]
    /\ zone \in {"idle", "encrypting", "complete"}
    /\ prompt \in Batch \cup {Nil} /\ current \in Batch \cup {Nil}
    /\ aborted \in SUBSET Batch /\ timers \in SUBSET Batch
    /\ phase \in [Batch -> Phases] /\ item \in [Batch -> File \cup {Nil}]
    /\ queue \in [Batch -> SUBSET File]
    /\ choice \in [Batch -> {"new", "keep-both", "overwrite"}]
    /\ seen \in [Batch -> SUBSET Doc] /\ knows \in SUBSET Batch
    /\ renamed \in SUBSET Doc /\ upsets \in 0..MaxUpsets
    /\ dropped \in 0..MaxFiles /\ latest \in Batch \cup {Nil}
    /\ stored \in SUBSET Doc /\ replaced \in SUBSET (File \X Batch)
    /\ hidden \in SUBSET (Batch \cup {Nil})

\* An entry that the panel shows as complete is a file the server has accepted
\* from the batch on the screen, although earlier batches still write the panel
\* and an upload of theirs may have taken the name.
CompleteIsStored ==
    \A f \in File : panel[f] = "complete" => <<f, latest>> \in stored

\* A batch that waits for the user's decision, and was not cancelled, has its
\* prompt on the screen: no other batch replaces it (duplicateFilePrompt holds
\* one prompt, and a batch whose prompt is gone never ends).
PromptAnswerable ==
    \A b \in Batch : phase[b] = "prompt" /\ b \notin aborted => prompt = b

\* "Overwrite" deletes before it uploads.  When the document is gone and its
\* successor was not stored, the upload is still under way or its entry says
\* failed, unless the batch was cancelled or its entries were cleared.
LossIsShown ==
    \A d \in replaced : \/ d \in stored
                        \/ d[2] \in aborted \cup hidden
                        \/ Upload(d[2]) = d /\ phase[d[2]] \in {"upload", "refused"}
                        \/ panel[d[1]] = "failed"

\* The zone says "ENCRYPTING LOCALLY" only while the batch started last is at
\* work and not cancelled.
ZoneIsCurrent ==
    zone = "encrypting" =>
        /\ latest # Nil /\ latest \notin aborted
        /\ phase[latest] \notin {"new", "reload", "listed", "done"}

\* Whatever step a batch is at, before or after its prompts are answered, it ends,
\* or comes to a prompt of its own that is on the screen.  Only a batch that was
\* aborted may be left waiting for a prompt that another one has replaced.
BatchesEnd ==
    \A b \in Batch :
        phase[b] \notin {"new", "prompt", "done"}
        ~> \/ phase[b] = "done" \/ prompt = b
           \/ phase[b] = "prompt" /\ b \in aborted

\* No entry stays "uploading".
EntriesSettle == \A f \in File : panel[f] = "uploading" ~> panel[f] # "uploading"
=============================================================================
