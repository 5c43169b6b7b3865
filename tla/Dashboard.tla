----------------------------- MODULE Dashboard -----------------------------
(***************************************************************************)
(* The dashboard page of the web client: the folder the user has open, the *)
(* listing and the tags it shows, the deletions (of documents and folders) *)
(* that start from a toast, the Recycle Bin and the preview.  The page never cancels a request: each *)
(* handler is a task that goes on, with the values of the render it was    *)
(* started from, while the user does something else, so that answers come  *)
(* in any order.  A read is served at one moment and its answer arrives at *)
(* a later one; a write is served, and its answer arrives, in one step.    *)
(* Sandbox mode (the demonstration documents shown while the server cannot *)
(* be reached) is modelled as far as it shields the account.               *)
(***************************************************************************)
EXTENDS Naturals, FiniteSets

CONSTANTS
    Doc,
    Folder,     \* the folders below the root
    Tree,       \* a folder and those below it: the client never moves one
    Home,       \* the place a document is uploaded to: the client never moves it
    Task,       \* the handlers that can be in flight at once
    MaxStarts,  \* bound: how many handlers the user starts, and writes the user's
                \* other device makes, in all
    Root,       \* currentFolderId = null
    Nil

Place == Folder \cup {Root}

ASSUME HomeAssumption == Home \in [Doc -> Place]
ASSUME TreeAssumption == Tree \in [Folder -> SUBSET Folder]
ASSUME BoundAssumption == MaxStarts \in Nat
ASSUME NilAssumption ==
    /\ Nil \notin Doc \cup Place /\ Root \notin Folder
    /\ "bin" \notin Doc \cup {Nil}

VARIABLES
    \* the account on the server
    row,            \* "active" or "deleted" (deleted_at is set)
    folders,        \* the folders that are not deleted
    binned,         \* the documents that have the tag TRASH
    trashTag,       \* the tag exists
    \* the page
    current,        \* currentFolderId; Nil before the page is mounted
    viewMode,
    documents,
    docTagsCache,   \* the documents whose cached tags have TRASH among them
    trashTagId,     \* the page knows the id of the tag
    loadingDocs,
    isSandbox,
    toast,          \* the confirmation on the screen, or Nil (bound: one at a time)
    confirming,     \* the modal of the trash panel: a document, "bin" or Nil
    processing,
    previewDoc,
    previewBytes,   \* the document whose content is shown
    \* the handlers in flight
    step, place, docs, left,
    panelTask,      \* handlers of the trash panel that is on the screen
    \* history
    starts,         \* how many handlers, and writes of the other device
    everBinned,     \* the documents that have been in the Recycle Bin
    calm            \* the user has waited for each handler to end, confirmed a
                    \* deletion in the folder where it was asked and not deleted
                    \* a folder around the open one, no request has failed and
                    \* no other device has written

server == <<row, folders, binned, trashTag>>
page == <<current, viewMode, documents, docTagsCache, trashTagId, loadingDocs,
          isSandbox>>
panel == <<confirming, processing, panelTask>>
preview == <<previewDoc, previewBytes>>
task == <<step, place, docs, left>>
history == <<starts, everBinned, calm>>
vars == <<server, page, toast, panel, preview, task, history>>

-----------------------------------------------------------------------------
\* Mutant of Listed: the listing without a folder is that of the whole account.
ListedAnywhere(p) ==
    {d \in Doc : row[d] = "active" /\ (p = Root \/ Home[d] = p)}

\* What the server lists for a folder: the documents that are not deleted.
Listed(p) == {d \in Doc : row[d] = "active" /\ Home[d] = p}

\* displayedDocs, and the trash panel's filter of the same listing.
Shown == documents \ docTagsCache
Trashed == documents \cap docTagsCache

AllIdle == \A t \in Task : step[t] = "idle"
\* No modal covers the page.
PageFree == previewDoc = Nil /\ confirming = Nil

\* The handlers that a toast starts; the last two delete a folder, the open one
\* or another.
ToastStep == {"tag", "delete_each", "delete_folder", "delete_open_tree",
              "delete_tree"}
TreeStep == {"delete_open_tree", "delete_tree"}

\* A deletion is confirmed where its handler expects the user.
AskedHere(s, p) == IF s = "delete_tree" THEN current \notin Tree[p] ELSE p = current

\* Which of the free tasks runs the next handler is of no consequence.
FreeTask == CHOOSE t \in Task : step[t] = "idle"

\* A handler starts, with the folder of the render it belongs to.
Begin(t, s, p, ds, ls) ==
    /\ step[t] = "idle" /\ t = FreeTask /\ starts < MaxStarts
    /\ starts' = starts + 1
    /\ step' = [step EXCEPT ![t] = s]
    /\ place' = [place EXCEPT ![t] = p]
    /\ docs' = [docs EXCEPT ![t] = ds]
    /\ left' = [left EXCEPT ![t] = ls]
    /\ calm' = (calm /\ AllIdle /\ (s \in ToastStep => AskedHere(s, p)))
    /\ UNCHANGED everBinned

\* A handler goes on to its next request.
Proceed(t, s, ds, ls) ==
    /\ step' = [step EXCEPT ![t] = s]
    /\ docs' = [docs EXCEPT ![t] = ds]
    /\ left' = [left EXCEPT ![t] = ls]
    /\ UNCHANGED place

\* It returns: its locals are gone.
Finish(t) ==
    /\ step' = [step EXCEPT ![t] = "idle"]
    /\ place' = [place EXCEPT ![t] = Root]
    /\ docs' = [docs EXCEPT ![t] = {}]
    /\ left' = [left EXCEPT ![t] = {}]

Failure == calm' = FALSE /\ UNCHANGED <<starts, everBinned>>

\* finally: the spinner stops, and the trash panel that started the handler
\* has its buttons back.
Release(t) ==
    /\ processing' = (processing /\ t \notin panelTask)
    /\ panelTask' = panelTask \ {t}
    /\ UNCHANGED confirming
StopLoading(t) == Finish(t) /\ Release(t) /\ loadingDocs' = FALSE

\* Leaving a view unmounts its panel, whose state is lost.
Unmount == confirming' = Nil /\ processing' = FALSE /\ panelTask' = {}

-----------------------------------------------------------------------------
(***************************************************************************)
(* loadData: the documents of the open folder, then the tags of each.      *)
(***************************************************************************)

\* The user opens a folder (row, breadcrumb or sidebar), or the page mounts:
\* the effect on currentFolderId runs loadData.
Open(t, p) ==
    /\ PageFree /\ p # current /\ (current = Nil => p = Root)
    /\ current' = p
    /\ viewMode' = "vault"
    /\ loadingDocs' = TRUE
    /\ Begin(t, "list", p, {}, {})
    /\ Unmount
    /\ UNCHANGED <<server, documents, docTagsCache, trashTagId, isSandbox, toast,
                   preview>>

SwitchView(v) ==
    /\ PageFree /\ current # Nil /\ v # viewMode
    /\ viewMode' = v
    /\ Unmount
    /\ UNCHANGED <<server, current, documents, docTagsCache, trashTagId,
                   loadingDocs, isSandbox, toast, preview, task, history>>

\* The server answers the three listings.
AnswerList(t) ==
    /\ step[t] = "list"
    /\ Proceed(t, IF trashTag THEN "listed" ELSE "listed_untagged",
               Listed(place[t]), {})
    /\ UNCHANGED <<server, page, toast, panel, preview, history>>

\* The answer arrives, in whatever folder the page is by then.
ListArrives(t) ==
    /\ step[t] \in {"listed", "listed_untagged"}
    /\ documents' = docs[t]
    /\ isSandbox' = FALSE
    /\ trashTagId' = (trashTagId \/ step[t] = "listed")
    /\ Proceed(t, IF step[t] = "listed" THEN "tags" ELSE "create_tag",
               {}, docs[t])
    /\ UNCHANGED <<server, current, viewMode, docTagsCache, loadingDocs, toast,
                   panel, preview, history>>

\* There was no TRASH tag: the page creates it.  The server refuses a second
\* tag of that name, and the page goes on without its id.
CreateTag(t) ==
    /\ step[t] = "create_tag"
    /\ \/ trashTag' = TRUE /\ trashTagId' = (trashTagId \/ ~trashTag)
          /\ UNCHANGED history
       \/ trashTag' \in {trashTag, TRUE} /\ UNCHANGED trashTagId /\ Failure
    /\ Proceed(t, "tags", docs[t], left[t])
    /\ UNCHANGED <<row, folders, binned, current, viewMode, documents, docTagsCache,
                   loadingDocs, isSandbox, toast, panel, preview>>

\* The requests for the tags of each document are answered in any order; one
\* that fails counts as no tags.
AnswerTags(t, d) ==
    /\ step[t] = "tags" /\ d \in left[t]
    /\ \/ /\ Proceed(t, "tags",
                     IF d \in binned /\ row[d] = "active" THEN docs[t] \cup {d}
                     ELSE docs[t], left[t] \ {d})
          /\ UNCHANGED history
       \/ Proceed(t, "tags", docs[t], left[t] \ {d}) /\ Failure
    /\ UNCHANGED <<server, page, toast, panel, preview>>

\* Mutant of TagsArrive: the spinner is not stopped in a finally.
TagsArriveSpinning(t) ==
    /\ step[t] = "tags" /\ left[t] = {}
    /\ docTagsCache' = docs[t]
    /\ Finish(t) /\ Release(t)
    /\ UNCHANGED <<server, current, viewMode, documents, trashTagId, loadingDocs,
                   isSandbox, toast, preview, history>>

TagsArrive(t) ==
    /\ step[t] = "tags" /\ left[t] = {}
    /\ docTagsCache' = docs[t]
    /\ StopLoading(t)
    /\ UNCHANGED <<server, current, viewMode, documents, trashTagId, isSandbox,
                   toast, preview, history>>

\* A listing fails: the page shows the sandbox.
LoadFails(t) ==
    /\ step[t] = "list"
    /\ isSandbox' = TRUE
    /\ StopLoading(t) /\ Failure
    /\ UNCHANGED <<server, current, viewMode, documents, docTagsCache, trashTagId,
                   toast, preview>>

-----------------------------------------------------------------------------
(***************************************************************************)
(* Deletions that a toast confirms.  The handler of the toast's button     *)
(* belongs to the render in which the toast was opened.                    *)
(***************************************************************************)

AskDelete(d) ==
    /\ PageFree /\ viewMode = "vault" /\ ~loadingDocs /\ ~isSandbox /\ toast = Nil
    /\ d \in Shown
    /\ toast' = [act |-> "tag", docs |-> {d}, place |-> current,
                 known |-> trashTagId]
    /\ UNCHANGED <<server, page, panel, preview, task, history>>

AskDeleteAll ==
    /\ PageFree /\ viewMode = "vault" /\ ~isSandbox /\ toast = Nil
    /\ documents # {}
    /\ toast' = [act |-> IF current = Root THEN "delete_each" ELSE "delete_folder",
                 docs |-> IF current = Root THEN documents ELSE {},
                 place |-> current, known |-> TRUE]
    /\ calm' = (calm /\ AllIdle)
    /\ UNCHANGED <<server, page, panel, preview, task, starts, everBinned>>

\* The deletion of a folder, from its row or the sidebar: the handler compares
\* the folder with the one open in the render of the click.
FolderToast(f) ==
    [act |-> IF current = f THEN "delete_open_tree" ELSE "delete_tree",
     docs |-> {}, place |-> f, known |-> TRUE]
AskDeleteFolder(f) ==
    /\ PageFree /\ current # Nil /\ toast = Nil
    /\ f \in folders
    /\ toast' = FolderToast(f)
    /\ UNCHANGED <<server, page, panel, preview, task, history>>

\* "Cancel", or ten seconds have passed.
DropToast ==
    /\ toast # Nil
    /\ toast' = Nil
    /\ UNCHANGED <<server, page, panel, preview, task, history>>

\* Mutant of ConfirmToast: the handler takes the folder open when it starts.
ConfirmToastHere(t) ==
    /\ toast # Nil /\ toast.known
    /\ toast' = Nil
    /\ Begin(t, toast.act, IF toast.act \in TreeStep THEN toast.place ELSE current,
             {}, toast.docs)
    /\ loadingDocs' = TRUE
    /\ UNCHANGED <<server, current, viewMode, documents, docTagsCache, trashTagId,
                   isSandbox, panel, preview>>

\* "Move to Trash", "Delete All" or "Delete" (a folder, without a spinner).
\* Without the id of the TRASH tag the first does nothing ("Recycle bin not
\* initialized").
ConfirmToast(t) ==
    /\ toast # Nil
    /\ toast' = Nil
    /\ \/ /\ toast.known
          /\ Begin(t, toast.act, toast.place, {}, toast.docs)
          /\ loadingDocs' = (loadingDocs \/ toast.act \notin TreeStep)
       \/ ~toast.known /\ loadingDocs' = FALSE /\ UNCHANGED <<task, history>>
    /\ UNCHANGED <<server, current, viewMode, documents, docTagsCache, trashTagId,
                   isSandbox, panel, preview>>

\* catch of any of the handlers: a toast with the error, and no more.  The
\* write may have been served all the same.
HandlerFails(t) == StopLoading(t) /\ Failure

\* handleDelete: the document gets the tag TRASH.
TagDocument(t, d) ==
    /\ step[t] = "tag" /\ d \in left[t]
    /\ \/ /\ row[d] = "active"
          /\ binned' = binned \cup {d} /\ everBinned' = everBinned \cup {d}
          /\ \/ Proceed(t, "relist", {}, left[t])
                /\ UNCHANGED <<loadingDocs, panel, calm>>
             \/ StopLoading(t) /\ calm' = FALSE
          /\ UNCHANGED starts
       \/ HandlerFails(t) /\ UNCHANGED binned
    /\ UNCHANGED <<row, folders, trashTag, current, viewMode, documents, docTagsCache,
                   trashTagId, isSandbox, toast, preview>>

\* handleDeleteAllFiles at the root sends one DELETE per document of the
\* toast's render, all at once; the first that fails, or finds its document
\* deleted, ends the handler while the others are still on their way.
DeleteEach(t, d) ==
    /\ step[t] = "delete_each" /\ d \in left[t]
    /\ \/ /\ row[d] = "active"
          /\ row' = [row EXCEPT ![d] = "deleted"]
          /\ Proceed(t, IF left[t] = {d} THEN "relist" ELSE "delete_each",
                     {}, left[t] \ {d})
          /\ UNCHANGED <<loadingDocs, panel, history>>
       \/ /\ row' \in {row, [row EXCEPT ![d] = IF @ = "active" THEN "deleted" ELSE @]}
          /\ IF left[t] = {d} THEN StopLoading(t)
             ELSE /\ Proceed(t, "abandoned", {}, left[t] \ {d})
                  /\ loadingDocs' = FALSE /\ UNCHANGED panel
          /\ Failure
    /\ UNCHANGED <<folders, binned, trashTag, current, viewMode, documents, docTagsCache,
                   trashTagId, isSandbox, toast, preview>>

\* A DELETE whose handler has given up is served, or lost.
DeleteAbandoned(t, d) ==
    /\ step[t] = "abandoned" /\ d \in left[t]
    /\ row' \in {row, [row EXCEPT ![d] = IF @ = "active" THEN "deleted" ELSE @]}
    /\ IF left[t] = {d} THEN Finish(t)
       ELSE Proceed(t, "abandoned", {}, left[t] \ {d})
    /\ UNCHANGED <<folders, binned, trashTag, page, toast, panel, preview, history>>

\* In a folder it sends one request, for whatever the folder holds by then.
DeleteFolderDocuments(t) ==
    /\ step[t] = "delete_folder"
    /\ \/ /\ row' = [d \in Doc |-> IF d \in Listed(place[t]) THEN "deleted"
                                   ELSE row[d]]
          /\ \/ Proceed(t, "relist", {}, {}) /\ UNCHANGED <<loadingDocs, panel, history>>
             \/ HandlerFails(t)
       \/ HandlerFails(t) /\ UNCHANGED row
    /\ UNCHANGED <<folders, binned, trashTag, current, viewMode, documents, docTagsCache,
                   trashTagId, isSandbox, toast, preview>>

\* Then both list the folder of their render again...
AnswerRelist(t) ==
    /\ step[t] = "relist"
    /\ Proceed(t, "relisted", Listed(place[t]), left[t])
    /\ UNCHANGED <<server, page, toast, panel, preview, history>>
RelistArrives(t) ==
    /\ step[t] = "relisted"
    /\ documents' = docs[t]
    /\ \/ left[t] = {} /\ StopLoading(t)
       \/ left[t] # {} /\ Proceed(t, "retag", {}, left[t])
          /\ UNCHANGED <<loadingDocs, panel>>
    /\ UNCHANGED <<server, current, viewMode, docTagsCache, trashTagId, isSandbox,
                   toast, preview, history>>
RelistFails(t) ==
    /\ step[t] \in {"relist", "retag"}
    /\ HandlerFails(t)
    /\ UNCHANGED <<server, current, viewMode, documents, docTagsCache, trashTagId,
                   isSandbox, toast, preview>>

\* ... and handleDelete reads the tags of its document.
AnswerRetag(t) ==
    /\ step[t] = "retag"
    /\ Proceed(t, "retagged", left[t] \cap binned, left[t])
    /\ UNCHANGED <<server, page, toast, panel, preview, history>>
RetagArrives(t) ==
    /\ step[t] = "retagged"
    /\ docTagsCache' = (docTagsCache \ left[t]) \cup docs[t]
    /\ StopLoading(t)
    /\ UNCHANGED <<server, current, viewMode, documents, trashTagId, isSandbox,
                   toast, preview, history>>

\* handleDeleteFolderSidebar: the server deletes the documents of the folder and
\* of those below it with it.
DeleteTree(f) ==
    /\ folders' = folders \ Tree[f]
    /\ row' = [d \in Doc |-> IF Home[d] \in Tree[f] THEN "deleted" ELSE row[d]]

\* Mutant of LeaveFolder: the folder is closed and the root not loaded.
LeaveFolderBlank(t) ==
    IF step[t] = "delete_open_tree" /\ current # Root
    THEN /\ current' = Root /\ Finish(t) /\ UNCHANGED loadingDocs
    ELSE Finish(t) /\ UNCHANGED <<current, loadingDocs>>

\* If the folder was open when the toast was asked for, the page goes to the
\* root, wherever the user is by now, and the effect on currentFolderId loads
\* it.  The handler itself only lists the folders of the sidebar again.
LeaveFolder(t) ==
    IF step[t] = "delete_open_tree" /\ current # Root
    THEN /\ current' = Root
         /\ loadingDocs' = TRUE
         /\ step' = [step EXCEPT ![t] = "list"]
         /\ place' = [place EXCEPT ![t] = Root]
         /\ UNCHANGED <<docs, left>>
    ELSE Finish(t) /\ UNCHANGED <<current, loadingDocs>>

\* A folder that is gone by now is a 404.
DeleteFolder(t) ==
    /\ step[t] \in TreeStep
    /\ \/ place[t] \in folders /\ DeleteTree(place[t]) /\ LeaveFolder(t)
          /\ UNCHANGED history
       \/ /\ DeleteTree(place[t]) \/ UNCHANGED <<row, folders>>
          /\ Finish(t) /\ Failure /\ UNCHANGED <<current, loadingDocs>>
    /\ UNCHANGED <<binned, trashTag, viewMode, documents, docTagsCache, trashTagId,
                   isSandbox, toast, panel, preview>>

-----------------------------------------------------------------------------
(***************************************************************************)
(* The trash panel: the documents of the listing whose cached tags have    *)
(* TRASH among them.  Its handlers end with the loadData of their render.  *)
(***************************************************************************)
InPanel == viewMode = "trash" /\ ~isSandbox /\ previewDoc = Nil

\* The handler writes are done: loadData, for the folder of its render.
Refresh(t) ==
    /\ Proceed(t, "list", {}, {})
    /\ loadingDocs' = TRUE
    /\ UNCHANGED <<processing, panelTask, history>>

Restore(t, d) ==
    /\ InPanel /\ confirming = Nil /\ ~processing
    /\ d \in Trashed /\ trashTagId
    /\ Begin(t, "untag", current, {}, {d})
    /\ processing' = TRUE /\ panelTask' = panelTask \cup {t}
    /\ UNCHANGED <<server, page, toast, confirming, preview>>

\* Mutant of UntagDocument: a failing untag leaves the panel's buttons disabled.
UntagKeepsBusy(t) ==
    /\ step[t] = "untag"
    /\ \/ (\A d \in left[t] : row[d] = "active") /\ binned' = binned \ left[t]
          /\ Refresh(t)
       \/ /\ binned' \in {binned, binned \ {d \in left[t] : row[d] = "active"}}
          /\ Finish(t) /\ Failure
          /\ UNCHANGED <<loadingDocs, processing, panelTask>>
    /\ UNCHANGED <<row, folders, trashTag, current, viewMode, documents, docTagsCache,
                   trashTagId, isSandbox, toast, confirming, preview>>

UntagDocument(t) ==
    /\ step[t] = "untag"
    /\ \/ (\A d \in left[t] : row[d] = "active") /\ binned' = binned \ left[t]
          /\ Refresh(t)
       \/ /\ binned' \in {binned, binned \ {d \in left[t] : row[d] = "active"}}
          /\ Finish(t) /\ Release(t) /\ Failure
          /\ UNCHANGED loadingDocs
    /\ UNCHANGED <<row, folders, trashTag, current, viewMode, documents, docTagsCache,
                   trashTagId, isSandbox, toast, confirming, preview>>

\* "Delete Permanently" of one document, or "Empty Trash Bin".
AskPurge(x) ==
    /\ InPanel /\ confirming = Nil /\ ~processing
    /\ x \in Trashed \cup {"bin"} /\ Trashed # {}
    /\ confirming' = x
    /\ UNCHANGED <<server, page, toast, processing, panelTask, preview, task,
                   history>>

CancelPurge ==
    /\ confirming # Nil
    /\ confirming' = Nil
    /\ UNCHANGED <<server, page, toast, processing, panelTask, preview, task,
                   history>>

\* Mutants of ConfirmPurge: the whole listing is purged; the modal's own state
\* is taken for a document.
PurgeListing(t) ==
    /\ confirming # Nil /\ ~isSandbox
    /\ IF confirming = "bin" THEN Begin(t, "purge_all", current, {}, documents)
       ELSE Begin(t, "purge", current, {}, {confirming})
    /\ processing' = TRUE /\ panelTask' = panelTask \cup {t}
    /\ UNCHANGED <<server, page, toast, confirming, preview>>
PurgeConfirming(t) ==
    /\ confirming # Nil /\ ~isSandbox
    /\ Begin(t, "purge", current, {}, {confirming})
    /\ processing' = TRUE /\ panelTask' = panelTask \cup {t}
    /\ UNCHANGED <<server, page, toast, confirming, preview>>

\* The buttons of the modals stay enabled while a deletion is in progress.
ConfirmPurge(t) ==
    /\ confirming # Nil /\ ~isSandbox
    /\ IF confirming = "bin" THEN Begin(t, "purge_all", current, {}, Trashed)
       ELSE Begin(t, "purge", current, {}, {confirming})
    /\ processing' = TRUE /\ panelTask' = panelTask \cup {t}
    /\ UNCHANGED <<server, page, toast, confirming, preview>>

\* Both send the DELETE that marks a row deleted, never a purge.  Emptying the
\* bin deletes one document after the other and goes on when one fails.
PurgeDocument(t, d) ==
    /\ step[t] \in {"purge", "purge_all"} /\ d \in left[t]
    /\ \/ /\ row[d] = "active"
          /\ row' = [row EXCEPT ![d] = "deleted"]
          /\ Proceed(t, step[t], {}, left[t] \ {d})
          /\ UNCHANGED <<panel, history>>
       \/ /\ row' \in {row, [row EXCEPT ![d] = IF @ = "active" THEN "deleted" ELSE @]}
          /\ Failure
          /\ \/ step[t] = "purge" /\ Finish(t) /\ Release(t)
             \/ step[t] = "purge_all" /\ Proceed(t, "purge_all", {}, left[t] \ {d})
                /\ UNCHANGED panel
    /\ UNCHANGED <<folders, binned, trashTag, page, toast, preview>>

PurgeDone(t) ==
    /\ step[t] \in {"purge", "purge_all"} /\ left[t] = {}
    /\ confirming' = IF t \in panelTask /\ (confirming = "bin" <=> step[t] = "purge_all")
                     THEN Nil ELSE confirming
    /\ Refresh(t)
    /\ UNCHANGED <<server, current, viewMode, documents, docTagsCache, trashTagId,
                   isSandbox, toast, preview>>

-----------------------------------------------------------------------------
(***************************************************************************)
(* The preview, and its navigation.                                        *)
(***************************************************************************)
\* Mutant of Preview: the content shown before is kept until the next arrives.
PreviewKeepsBytes(t, d) ==
    /\ d \in Shown /\ ~isSandbox
    /\ previewDoc # Nil \/ (PageFree /\ viewMode = "vault" /\ ~loadingDocs)
    /\ previewDoc' = d
    /\ Begin(t, "preview", current, {d}, {})
    /\ UNCHANGED <<server, page, toast, panel, previewBytes>>

Preview(t, d) ==
    /\ d \in Shown /\ ~isSandbox
    /\ previewDoc # Nil \/ (PageFree /\ viewMode = "vault" /\ ~loadingDocs)
    /\ previewDoc' = d
    /\ previewBytes' = Nil
    /\ Begin(t, "preview", current, {d}, {})
    /\ UNCHANGED <<server, page, toast, panel>>

\* Downloaded and decrypted.
PreviewReady(t) ==
    /\ step[t] = "preview"
    /\ previewBytes' \in docs[t]
    /\ Finish(t)
    /\ UNCHANGED <<server, page, toast, panel, previewDoc, history>>

PreviewFails(t) ==
    /\ step[t] = "preview"
    /\ previewDoc' = Nil
    /\ Finish(t) /\ Failure
    /\ UNCHANGED <<server, page, toast, panel, previewBytes>>

ClosePreview ==
    /\ previewDoc # Nil
    /\ previewDoc' = Nil /\ previewBytes' = Nil
    /\ UNCHANGED <<server, page, toast, panel, task, history>>

\* The user's other device deletes a document.
OtherDevice(d) ==
    /\ starts < MaxStarts /\ starts' = starts + 1
    /\ row[d] = "active"
    /\ row' = [row EXCEPT ![d] = "deleted"]
    /\ calm' = FALSE
    /\ UNCHANGED <<folders, binned, trashTag, page, toast, panel, preview, task,
                   everBinned>>

-----------------------------------------------------------------------------
Init ==
    /\ row = [d \in Doc |-> "active"] /\ folders = Folder
    /\ trashTag \in BOOLEAN
    /\ binned = {} /\ everBinned = {}
    /\ current = Nil /\ viewMode = "vault"
    /\ documents = {} /\ docTagsCache = {}
    /\ trashTagId = FALSE /\ loadingDocs = TRUE /\ isSandbox = FALSE
    /\ toast = Nil /\ confirming = Nil /\ processing = FALSE /\ panelTask = {}
    /\ previewDoc = Nil /\ previewBytes = Nil
    /\ step = [t \in Task |-> "idle"]
    /\ place = [t \in Task |-> Root]
    /\ docs = [t \in Task |-> {}]
    /\ left = [t \in Task |-> {}]
    /\ starts = 0 /\ calm = TRUE

\* What the user, and the other device, do.
Gesture(t) ==
    \/ \E p \in Place : Open(t, p)
    \/ \E v \in {"vault", "trash"} : SwitchView(v)
    \/ \E d \in Doc : AskDelete(d) \/ Restore(t, d) \/ Preview(t, d) \/ OtherDevice(d)
    \/ \E f \in Folder : AskDeleteFolder(f)
    \/ AskDeleteAll \/ DropToast \/ ConfirmToast(t)
    \/ \E x \in Doc \cup {"bin"} : AskPurge(x)
    \/ CancelPurge \/ ConfirmPurge(t) \/ ClosePreview

\* What a handler does once it has started: every request is answered, or
\* fails.
Continue(t) ==
    \/ AnswerList(t) \/ ListArrives(t) \/ LoadFails(t) \/ CreateTag(t) \/ TagsArrive(t)
    \/ \E d \in Doc : \/ AnswerTags(t, d) \/ TagDocument(t, d) \/ DeleteEach(t, d)
                      \/ DeleteAbandoned(t, d) \/ PurgeDocument(t, d)
    \/ DeleteFolder(t)
    \/ DeleteFolderDocuments(t) \/ AnswerRelist(t) \/ RelistArrives(t) \/ RelistFails(t)
    \/ AnswerRetag(t) \/ RetagArrives(t)
    \/ UntagDocument(t) \/ PurgeDone(t)
    \/ PreviewReady(t) \/ PreviewFails(t)

Next == \E t \in Task : Gesture(t) \/ Continue(t)

Spec == Init /\ [][Next]_vars
FairSpec == Spec /\ \A t \in Task : WF_vars(Continue(t))

-----------------------------------------------------------------------------
Steps == {"idle", "list", "listed", "listed_untagged", "create_tag", "tags", "tag",
          "delete_each", "abandoned", "delete_folder", "delete_open_tree",
          "delete_tree", "relist", "relisted", "retag", "retagged", "untag", "purge",
          "purge_all", "preview"}
Toasts == [act : ToastStep, docs : SUBSET Doc,
           place : Place, known : BOOLEAN]

\* Types of the page's state and of the handlers' locals (dashboard/page.tsx).
TypeOK ==
    /\ row \in [Doc -> {"active", "deleted"}] /\ folders \in SUBSET Folder
    /\ binned \in SUBSET Doc /\ trashTag \in BOOLEAN
    /\ current \in Place \cup {Nil} /\ viewMode \in {"vault", "trash"}
    /\ documents \in SUBSET Doc /\ docTagsCache \in SUBSET Doc
    /\ trashTagId \in BOOLEAN /\ loadingDocs \in BOOLEAN /\ isSandbox \in BOOLEAN
    /\ toast \in Toasts \cup {Nil}
    /\ confirming \in Doc \cup {"bin", Nil} /\ processing \in BOOLEAN
    /\ panelTask \in SUBSET Task
    /\ previewDoc \in Doc \cup {Nil} /\ previewBytes \in Doc \cup {Nil}
    /\ step \in [Task -> Steps] /\ place \in [Task -> Place]
    /\ docs \in [Task -> SUBSET Doc] /\ left \in [Task -> SUBSET Doc]
    /\ starts \in 0..MaxStarts
    /\ everBinned \in SUBSET Doc /\ calm \in BOOLEAN

\* Whatever the order in which answers arrive, the trash panel deletes a
\* document only if it has been moved to the Recycle Bin before
\* (handlePermanentDelete and handleEmptyTrash work on cached tags).
PurgedWasBinned ==
    \A t \in Task : step[t] \in {"purge", "purge_all"} => left[t] \subseteq everBinned

\* Late answers may show the listing of a folder that was left, but never a mix
\* of two folders: setDocuments replaces the listing as a whole.
ListingIsOneFolder == \E p \in Place : documents \subseteq {d \in Doc : Home[d] = p}

\* When the user has waited for each handler, none has failed and no other
\* device has written, an idle page shows the open folder as the server has it, trash
\* included, with no spinner and no disabled button left behind.
CalmScreen ==
    calm /\ AllIdle /\ current # Nil =>
        /\ documents = Listed(current)
        /\ docTagsCache \cap documents = binned \cap documents
        /\ ~loadingDocs /\ ~processing

\* "Delete All Files" at the root deletes only documents of the folder in which
\* it was pressed, under the same condition.
CalmDeleteAll ==
    calm => \A t \in Task : step[t] \in {"delete_each", "abandoned"} =>
        \A d \in left[t] : Home[d] = place[t]

\* The preview shows the content of the document it names, under the same
\* condition (handlePreview does not compare the answer with the open document).
CalmPreview == calm /\ previewDoc # Nil => previewBytes \in {Nil, previewDoc}

\* The spinner and the disabled buttons of the trash panel do not stay.
SpinnerStops == (loadingDocs /\ current # Nil) ~> ~loadingDocs
PanelReleased == processing ~> ~processing
=============================================================================
