------------------------------- MODULE Vault -------------------------------
(***************************************************************************)
(* The store of one Privault account: the rows of the tables documents and *)
(* folders, the objects of the S3 bucket, and the HTTP handlers of the     *)
(* modules documents, folders and trash that change them.                  *)
(*                                                                         *)
(* None of these handlers opens a transaction (upload_folder does, and is  *)
(* not modelled) or takes a lock: every SQL statement commits by itself    *)
(* and every S3 call is one more step, so a handler is a sequence of steps *)
(* between which any other handler may run.  step[r] names the statement   *)
(* that request r executes next.  A statement is atomic.                   *)
(***************************************************************************)
EXTENDS Naturals, FiniteSets

CONSTANTS
    Doc,        \* the document ids (UUIDs) that uploads may draw
    Folder,     \* the folder ids that folder creation may draw
    Request,    \* the HTTP requests that may be in flight at one time
    Boot,       \* the start-up task of the server process
    Nil,        \* SQL NULL
    DocName,    \* DocName[d]: the file name document d is uploaded with
    Faults      \* which of the disturbances below may happen

(***************************************************************************)
(*  "abort"    a request ends early: a statement fails and is returned by  *)
(*             `?', the client disconnects and axum drops the handler, or  *)
(*             the process stops;                                          *)
(*  "s3"       delete_object may fail; every caller only logs it;          *)
(*  "db"       a DELETE of the start-up cleanup may fail; it only logs it. *)
(***************************************************************************)
ASSUME NilAssumption == Nil \notin Doc \cup Folder
ASSUME BootAssumption == Boot \notin Request
ASSUME FaultsAssumption == Faults \subseteq {"abort", "s3", "db"}

VARIABLES
    documents,              \* state of each document row (RowState)
    folder_id,              \* folder of each document, or Nil (the root)
    trash_origin_folder_id, \* folder it was trashed from, or Nil
    thumbnail_path,         \* the documents whose thumbnail_path is not NULL
    folders,                \* state of each folder row (RowState)
    parent_id,              \* parent of each folder, or Nil
    trash_origin_parent_id, \* parent it was trashed from, or Nil
    bucket,                 \* the keys of the objects stored in S3
    step,                   \* the statement each task executes next
    target,                 \* the document or folder a task works on
    paths                   \* the S3 keys a task has read and will delete

docVars == <<documents, folder_id, trash_origin_folder_id, thumbnail_path>>
folderVars == <<folders, parent_id, trash_origin_parent_id>>
taskVars == <<step, target, paths>>
vars == <<documents, folder_id, trash_origin_folder_id, thumbnail_path,
          folders, parent_id, trash_origin_parent_id,
          bucket, step, target, paths>>

Task == Request \cup {Boot}

\* "none": never inserted; "trashed": deleted_at set; "expired": deleted_at
\* older than the retention period; "purged": the row was deleted.
RowState == {"none", "active", "trashed", "expired", "purged"}
InTrash == {"trashed", "expired"}
Exists == {"active"} \cup InTrash

Key == {"documents", "thumbnails"} \X Doc
DocKey(d) == <<"documents", d>>
ThumbKey(d) == <<"thumbnails", d>>

DocRows == {d \in Doc : documents[d] \in Exists}
TrashedDocs == {d \in Doc : documents[d] \in InTrash}
FolderRows == {f \in Folder : folders[f] \in Exists}
TrashedFolders == {f \in Folder : folders[f] \in InTrash}
ActiveFolders == {f \in Folder : folders[f] = "active"}

\* What a recursive CTE computes that starts from the rows `from' and joins a
\* row h of `via' when its reference up[h] has been reached: the least set of
\* folders closed under that join.
Tree(from, up, via) ==
    {g \in Folder : \A S \in SUBSET Folder :
        (from \subseteq S /\ \A h \in via : up[h] \in S => h \in S) => g \in S}

\* The unique index on (owner, folder, name) of the active documents.
UniqueNames(state, place) ==
    \A d, e \in Doc :
        /\ d # e /\ DocName[d] = DocName[e]
        /\ state[d] = "active" /\ state[e] = "active"
        => place[d] # place[e]

-----------------------------------------------------------------------------
(***************************************************************************)
(* Statements on sets of rows.                                             *)
(***************************************************************************)

\* Mutant of TrashDocs: the origin is not saved.
TrashDocsOnly(D) ==
    /\ documents' = [d \in Doc |-> IF d \in D THEN "trashed" ELSE documents[d]]
    /\ UNCHANGED <<trash_origin_folder_id, folder_id, thumbnail_path>>

\* UPDATE documents SET deleted_at = NOW(), trash_origin_folder_id = folder_id
TrashDocs(D) ==
    /\ documents' = [d \in Doc |-> IF d \in D THEN "trashed" ELSE documents[d]]
    /\ trash_origin_folder_id' =
         [d \in Doc |-> IF d \in D THEN folder_id[d]
                                   ELSE trash_origin_folder_id[d]]
    /\ UNCHANGED <<folder_id, thumbnail_path>>

\* UPDATE documents SET deleted_at = NULL, folder_id = trash_origin_folder_id,
\* refused as a whole when the unique index would be violated.
Restored(D) == [d \in Doc |-> IF d \in D THEN "active" ELSE documents[d]]
Refiled(D) ==
    [d \in Doc |-> IF d \in D THEN trash_origin_folder_id[d] ELSE folder_id[d]]
CanRestore(D) == UniqueNames(Restored(D), Refiled(D))
RestoreDocs(D) ==
    /\ documents' = Restored(D)
    /\ folder_id' = Refiled(D)
    /\ UNCHANGED <<trash_origin_folder_id, thumbnail_path>>

\* DELETE FROM documents
DeleteDocs(D) ==
    /\ documents' = [d \in Doc |-> IF d \in D THEN "purged" ELSE documents[d]]
    /\ folder_id' = [d \in Doc |-> IF d \in D THEN Nil ELSE folder_id[d]]
    /\ trash_origin_folder_id' =
         [d \in Doc |-> IF d \in D THEN Nil ELSE trash_origin_folder_id[d]]
    /\ thumbnail_path' = thumbnail_path \ D

\* UPDATE folders SET deleted_at = NOW(), trash_origin_parent_id = parent_id
TrashFolders(F) ==
    /\ folders' = [f \in Folder |-> IF f \in F THEN "trashed" ELSE folders[f]]
    /\ trash_origin_parent_id' =
         [f \in Folder |-> IF f \in F THEN parent_id[f]
                                      ELSE trash_origin_parent_id[f]]
    /\ UNCHANGED parent_id

\* UPDATE folders SET deleted_at = NULL, parent_id = trash_origin_parent_id
RestoreFolders(F) ==
    /\ folders' = [f \in Folder |-> IF f \in F THEN "active" ELSE folders[f]]
    /\ parent_id' =
         [f \in Folder |-> IF f \in F THEN trash_origin_parent_id[f]
                                      ELSE parent_id[f]]
    /\ UNCHANGED trash_origin_parent_id

\* DELETE FROM folders: ON DELETE CASCADE along parent_id; ON DELETE SET NULL
\* for every other reference, which the unique index may refuse because the
\* active documents of a deleted folder move to the root.
Cascade(F) == Tree(F, parent_id, FolderRows)
Without(ref, G) ==
    [x \in DOMAIN ref |-> IF ref[x] \in G THEN Nil ELSE ref[x]]
CanDeleteFolders(F) == UniqueNames(documents, Without(folder_id, Cascade(F)))
DeleteFolders(F) ==
    LET G == Cascade(F) IN
    /\ folders' = [f \in Folder |-> IF f \in G THEN "purged" ELSE folders[f]]
    /\ parent_id' = [f \in Folder |-> IF f \in G THEN Nil ELSE parent_id[f]]
    /\ trash_origin_parent_id' =
         [f \in Folder |-> IF f \in G \/ trash_origin_parent_id[f] \in G
                           THEN Nil ELSE trash_origin_parent_id[f]]
    /\ folder_id' = Without(folder_id, G)
    /\ trash_origin_folder_id' = Without(trash_origin_folder_id, G)
    /\ UNCHANGED <<documents, thumbnail_path>>

-----------------------------------------------------------------------------
(***************************************************************************)
(* Tasks.                                                                  *)
(***************************************************************************)

RestoreSteps == {"restore_documents", "restore_subfolders",
                 "restore_subfolder_documents"}
PurgeSteps == {"delete_document_row",
               "collect_folder_thumbnails", "delete_tree_documents",
               "delete_tree_folders",
               "collect_thumbnails", "delete_trashed_documents",
               "delete_trashed_folders",
               "collect_expired", "delete_expired_documents",
               "delete_expired_folders", "delete_objects"}
ThumbnailSteps == {"put_thumbnail", "set_thumbnail_path",
                   "delete_thumbnail_object", "clear_thumbnail_path"}
Step == {"idle", "insert_document", "trash_folder", "trash_subfolders",
         "trash_tree_documents"} \cup RestoreSteps \cup PurgeSteps
        \cup ThumbnailSteps

AllIdle == \A t \in Task : step[t] = "idle"
Serving == step[Boot] = "idle"

Begin(r, s, x, K) ==
    /\ Serving
    /\ step[r] = "idle"
    /\ step' = [step EXCEPT ![r] = s]
    /\ target' = [target EXCEPT ![r] = x]
    /\ paths' = [paths EXCEPT ![r] = K]
Goto(t, s) ==
    /\ step' = [step EXCEPT ![t] = s]
    /\ UNCHANGED <<target, paths>>
Collect(t, K, s) ==
    /\ step' = [step EXCEPT ![t] = s]
    /\ paths' = [paths EXCEPT ![t] = @ \cup K]
    /\ UNCHANGED target
Finish(t) ==
    /\ step' = [step EXCEPT ![t] = "idle"]
    /\ target' = [target EXCEPT ![t] = Nil]
    /\ paths' = [paths EXCEPT ![t] = {}]

-----------------------------------------------------------------------------
(***************************************************************************)
(* Handlers of one statement.                                              *)
(***************************************************************************)

\* Mutant of CreateFolder: no foreign key on parent_id.
CreateFolderAnywhere(f, p) ==
    /\ Serving
    /\ folders[f] = "none"
    /\ folders' = [folders EXCEPT ![f] = "active"]
    /\ parent_id' = [parent_id EXCEPT ![f] = p]
    /\ UNCHANGED <<trash_origin_parent_id, docVars, bucket, taskVars>>

\* create_folder: the foreign key accepts any existing parent, trashed or not.
CreateFolder(f, p) ==
    /\ Serving
    /\ folders[f] = "none"
    /\ p \in FolderRows \cup {Nil}
    /\ folders' = [folders EXCEPT ![f] = "active"]
    /\ parent_id' = [parent_id EXCEPT ![f] = p]
    /\ UNCHANGED <<trash_origin_parent_id, docVars, bucket, taskVars>>

\* delete_document
DeleteDocument(d) ==
    /\ Serving
    /\ documents[d] = "active"
    /\ TrashDocs({d})
    /\ UNCHANGED <<folderVars, bucket, taskVars>>

\* delete_folder_documents
DeleteFolderDocuments(f) ==
    /\ Serving
    /\ TrashDocs({d \in Doc : documents[d] = "active" /\ folder_id[d] = f})
    /\ UNCHANGED <<folderVars, bucket, taskVars>>

\* restore_document; a unique violation is a 500 and changes nothing.
RestoreDocument(d) ==
    /\ Serving
    /\ documents[d] \in InTrash
    /\ CanRestore({d})
    /\ RestoreDocs({d})
    /\ UNCHANGED <<folderVars, bucket, taskVars>>

-----------------------------------------------------------------------------
(***************************************************************************)
(* upload_document: put the object, then insert the row.                   *)
(***************************************************************************)

\* A fresh UUID: no row, no object and no other upload has it.
UploadDocument(r, d) ==
    /\ documents[d] = "none"
    /\ DocKey(d) \notin bucket
    /\ Begin(r, "insert_document", d, {})
    /\ bucket' = bucket \cup {DocKey(d)}
    /\ UNCHANGED <<docVars, folderVars>>

\* The INSERT: the folder, if any, must exist and the name must be free;
\* otherwise the handler returns a 500 and the object stays behind.
InsertDocument(r, f) ==
    LET d == target[r]
        inserted == [documents EXCEPT ![d] = "active"]
        filed == [folder_id EXCEPT ![d] = f] IN
    /\ step[r] = "insert_document"
    /\ IF f \in FolderRows \cup {Nil} /\ UniqueNames(inserted, filed)
       THEN documents' = inserted /\ folder_id' = filed
       ELSE UNCHANGED <<documents, folder_id>>
    /\ Finish(r)
    /\ UNCHANGED <<trash_origin_folder_id, thumbnail_path, folderVars, bucket>>

-----------------------------------------------------------------------------
(***************************************************************************)
(* upload_thumbnail and delete_thumbnail: the first statement checks the   *)
(* row, trashed or not; the object is written or deleted before the row.   *)
(***************************************************************************)

UploadThumbnail(r, d) ==
    /\ d \in DocRows
    /\ Begin(r, "put_thumbnail", d, {})
    /\ UNCHANGED <<docVars, folderVars, bucket>>

PutThumbnail(r) ==
    /\ step[r] = "put_thumbnail"
    /\ bucket' = bucket \cup {ThumbKey(target[r])}
    /\ Goto(r, "set_thumbnail_path")
    /\ UNCHANGED <<docVars, folderVars>>

SetThumbnailPath(r) ==
    /\ step[r] = "set_thumbnail_path"
    /\ thumbnail_path' = thumbnail_path \cup ({target[r]} \cap DocRows)
    /\ Finish(r)
    /\ UNCHANGED <<documents, folder_id, trash_origin_folder_id, folderVars,
                   bucket>>

DeleteThumbnail(r, d) ==
    /\ d \in thumbnail_path
    /\ Begin(r, "delete_thumbnail_object", d, {})
    /\ UNCHANGED <<docVars, folderVars, bucket>>

DeleteThumbnailObject(r) ==
    /\ step[r] = "delete_thumbnail_object"
    /\ \/ bucket' = bucket \ {ThumbKey(target[r])}
       \/ "s3" \in Faults /\ UNCHANGED bucket
    /\ Goto(r, "clear_thumbnail_path")
    /\ UNCHANGED <<docVars, folderVars>>

ClearThumbnailPath(r) ==
    /\ step[r] = "clear_thumbnail_path"
    /\ thumbnail_path' = thumbnail_path \ {target[r]}
    /\ Finish(r)
    /\ UNCHANGED <<documents, folder_id, trash_origin_folder_id, folderVars,
                   bucket>>

-----------------------------------------------------------------------------
(***************************************************************************)
(* delete_folder: move a folder and its tree to the trash.                 *)
(***************************************************************************)

DeleteFolder(r, f) ==
    /\ folders[f] = "active"
    /\ Begin(r, "trash_folder", f, {})
    /\ UNCHANGED <<docVars, folderVars, bucket>>

\* The UPDATE is not guarded by deleted_at IS NULL.
TrashFolder(r) ==
    /\ step[r] = "trash_folder"
    /\ TrashFolders({target[r]} \cap FolderRows)
    /\ Goto(r, "trash_subfolders")
    /\ UNCHANGED <<docVars, bucket>>

TrashSubfolders(r) ==
    /\ step[r] = "trash_subfolders"
    /\ TrashFolders(Tree({target[r]} \cap FolderRows, parent_id, ActiveFolders)
                    \ {target[r]})
    /\ Goto(r, "trash_tree_documents")
    /\ UNCHANGED <<docVars, bucket>>

\* Mutant of TrashTreeDocuments: the tree of the active folders again, which the
\* statement before has just trashed.
TrashActiveTree(r) ==
    LET tree == Tree({target[r]}, parent_id, ActiveFolders) IN
    /\ step[r] = "trash_tree_documents"
    /\ TrashDocs({d \in Doc : documents[d] = "active" /\ folder_id[d] \in tree})
    /\ Finish(r)
    /\ UNCHANGED <<folderVars, bucket>>

TrashTreeDocuments(r) ==
    LET tree == Tree({target[r]} \cap FolderRows, parent_id, TrashedFolders) IN
    /\ step[r] = "trash_tree_documents"
    /\ TrashDocs({d \in Doc : documents[d] = "active" /\ folder_id[d] \in tree})
    /\ Finish(r)
    /\ UNCHANGED <<folderVars, bucket>>

-----------------------------------------------------------------------------
(***************************************************************************)
(* restore_folder: four statements.                                        *)
(***************************************************************************)

RestoreFolder(r, f) ==
    /\ folders[f] \in InTrash
    /\ RestoreFolders({f})
    /\ Begin(r, "restore_documents", f, {})
    /\ UNCHANGED <<docVars, bucket>>

\* When the unique index refuses, the handler returns a 500 and what it has
\* restored so far stays restored.
RestoreDocuments(r) ==
    LET D == {d \in TrashedDocs : trash_origin_folder_id[d] = target[r]} IN
    /\ step[r] = "restore_documents"
    /\ IF CanRestore(D)
       THEN RestoreDocs(D) /\ Goto(r, "restore_subfolders")
       ELSE UNCHANGED docVars /\ Finish(r)
    /\ UNCHANGED <<folderVars, bucket>>

\* Mutant of RestoreSubfolders: the direct children only, no recursion.
RestoreChildren(r) ==
    /\ step[r] = "restore_subfolders"
    /\ RestoreFolders({g \in TrashedFolders :
                         trash_origin_parent_id[g] = target[r]})
    /\ Goto(r, "restore_subfolder_documents")
    /\ UNCHANGED <<docVars, bucket>>

RestoreSubfolders(r) ==
    /\ step[r] = "restore_subfolders"
    /\ RestoreFolders(Tree({target[r]}, trash_origin_parent_id, TrashedFolders)
                      \ {target[r]})
    /\ Goto(r, "restore_subfolder_documents")
    /\ UNCHANGED <<docVars, bucket>>

\* The CTE walks trashed sub-folders only.
RestoreSubfolderDocuments(r) ==
    LET tree == Tree({target[r]} \cap FolderRows, trash_origin_parent_id,
                     TrashedFolders)
        D == {d \in TrashedDocs : trash_origin_folder_id[d] \in tree} IN
    /\ step[r] = "restore_subfolder_documents"
    /\ IF CanRestore(D) THEN RestoreDocs(D) ELSE UNCHANGED docVars
    /\ Finish(r)
    /\ UNCHANGED <<folderVars, bucket>>

-----------------------------------------------------------------------------
(***************************************************************************)
(* The purges: each reads the keys, deletes the rows, deletes the objects. *)
(***************************************************************************)

\* Mutant of DocKeys: the document id for its key.
DocIds(D) == D

DocKeys(D) == {DocKey(d) : d \in D}
ThumbKeys(D) == {ThumbKey(d) : d \in D \cap thumbnail_path}

\* A statement that deletes the folders F; if the unique index refuses, a
\* request returns an error and its objects stay behind.
DeleteFoldersStatement(r, F) ==
    /\ IF CanDeleteFolders(F)
       THEN DeleteFolders(F) /\ Goto(r, "delete_objects")
       ELSE UNCHANGED <<docVars, folderVars>> /\ Finish(r)
    /\ UNCHANGED bucket

\* permanent_delete_document
PermanentDeleteDocument(r, d) ==
    /\ documents[d] \in InTrash
    /\ Begin(r, "delete_document_row", d, {DocKey(d)})
    /\ UNCHANGED <<docVars, folderVars, bucket>>

\* The DELETE is not guarded by deleted_at IS NOT NULL.
DeleteDocumentRow(r) ==
    /\ step[r] = "delete_document_row"
    /\ DeleteDocs({target[r]} \cap DocRows)
    /\ Goto(r, "delete_objects")
    /\ UNCHANGED <<folderVars, bucket>>

\* permanent_delete_folder does not ask that the folder be in the trash; its
\* tree follows trash_origin_parent_id.
OriginTree(f) == Tree({f} \cap FolderRows, trash_origin_parent_id, FolderRows)
TreeDocs(f) == {d \in TrashedDocs : trash_origin_folder_id[d] \in OriginTree(f)}

PermanentDeleteFolder(r, f) ==
    /\ f \in FolderRows
    /\ Begin(r, "collect_folder_thumbnails", f, DocKeys(TreeDocs(f)))
    /\ UNCHANGED <<docVars, folderVars, bucket>>

CollectFolderThumbnails(r) ==
    /\ step[r] = "collect_folder_thumbnails"
    /\ Collect(r, ThumbKeys(TreeDocs(target[r])), "delete_tree_documents")
    /\ UNCHANGED <<docVars, folderVars, bucket>>

DeleteTreeDocuments(r) ==
    /\ step[r] = "delete_tree_documents"
    /\ DeleteDocs(TreeDocs(target[r]))
    /\ Goto(r, "delete_tree_folders")
    /\ UNCHANGED <<folderVars, bucket>>

DeleteTreeFolders(r) ==
    /\ step[r] = "delete_tree_folders"
    /\ DeleteFoldersStatement(r, OriginTree(target[r]))

\* Mutant of EmptyTrash: the SELECT forgets deleted_at IS NOT NULL.
EmptyTrashOfAll(r) ==
    /\ Begin(r, "collect_thumbnails", Nil, DocKeys(DocRows))
    /\ UNCHANGED <<docVars, folderVars, bucket>>

\* empty_trash
EmptyTrash(r) ==
    /\ Begin(r, "collect_thumbnails", Nil, DocKeys(TrashedDocs))
    /\ UNCHANGED <<docVars, folderVars, bucket>>

\* Mutant of CollectThumbnails: the thumbnails of the active documents as well.
CollectAllThumbnails(r) ==
    /\ step[r] = "collect_thumbnails"
    /\ Collect(r, ThumbKeys(DocRows), "delete_trashed_documents")
    /\ UNCHANGED <<docVars, folderVars, bucket>>

CollectThumbnails(r) ==
    /\ step[r] = "collect_thumbnails"
    /\ Collect(r, ThumbKeys(TrashedDocs), "delete_trashed_documents")
    /\ UNCHANGED <<docVars, folderVars, bucket>>

\* Mutant of DeleteTrashedDocuments: the DELETE forgets the same condition.
DeleteAllDocuments(r) ==
    /\ step[r] = "delete_trashed_documents"
    /\ DeleteDocs(DocRows)
    /\ Goto(r, "delete_trashed_folders")
    /\ UNCHANGED <<folderVars, bucket>>

DeleteTrashedDocuments(r) ==
    /\ step[r] = "delete_trashed_documents"
    /\ DeleteDocs(TrashedDocs)
    /\ Goto(r, "delete_trashed_folders")
    /\ UNCHANGED <<folderVars, bucket>>

DeleteTrashedFolders(r) ==
    /\ step[r] = "delete_trashed_folders"
    /\ DeleteFoldersStatement(r, TrashedFolders)

-----------------------------------------------------------------------------
(***************************************************************************)
(* cleanup_expired_trash, which main awaits before it binds the listener.  *)
(***************************************************************************)

ExpiredDocs == {d \in Doc : documents[d] = "expired"}
ExpiredFolders == {f \in Folder : folders[f] = "expired"}

\* Every request of the old process is gone when the new one starts.
Restart ==
    /\ "abort" \in Faults \/ AllIdle
    /\ step' = [t \in Task |-> IF t = Boot THEN "collect_expired" ELSE "idle"]
    /\ target' = [t \in Task |-> Nil]
    /\ paths' = [t \in Task |-> {}]
    /\ UNCHANGED <<docVars, folderVars, bucket>>

\* Mutant of CollectExpired: only the thumbnails are collected.
CollectExpiredThumbnails ==
    /\ step[Boot] = "collect_expired"
    /\ Collect(Boot, ThumbKeys(ExpiredDocs), "delete_expired_documents")
    /\ UNCHANGED <<docVars, folderVars, bucket>>

CollectExpired ==
    /\ step[Boot] = "collect_expired"
    /\ Collect(Boot, DocKeys(ExpiredDocs) \cup ThumbKeys(ExpiredDocs),
               "delete_expired_documents")
    /\ UNCHANGED <<docVars, folderVars, bucket>>

\* Mutant of DeleteExpiredDocuments: the documents of the root only.
DeleteExpiredRootDocuments ==
    /\ step[Boot] = "delete_expired_documents"
    /\ DeleteDocs({d \in ExpiredDocs : folder_id[d] = Nil})
    /\ Goto(Boot, "delete_expired_folders")
    /\ UNCHANGED <<folderVars, bucket>>

DeleteExpiredDocuments ==
    /\ step[Boot] = "delete_expired_documents"
    /\ \/ DeleteDocs(ExpiredDocs)
       \/ "db" \in Faults /\ UNCHANGED docVars
    /\ Goto(Boot, "delete_expired_folders")
    /\ UNCHANGED <<folderVars, bucket>>

DeleteExpiredFolders ==
    /\ step[Boot] = "delete_expired_folders"
    /\ \/ CanDeleteFolders(ExpiredFolders) /\ DeleteFolders(ExpiredFolders)
       \/ /\ "db" \in Faults \/ ~CanDeleteFolders(ExpiredFolders)
          /\ UNCHANGED <<docVars, folderVars>>
    /\ Goto(Boot, "delete_objects")
    /\ UNCHANGED bucket

-----------------------------------------------------------------------------
(***************************************************************************)
(* The last steps of every purge: one delete_object for each key.          *)
(***************************************************************************)

\* Mutant of DeleteObject: a request whose deletion failed goes back to its
\* last statement.
RetryObject(t) ==
    /\ step[t] = "delete_objects"
    /\ \E k \in paths[t] :
         \/ /\ bucket' = bucket \ {k}
            /\ paths' = [paths EXCEPT ![t] = @ \ {k}]
            /\ UNCHANGED step
         \/ /\ "s3" \in Faults /\ t \in Request
            /\ step' = [step EXCEPT ![t] = "delete_trashed_folders"]
            /\ UNCHANGED <<bucket, paths>>
    /\ UNCHANGED <<docVars, folderVars, target>>

DeleteObject(t) ==
    /\ step[t] = "delete_objects"
    /\ \E k \in paths[t] :
         /\ paths' = [paths EXCEPT ![t] = @ \ {k}]
         /\ \/ bucket' = bucket \ {k}
            \/ "s3" \in Faults /\ UNCHANGED bucket
    /\ UNCHANGED <<docVars, folderVars, step, target>>

PurgeDone(t) ==
    /\ step[t] = "delete_objects"
    /\ paths[t] = {}
    /\ Finish(t)
    /\ UNCHANGED <<docVars, folderVars, bucket>>

\* A request may end at any step.  The cleanup only returns when its SELECT
\* fails; when the process dies in the middle of it, that is a Restart.
Abort(t) ==
    /\ "abort" \in Faults
    /\ IF t = Boot THEN step[t] = "collect_expired" ELSE step[t] # "idle"
    /\ Finish(t)
    /\ UNCHANGED <<docVars, folderVars, bucket>>

\* Time passes: what is in the trash gets older than the retention period.
Expire ==
    /\ TrashedDocs \cup TrashedFolders # ExpiredDocs \cup ExpiredFolders
    /\ documents' =
         [d \in Doc |-> IF d \in TrashedDocs THEN "expired" ELSE documents[d]]
    /\ folders' =
         [f \in Folder |-> IF f \in TrashedFolders THEN "expired" ELSE folders[f]]
    /\ UNCHANGED <<folder_id, trash_origin_folder_id, thumbnail_path, parent_id,
                   trash_origin_parent_id, bucket, taskVars>>

-----------------------------------------------------------------------------
Init ==
    /\ documents = [d \in Doc |-> "none"]
    /\ folder_id = [d \in Doc |-> Nil]
    /\ trash_origin_folder_id = [d \in Doc |-> Nil]
    /\ thumbnail_path = {}
    /\ folders = [f \in Folder |-> "none"]
    /\ parent_id = [f \in Folder |-> Nil]
    /\ trash_origin_parent_id = [f \in Folder |-> Nil]
    /\ bucket = {}
    /\ step = [t \in Task |-> "idle"]
    /\ target = [t \in Task |-> Nil]
    /\ paths = [t \in Task |-> {}]

OneStatement ==
    \/ \E f \in Folder, p \in Folder \cup {Nil} : CreateFolder(f, p)
    \/ \E d \in Doc : DeleteDocument(d)
    \/ \E f \in Folder : DeleteFolderDocuments(f)
    \/ \E d \in Doc : RestoreDocument(d)

Arrive(r) ==
    \/ \E d \in Doc : UploadDocument(r, d)
    \/ \E d \in Doc : UploadThumbnail(r, d)
    \/ \E d \in Doc : DeleteThumbnail(r, d)
    \/ \E f \in Folder : DeleteFolder(r, f)
    \/ \E f \in Folder : RestoreFolder(r, f)
    \/ \E d \in Doc : PermanentDeleteDocument(r, d)
    \/ \E f \in Folder : PermanentDeleteFolder(r, f)
    \/ EmptyTrash(r)

Continue(r) ==
    \/ \E f \in Folder \cup {Nil} : InsertDocument(r, f)
    \/ PutThumbnail(r)
    \/ SetThumbnailPath(r)
    \/ DeleteThumbnailObject(r)
    \/ ClearThumbnailPath(r)
    \/ TrashFolder(r)
    \/ TrashSubfolders(r)
    \/ TrashTreeDocuments(r)
    \/ RestoreDocuments(r)
    \/ RestoreSubfolders(r)
    \/ RestoreSubfolderDocuments(r)
    \/ DeleteDocumentRow(r)
    \/ CollectFolderThumbnails(r)
    \/ DeleteTreeDocuments(r)
    \/ DeleteTreeFolders(r)
    \/ CollectThumbnails(r)
    \/ DeleteTrashedDocuments(r)
    \/ DeleteTrashedFolders(r)
    \/ DeleteObject(r)
    \/ PurgeDone(r)

Cleanup ==
    \/ CollectExpired
    \/ DeleteExpiredDocuments
    \/ DeleteExpiredFolders
    \/ DeleteObject(Boot)
    \/ PurgeDone(Boot)

Next ==
    \/ OneStatement
    \/ \E r \in Request : Arrive(r) \/ Continue(r)
    \/ Cleanup
    \/ Restart
    \/ \E t \in Task : Abort(t)
    \/ Expire

Spec == Init /\ [][Next]_vars

\* Fairness: the runtime polls every request in flight, and main awaits the
\* cleanup.  Nothing makes a request arrive or the server restart.
FairSpec == Spec /\ WF_vars(Cleanup) /\ \A r \in Request : WF_vars(Continue(r))

-----------------------------------------------------------------------------
(***************************************************************************)
(* Properties.                                                             *)
(***************************************************************************)

FolderRef == Folder \cup {Nil}

\* Every variable has its type.
TypeOK ==
    /\ documents \in [Doc -> RowState]
    /\ folder_id \in [Doc -> FolderRef]
    /\ trash_origin_folder_id \in [Doc -> FolderRef]
    /\ thumbnail_path \subseteq Doc
    /\ folders \in [Folder -> RowState]
    /\ parent_id \in [Folder -> FolderRef]
    /\ trash_origin_parent_id \in [Folder -> FolderRef]
    /\ bucket \subseteq Key
    /\ step \in [Task -> Step]
    /\ target \in [Task -> Doc \cup FolderRef]
    /\ paths \in [Task -> SUBSET Key]

\* A restore puts an item back where it was: whatever happens to the folders
\* while it is in the trash, the place a document or folder was trashed from
\* is the place its row still names, so the two columns never drift apart.
OriginIsPlace ==
    /\ \A d \in TrashedDocs : trash_origin_folder_id[d] = folder_id[d]
    /\ \A f \in TrashedFolders : trash_origin_parent_id[f] = parent_id[f]

\* The folders form a forest, so that every recursive CTE (UNION ALL, which
\* does not stop on a cycle) of delete_folder, restore_folder and
\* permanent_delete_folder terminates: any set of folders has a member whose
\* parent is outside it, along parent_id and along trash_origin_parent_id.
FolderForest ==
    \A S \in (SUBSET Folder) \ {{}} :
        \E f \in S : parent_id[f] \notin S /\ trash_origin_parent_id[f] \notin S

\* Every request in flight ends, however often S3 fails.
RequestsEnd ==
    \A r \in Request : step[r] # "idle" ~> step[r] = "idle"

\* What is expired when the server starts is purged before it serves again.
StartPurgesExpired ==
    \A d \in Doc : (step[Boot] = "collect_expired" /\ documents[d] = "expired")
                    ~> documents[d] = "purged"

-----------------------------------------------------------------------------
(***************************************************************************)
(* The inductive invariant behind OriginIsPlace and FolderForest.          *)
(***************************************************************************)

DocumentSteps == {"insert_document", "delete_document_row"} \cup ThumbnailSteps
FolderSteps == {"trash_folder", "trash_subfolders", "trash_tree_documents",
                "collect_folder_thumbnails", "delete_tree_documents",
                "delete_tree_folders"} \cup RestoreSteps

\* A task that works on a document or a folder names one.
TargetOK ==
    \A t \in Task : /\ step[t] \in DocumentSteps => target[t] \in Doc
                    /\ step[t] \in FolderSteps => target[t] \in Folder

\* References are to existing rows, a folder's trash origin is its parent or
\* NULL, and parents form a forest.
RefsExist ==
    \A f \in Folder :
        /\ parent_id[f] \in FolderRows \cup {Nil}
        /\ trash_origin_parent_id[f] \in {Nil, parent_id[f]}
        /\ folders[f] \notin Exists => parent_id[f] = Nil
ParentForest ==
    \A S \in SUBSET Folder : S # {} => \E f \in S : parent_id[f] \notin S

FolderPlaces ==
    /\ \A f \in TrashedFolders : trash_origin_parent_id[f] = parent_id[f]
    /\ RefsExist
    /\ ParentForest
DocPlaces == \A d \in TrashedDocs : trash_origin_folder_id[d] = folder_id[d]

=============================================================================
