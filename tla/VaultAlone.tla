---------------------------- MODULE VaultAlone ----------------------------
(***************************************************************************)
(* The store when its requests come one after the other, as from one       *)
(* browser tab that awaits each answer: what a request does by itself, from *)
(* its first statement to its last.                                        *)
(***************************************************************************)
EXTENDS Vault

\* The ids are UUIDs: no folder has the id of a document.
ASSUME IdsAssumption == Doc \cap Folder = {}

VARIABLES
    trashedWith,    \* history: the folder whose delete_folder moved the item
                    \* to the trash, or Nil if it is not there or was moved
                    \* there otherwise
    leftover        \* history: the keys of objects left in the bucket by the
                    \* step that should have deleted them

aloneVars == <<vars, trashedWith, leftover>>

DeletingFolder(r) == step[r] \in {"trash_folder", "trash_subfolders",
                                  "trash_tree_documents"}
Cause == IF \E r \in Request : DeletingFolder(r)
         THEN target[CHOOSE r \in Request : DeletingFolder(r)]
         ELSE Nil
Trashed ==
    trashedWith' =
        [x \in Doc \cup Folder |->
            LET now == IF x \in Doc THEN documents'[x] ELSE folders'[x]
                was == IF x \in Doc THEN documents[x] ELSE folders[x] IN
            IF now \notin InTrash THEN Nil
            ELSE IF was \notin InTrash THEN Cause ELSE trashedWith[x]]

\* A purge is done with a key when its delete_object returns, failed or not, or
\* when its last statement is refused; permanent_delete_document never reads
\* the key of the thumbnail; delete_thumbnail goes on when S3 fails.
Done ==
    (UNION {paths[t] \ paths'[t] : t \in Task})
    \cup {ThumbKey(target[r]) : r \in {q \in Request :
            /\ step[q] \in {"delete_document_row", "delete_thumbnail_object"}
            /\ step'[q] # step[q]}}
Left == leftover' = leftover \cup (Done \cap bucket')

AloneInit ==
    /\ Init
    /\ trashedWith = [x \in Doc \cup Folder |-> Nil]
    /\ leftover = {}

AloneNext ==
    /\ \/ AllIdle /\ Next
       \/ \E r \in Request : Continue(r)
       \/ Cleanup
    /\ Trashed
    /\ Left
AloneSpec == AloneInit /\ [][AloneNext]_aloneVars

-----------------------------------------------------------------------------
\* What delete_folder moved to the trash with a folder, and is still there,
\* comes back when restore_folder returns: the sub-folders do.
RestoreBringsBackFolders ==
    [][\A r \in Request :
         step[r] = "restore_subfolder_documents" /\ step'[r] = "idle"
         => \A f \in Folder : trashedWith'[f] # target[r]]_aloneVars

\* And so do the documents ("Restore a trashed folder and all its contents
\* recursively").
RestoreBringsBackDocuments ==
    [][\A r \in Request :
         step[r] = "restore_subfolder_documents" /\ step'[r] = "idle"
         => \A d \in Doc : trashedWith'[d] # target[r]]_aloneVars

\* When delete_folder returns, the folders that it took hold no active document,
\* which the listing of no active folder would show.  It does not reach what lies
\* below a folder that was in the trash already.
DeleteTakesContents ==
    [][\A r \in Request :
         step[r] = "trash_tree_documents" /\ step'[r] = "idle"
         => \A d \in Doc : documents'[d] = "active" /\ folder_id'[d] # Nil
                          => trashedWith'[folder_id'[d]] # target[r]]_aloneVars

\* Between requests the bucket holds neither the object nor the thumbnail of a
\* purged document, but for the thumbnail that permanent_delete_document leaves
\* and for the objects whose deletion failed or was given up with the request.
PurgeIsComplete ==
    AllIdle => \A d \in Doc : documents[d] = "purged" =>
                 {DocKey(d), ThumbKey(d)} \cap bucket \subseteq leftover

-----------------------------------------------------------------------------
(***************************************************************************)
(* The inductive invariant behind PurgeIsComplete.                         *)
(***************************************************************************)

\* One task at a time.
OneTask ==
    \A t, u \in Task : step[t] # "idle" /\ step[u] # "idle" => t = u

\* A purge has read the keys of every document whose row it is about to delete,
\* its thumbnail's in a SELECT of its own.
KeysHeld ==
    \A t \in Task :
        /\ step[t] = "idle" => paths[t] = {}
        /\ step[t] = "delete_document_row" => DocKey(target[t]) \in paths[t]
        /\ step[t] \in {"collect_folder_thumbnails", "delete_tree_documents"}
             => DocKeys(TreeDocs(target[t])) \subseteq paths[t]
        /\ step[t] = "delete_tree_documents"
             => ThumbKeys(TreeDocs(target[t])) \subseteq paths[t]
        /\ step[t] \in {"collect_thumbnails", "delete_trashed_documents"}
             => DocKeys(TrashedDocs) \subseteq paths[t]
        /\ step[t] = "delete_trashed_documents"
             => ThumbKeys(TrashedDocs) \subseteq paths[t]
        /\ step[t] = "delete_expired_documents"
             => DocKeys(ExpiredDocs) \cup ThumbKeys(ExpiredDocs) \subseteq paths[t]

\* What is left in the bucket of a purged document is about to be deleted or
\* was left there.
LeftToDelete ==
    \A d \in Doc : documents[d] = "purged" /\ DocKey(d) \in bucket
                   => DocKey(d) \in leftover \cup UNION {paths[t] : t \in Task}

\* A thumbnail in the bucket is named by a row, about to be named or deleted, or
\* was left there; no step of a thumbnail handler meets a purged row.
ThumbsNamed ==
    /\ thumbnail_path \subseteq DocRows
    /\ \A d \in Doc : ThumbKey(d) \in bucket =>
         \/ d \in thumbnail_path
         \/ ThumbKey(d) \in leftover \cup UNION {paths[t] : t \in Task}
         \/ \E r \in Request : step[r] = "set_thumbnail_path" /\ target[r] = d
    /\ \A r \in Request :
         /\ step[r] = "insert_document" => documents[target[r]] = "none"
         /\ step[r] \in {"put_thumbnail", "set_thumbnail_path"}
              => target[r] \in DocRows
         /\ step[r] = "clear_thumbnail_path"
              => {ThumbKey(target[r])} \cap bucket \subseteq leftover

CompleteInv == OneTask /\ KeysHeld /\ LeftToDelete /\ ThumbsNamed

-----------------------------------------------------------------------------
(***************************************************************************)
(* The inductive invariant behind RestoreBringsBackFolders and             *)
(* DeleteTakesContents.                                                    *)
(***************************************************************************)

\* The folders whose restore has not come to its sub-folders yet.
Opening == {target[r] : r \in {q \in Request :
                step[q] \in {"restore_documents", "restore_subfolders"}}}

\* What hangs below folder g in the trash, through folders that are there too
\* or are being restored with what hangs below them.
Below(g) == Tree({g}, trash_origin_parent_id, TrashedFolders \cup Opening)

\* A folder that went to the trash with another one hangs below it.
Carried ==
    \A f \in Folder :
        trashedWith[f] # Nil => /\ folders[f] \in InTrash
                                /\ trashedWith[f] \in Folder
                                /\ f \in Below(trashedWith[f])

\* The folder that a request deletes has a row, the one it restores is out of
\* the trash, and so are its sub-folders once they have been restored.
TargetPlaced ==
    \A r \in Request :
        /\ DeletingFolder(r) => target[r] \in FolderRows
        /\ step[r] \in RestoreSteps => target[r] \notin TrashedFolders
        /\ step[r] = "restore_subfolder_documents"
             => \A f \in Folder : trashedWith[f] # target[r]

CarriedInv == OneTask /\ Carried /\ TargetPlaced

=============================================================================
