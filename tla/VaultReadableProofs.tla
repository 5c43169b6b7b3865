------------------------ MODULE VaultReadableProofs ------------------------
(***************************************************************************)
(* DocumentsReadable and ThumbnailsReadable are invariants of VaultRaces,  *)
(* for every set of documents, folders and requests and under every fault: *)
(* the races that the module names are the only ways in which a row can    *)
(* lose its object or its thumbnail.                                       *)
(*                                                                         *)
(* The first part says what one step of Vault can do to the rows, to the   *)
(* bucket and to the tasks; the invariants follow from that.               *)
(***************************************************************************)
EXTENDS VaultRaces, VaultProofs

LEMMA RacesSpecIsSpec == RacesSpec => Spec
<1>1. RacesInit => Init
  BY DEF RacesInit
<1>2. [RacesNext]_racesVars => [Next]_vars
  BY DEF RacesNext, racesVars
<1> QED
  BY <1>1, <1>2, PTL DEF RacesSpec, Spec

LEMMA KeyDoc ==
    /\ \A d \in Doc : /\ DocKey(d) \in Key /\ DocKey(d)[2] = d
                      /\ ThumbKey(d) \in Key /\ ThumbKey(d)[2] = d
    /\ \A d, e \in Doc : DocKey(d) # ThumbKey(e)
    /\ \A k \in Key : /\ k[2] \in Doc
                      /\ k = DocKey(k[2]) \/ k = ThumbKey(k[2])
BY DEF Key, DocKey, ThumbKey

-----------------------------------------------------------------------------
(***************************************************************************)
(* What one step does to the rows.                                         *)
(***************************************************************************)
NoRows == UNCHANGED <<documents, trash_origin_folder_id, folderVars>>
FoldersOnly ==
    /\ UNCHANGED <<documents, trash_origin_folder_id>>
    /\ \/ \E f \in Folder, p \in Folder \cup {Nil} : CreateFolder(f, p)
       \/ \E F \in SUBSET FolderRows : TrashFolders(F)
       \/ \E F \in SUBSET Folder : RestoreFolders(F)
RowStep ==
    \/ NoRows
    \/ FoldersOnly
    \/ \E D \in SUBSET Doc : /\ \A d \in D : documents[d] = "active"
                             /\ TrashDocs(D)
                             /\ UNCHANGED folderVars
    \/ \E D \in SUBSET TrashedDocs : RestoreDocs(D) /\ UNCHANGED folderVars
    \/ \E D \in SUBSET DocRows : DeleteDocs(D) /\ UNCHANGED folderVars
    \/ \E r \in Request : /\ step[r] = "insert_document"
                          /\ documents' = [documents EXCEPT ![target[r]] = "active"]
                          /\ step' = [step EXCEPT ![r] = "idle"]
                          /\ UNCHANGED <<trash_origin_folder_id, folderVars, bucket>>
    \/ \E F \in SUBSET FolderRows : DeleteFolders(F)
    \/ Expire

LEMMA RowSteps ==
    ASSUME TypeOK, TargetOK, [Next]_vars
    PROVE  RowStep
<1> USE DEF docVars, NoRows, FoldersOnly
<1>1. ASSUME \/ \E f \in Folder, p \in Folder \cup {Nil} : CreateFolder(f, p)
             \/ Expire
             \/ UNCHANGED vars
      PROVE  RowStep
  BY <1>1 DEF RowStep, CreateFolder, vars, folderVars
<1>2. ASSUME \/ \E d \in Doc : DeleteDocument(d)
             \/ \E f \in Folder : DeleteFolderDocuments(f)
             \/ \E r \in Request : TrashTreeDocuments(r)
      PROVE  RowStep
  <2>1. \E D \in SUBSET Doc : /\ \A d \in D : documents[d] = "active"
                              /\ TrashDocs(D)
                              /\ UNCHANGED folderVars
    BY <1>2 DEF DeleteDocument, DeleteFolderDocuments, TrashTreeDocuments
  <2> QED
    BY <2>1 DEF RowStep
<1>3. ASSUME NEW d \in Doc, RestoreDocument(d)
      PROVE  RowStep
  <2>1. {d} \in SUBSET TrashedDocs
    BY <1>3 DEF RestoreDocument, TrashedDocs
  <2> QED
    BY <1>3, <2>1 DEF RestoreDocument, RowStep
<1>4. ASSUME NEW r \in Request,
             RestoreDocuments(r) \/ RestoreSubfolderDocuments(r)
      PROVE  RowStep
  <2>1. \/ UNCHANGED <<docVars, folderVars>>
        \/ \E D \in SUBSET TrashedDocs : RestoreDocs(D) /\ UNCHANGED folderVars
    BY <1>4 DEF RestoreDocuments, RestoreSubfolderDocuments
  <2> QED
    BY <2>1 DEF RowStep
<1>5. ASSUME \E r \in Request : TrashFolder(r) \/ TrashSubfolders(r)
      PROVE  RowStep
  <2>1. PICK r \in Request : TrashFolder(r) \/ TrashSubfolders(r)
    BY <1>5
  <2>2. Tree({target[r]} \cap FolderRows, parent_id, ActiveFolders)
          \subseteq FolderRows
    <3>1. {target[r]} \cap FolderRows \in SUBSET Folder
          /\ ActiveFolders \in SUBSET Folder
      BY DEF FolderRows, ActiveFolders
    <3>2. ActiveFolders \subseteq FolderRows
      BY DEF ActiveFolders, FolderRows, Exists
    <3> QED
      BY <3>1, <3>2, TreeBound
  <2>3. \E F \in SUBSET FolderRows : TrashFolders(F)
    BY <2>1, <2>2 DEF TrashFolder, TrashSubfolders
  <2> QED
    BY <2>1, <2>3 DEF RowStep, TrashFolder, TrashSubfolders
<1>6. ASSUME NEW r \in Request, RestoreSubfolders(r)
      PROVE  RowStep
  <2>1. \E F \in SUBSET Folder : RestoreFolders(F)
    BY <1>6 DEF RestoreSubfolders, Tree
  <2> QED
    BY <1>6, <2>1 DEF RowStep, RestoreSubfolders
<1>7. ASSUME NEW r \in Request, NEW f \in Folder, RestoreFolder(r, f)
      PROVE  RowStep
  <2>1. {f} \in SUBSET Folder
    OBVIOUS
  <2> QED
    BY <1>7, <2>1 DEF RowStep, RestoreFolder
<1>8. ASSUME \/ \E r \in Request : \/ DeleteDocumentRow(r)
                                   \/ DeleteTreeDocuments(r)
                                   \/ DeleteTrashedDocuments(r)
             \/ DeleteExpiredDocuments
      PROVE  RowStep
  <2>1. \A f : TreeDocs(f) \subseteq DocRows
    BY DEF TreeDocs, TrashedDocs, DocRows, Exists
  <2>2. TrashedDocs \subseteq DocRows /\ ExpiredDocs \subseteq DocRows
    BY DEF TrashedDocs, ExpiredDocs, DocRows, Exists, InTrash
  <2>3. \/ UNCHANGED <<docVars, folderVars>>
        \/ \E D \in SUBSET DocRows : DeleteDocs(D) /\ UNCHANGED folderVars
    BY <1>8, <2>1, <2>2 DEF DeleteDocumentRow, DeleteTreeDocuments,
       DeleteTrashedDocuments, DeleteExpiredDocuments
  <2> QED
    BY <2>3 DEF RowStep
<1>9. ASSUME \/ \E r \in Request : DeleteTreeFolders(r) \/ DeleteTrashedFolders(r)
             \/ DeleteExpiredFolders
      PROVE  RowStep
  <2>1. \A f : OriginTree(f) \subseteq FolderRows
    <3>1. \A f : {f} \cap FolderRows \in SUBSET Folder
          /\ FolderRows \in SUBSET Folder
      BY DEF FolderRows
    <3> QED
      BY <3>1, TreeBound DEF OriginTree
  <2>2. TrashedFolders \subseteq FolderRows /\ ExpiredFolders \subseteq FolderRows
    BY DEF TrashedFolders, ExpiredFolders, FolderRows, Exists, InTrash
  <2>3. \/ UNCHANGED <<docVars, folderVars>>
        \/ \E F \in SUBSET FolderRows : DeleteFolders(F)
    BY <1>9, <2>1, <2>2 DEF DeleteTreeFolders, DeleteTrashedFolders,
       DeleteFoldersStatement, DeleteExpiredFolders
  <2> QED
    BY <2>3 DEF RowStep
<1>10. ASSUME NEW r \in Request, NEW f \in Folder \cup {Nil}, InsertDocument(r, f)
       PROVE  RowStep
  BY <1>10 DEF RowStep, InsertDocument, Finish
<1>11. ASSUME \/ \E r \in Request : \/ \E d \in Doc : UploadDocument(r, d)
                                    \/ \E d \in Doc : UploadThumbnail(r, d)
                                    \/ \E d \in Doc : DeleteThumbnail(r, d)
                                    \/ \E f \in Folder : DeleteFolder(r, f)
                                    \/ \E d \in Doc : PermanentDeleteDocument(r, d)
                                    \/ \E f \in Folder : PermanentDeleteFolder(r, f)
                                    \/ EmptyTrash(r)
       PROVE  RowStep
  <2>1. NoRows
    BY <1>11 DEF UploadDocument, UploadThumbnail, DeleteThumbnail, DeleteFolder,
       PermanentDeleteDocument, PermanentDeleteFolder, EmptyTrash
  <2> QED
    BY <2>1 DEF RowStep
<1>12. ASSUME \/ \E r \in Request : \/ PutThumbnail(r) \/ SetThumbnailPath(r)
                                    \/ DeleteThumbnailObject(r)
                                    \/ ClearThumbnailPath(r)
                                    \/ CollectFolderThumbnails(r)
                                    \/ CollectThumbnails(r)
              \/ CollectExpired \/ Restart
              \/ \E t \in Task : DeleteObject(t) \/ PurgeDone(t) \/ Abort(t)
       PROVE  RowStep
  <2>1. NoRows
    BY <1>12 DEF PutThumbnail, SetThumbnailPath, DeleteThumbnailObject,
       ClearThumbnailPath, CollectFolderThumbnails, CollectThumbnails,
       CollectExpired, Restart, DeleteObject, PurgeDone, Abort
  <2> QED
    BY <2>1 DEF RowStep
<1> QED
  BY <1>1, <1>2, <1>3, <1>4, <1>5, <1>6, <1>7, <1>8, <1>9, <1>10, <1>11, <1>12
     DEF Next, OneStatement, Arrive, Continue, Cleanup, Task

\* The life of a row: it is inserted once, an expired one stays expired while it
\* is in the trash, and a deleted one stays deleted.
RowsLive ==
    \A d \in Doc :
        /\ documents[d] = "purged" => documents'[d] = "purged"
        /\ documents[d] # "none" => documents'[d] # "none"
        /\ documents[d] = "expired" => documents'[d] # "trashed"
        /\ documents[d] = "none" /\ documents'[d] # "none" =>
             /\ documents'[d] = "active"
             /\ UNCHANGED bucket
             /\ \E r \in Request :
                  /\ step[r] = "insert_document" /\ target[r] = d
                  /\ step'[r] # "insert_document"

LEMMA RowsLiveStep ==
    ASSUME TypeOK, UploadsPrivate, RowStep
    PROVE  RowsLive
<1> USE DEF RowsLive, TypeOK, TrashedDocs, DocRows, Exists, InTrash
<1>1. CASE NoRows \/ FoldersOnly \/ \E F \in SUBSET FolderRows : DeleteFolders(F)
  BY <1>1 DEF NoRows, FoldersOnly, DeleteFolders
<1>2. ASSUME NEW D \in SUBSET Doc, \A d \in D : documents[d] = "active",
             TrashDocs(D)
      PROVE  RowsLive
  BY <1>2 DEF TrashDocs
<1>3. ASSUME NEW D \in SUBSET TrashedDocs, RestoreDocs(D)
      PROVE  RowsLive
  BY <1>3 DEF RestoreDocs, Restored
<1>4. ASSUME NEW D \in SUBSET DocRows, DeleteDocs(D)
      PROVE  RowsLive
  BY <1>4 DEF DeleteDocs
<1>5. ASSUME NEW r \in Request, step[r] = "insert_document",
             documents' = [documents EXCEPT ![target[r]] = "active"],
             step' = [step EXCEPT ![r] = "idle"], UNCHANGED bucket
      PROVE  RowsLive
  <2>1. documents[target[r]] = "none"
    BY <1>5 DEF UploadsPrivate, Task
  <2>2. step'[r] = "idle"
    BY <1>5 DEF Task
  <2> QED
    BY <1>5, <2>1, <2>2
<1>6. CASE Expire
  BY <1>6 DEF Expire
<1> QED
  BY <1>1, <1>2, <1>3, <1>4, <1>5, <1>6 DEF RowStep

\* A document that stays in the trash with its origin stays in the trees of
\* trash origins it is in: trees grow, and a purge that takes folders out of
\* them takes all that is below, so the origin would have become NULL.
TreesKept ==
    \A d \in TrashedDocs, f \in Folder :
        /\ trash_origin_folder_id[d] \in OriginTree(f)
        /\ trash_origin_folder_id'[d] = trash_origin_folder_id[d]
        => trash_origin_folder_id[d] \in OriginTree(f)'

LEMMA OriginTreesGrow ==
    ASSUME FolderRows \subseteq FolderRows',
           \A h \in FolderRows : trash_origin_parent_id[h] \in Folder
                => trash_origin_parent_id'[h] = trash_origin_parent_id[h]
    PROVE  TreesKept
<1> SUFFICES ASSUME NEW f \in Folder
             PROVE  OriginTree(f) \subseteq OriginTree(f)'
  BY DEF TreesKept
<1>1. {f} \cap FolderRows \subseteq {f} \cap FolderRows'
  OBVIOUS
<1>2. Tree({f} \cap FolderRows, trash_origin_parent_id, FolderRows)
        \subseteq Tree({f} \cap FolderRows', trash_origin_parent_id', FolderRows')
  BY <1>1, TreeGrows
<1> QED
  BY <1>2 DEF OriginTree

LEMMA DeletedTrees ==
    ASSUME TypeOK, FolderPlaces, NEW F \in SUBSET FolderRows, DeleteFolders(F)
    PROVE  TreesKept
<1> DEFINE G == Cascade(F)
<1>1. /\ folders' = [f \in Folder |-> IF f \in G THEN "purged" ELSE folders[f]]
      /\ trash_origin_parent_id' =
           [f \in Folder |-> IF f \in G \/ trash_origin_parent_id[f] \in G
                             THEN Nil ELSE trash_origin_parent_id[f]]
      /\ trash_origin_folder_id' = Without(trash_origin_folder_id, G)
  BY DEF DeleteFolders
<1>2. G \subseteq Folder
  BY DEF Cascade, Tree
<1>3. \A h \in FolderRows : trash_origin_parent_id[h] \in G => h \in G
  <2>1. \A h \in FolderRows : parent_id[h] \in G => h \in G
    BY TreeClosed DEF Cascade, FolderRows
  <2>2. \A h \in Folder : trash_origin_parent_id[h] \in {Nil, parent_id[h]}
    BY DEF FolderPlaces, RefsExist
  <2> QED
    BY <1>2, <2>1, <2>2, NilAssumption DEF FolderRows
<1> HIDE DEF G
<1>4. FolderRows' = FolderRows \ G
  BY <1>1, <1>2 DEF FolderRows, Exists, InTrash
<1> SUFFICES ASSUME NEW d \in TrashedDocs, NEW f \in Folder,
                    trash_origin_folder_id[d] \in OriginTree(f),
                    trash_origin_folder_id'[d] = trash_origin_folder_id[d],
                    NEW S \in SUBSET Folder, {f} \cap FolderRows' \subseteq S,
                    \A h \in FolderRows' : trash_origin_parent_id'[h] \in S => h \in S
             PROVE  trash_origin_folder_id[d] \in S
  BY DEF TreesKept, OriginTree, Tree
<1>5. trash_origin_folder_id[d] \in Folder /\ trash_origin_folder_id[d] \notin G
  <2>1. d \in DOMAIN trash_origin_folder_id
    BY DEF TypeOK, TrashedDocs
  <2>2. trash_origin_folder_id[d] \in Folder
    BY DEF OriginTree, Tree
  <2> QED
    BY <1>1, <2>1, <2>2, NilAssumption DEF Without
<1>6. trash_origin_folder_id[d] \in S \cup G
  <2>1. S \cup G \in SUBSET Folder
    BY <1>2
  <2>2. {f} \cap FolderRows \subseteq S \cup G
    BY <1>4
  <2>3. ASSUME NEW h \in FolderRows, trash_origin_parent_id[h] \in S \cup G
        PROVE  h \in S \cup G
    <3>1. CASE h \in G \/ trash_origin_parent_id[h] \in G
      BY <1>3, <3>1
    <3>2. CASE h \notin G /\ trash_origin_parent_id[h] \notin G
      <4>1. h \in FolderRows' /\ trash_origin_parent_id'[h] = trash_origin_parent_id[h]
        BY <1>1, <1>4, <3>2 DEF FolderRows
      <4> QED
        BY <2>3, <3>2, <4>1
    <3> QED
      BY <3>1, <3>2
  <2> QED
    BY <2>1, <2>2, <2>3 DEF OriginTree, Tree
<1> QED
  BY <1>5, <1>6

LEMMA TreesKeptStep ==
    ASSUME TypeOK, FolderPlaces, RowStep
    PROVE  TreesKept
<1> USE DEF TypeOK
<1>1. ASSUME UNCHANGED folderVars
      PROVE  TreesKept
  BY <1>1, OriginTreesGrow DEF folderVars, FolderRows
<1>2. ASSUME NEW f \in Folder, NEW p \in Folder \cup {Nil}, CreateFolder(f, p)
      PROVE  TreesKept
  BY <1>2, OriginTreesGrow DEF CreateFolder, FolderRows, Exists
<1>3. ASSUME NEW F \in SUBSET FolderRows, TrashFolders(F)
      PROVE  TreesKept
  <2>1. \A f \in Folder : trash_origin_parent_id[f] \in {Nil, parent_id[f]}
    BY DEF FolderPlaces, RefsExist
  <2>2. FolderRows \subseteq FolderRows'
    BY <1>3 DEF TrashFolders, FolderRows, Exists, InTrash
  <2>3. \A f \in FolderRows : trash_origin_parent_id[f] \in Folder
          => trash_origin_parent_id'[f] = trash_origin_parent_id[f]
    BY <1>3, <2>1, NilAssumption DEF TrashFolders, FolderRows
  <2> QED
    BY <2>2, <2>3, OriginTreesGrow
<1>4. ASSUME NEW F \in SUBSET Folder, RestoreFolders(F)
      PROVE  TreesKept
  BY <1>4, OriginTreesGrow DEF RestoreFolders, FolderRows, Exists
<1>5. CASE Expire
  BY <1>5, OriginTreesGrow DEF Expire, FolderRows, TrashedFolders, Exists, InTrash
<1>6. ASSUME NEW F \in SUBSET FolderRows, DeleteFolders(F)
      PROVE  TreesKept
  BY <1>6, DeletedTrees
<1> QED
  BY <1>1, <1>2, <1>3, <1>4, <1>5, <1>6 DEF RowStep, NoRows, FoldersOnly

-----------------------------------------------------------------------------
(***************************************************************************)
(* Every key that a purge holds is the key of a document it will delete or *)
(* has deleted, or has raced.                                              *)
(***************************************************************************)
TaskDoomed(t) ==
    /\ \A k \in paths[t] : k \in raced \/ Doomed(t, k[2])
    /\ step[t] \notin PurgeSteps => paths[t] = {}

\* A document that is doomed stays doomed, or moves.
LEMMA DoomedStays ==
    ASSUME TypeOK, TypeOK', TargetOK, RowsLive, TreesKept,
           NEW t \in Task, NEW d \in Doc, Doomed(t, d),
           step'[t] = step[t], target'[t] = target[t]
    PROVE  d \in Moved \/ Doomed(t, d)'
<1> SUFFICES ASSUME d \notin Moved, documents'[d] # "purged"
             PROVE  Doomed(t, d)'
  BY DEF Doomed
<1>1. documents[d] # "purged"
  BY DEF RowsLive
<1>2. d \in TrashedDocs
  BY <1>1 DEF Doomed, TreeDocs, ExpiredDocs, TrashedDocs, InTrash
<1>3. /\ d \in TrashedDocs'
      /\ trash_origin_folder_id'[d] = trash_origin_folder_id[d]
      /\ d \in ExpiredDocs => d \in ExpiredDocs'
  <2>1. documents'[d] \in RowState /\ documents'[d] # "none"
    BY <1>2 DEF RowsLive, TrashedDocs, TypeOK, InTrash
  <2>2. documents'[d] \in InTrash
    BY <1>2, <2>1 DEF Moved, RowState, InTrash
  <2>3. trash_origin_folder_id'[d] = trash_origin_folder_id[d]
    BY <1>2, <2>2 DEF Moved
  <2> QED
    BY <2>2, <2>3 DEF TrashedDocs, ExpiredDocs, RowsLive, InTrash
<1>4. ASSUME step[t] \in {"collect_folder_thumbnails", "delete_tree_documents"},
             d \in TreeDocs(target[t])
      PROVE  d \in TreeDocs(target[t])'
  <2>1. target[t] \in Folder
    BY <1>4 DEF TargetOK, FolderSteps
  <2>2. trash_origin_folder_id[d] \in OriginTree(target[t])'
    <3>1. trash_origin_folder_id[d] \in OriginTree(target[t])
      BY <1>4 DEF TreeDocs
    <3>2. \A f \in Folder : f = target[t] => OriginTree(f)' = OriginTree(target[t])'
      BY DEF OriginTree
    <3> QED
      BY <1>2, <1>3, <2>1, <3>1, <3>2 DEF TreesKept
  <2> QED
    BY <1>3, <2>2 DEF TreeDocs
<1> QED
  BY <1>1, <1>2, <1>3, <1>4 DEF Doomed

\* Nothing happens to the task, or it drops its keys.
Stands(t) ==
    \/ paths'[t] = {}
    \/ /\ paths'[t] \subseteq paths[t]
       /\ step'[t] = step[t]
       /\ target'[t] = target[t]

LEMMA StandsDoomed ==
    ASSUME TypeOK, TypeOK', TargetOK, RowsLive, TreesKept, RecordRaces,
           NEW t \in Task, TaskDoomed(t), Stands(t)
    PROVE  TaskDoomed(t)'
<1> SUFFICES ASSUME paths'[t] # {}
             PROVE  TaskDoomed(t)'
  BY DEF TaskDoomed
<1>1. /\ paths'[t] \subseteq paths[t]
      /\ step'[t] = step[t]
      /\ target'[t] = target[t]
  BY DEF Stands
<1>2. ASSUME NEW k \in paths'[t], k \notin raced'
      PROVE  Doomed(t, k[2])'
  <2>1. k \in paths[t] /\ k \in Key
    BY <1>1 DEF TypeOK
  <2>2. k[2] \in Doc
    BY <2>1, KeyDoc
  <2>3. Doomed(t, k[2])
    BY <1>2, <2>1 DEF TaskDoomed, RecordRaces
  <2>4. k[2] \notin Moved
    BY <1>2, <2>1 DEF RecordRaces, MovedKeys, Held
  <2> QED
    BY <1>1, <2>2, <2>3, <2>4, DoomedStays
<1> QED
  BY <1>1, <1>2 DEF TaskDoomed

\* A purge goes on to its next statement.
LEMMA GoesOnDoomed ==
    ASSUME TypeOK, TypeOK', RecordRaces, NEW t \in Task, TaskDoomed(t),
           paths'[t] \subseteq paths[t], step'[t] \in PurgeSteps,
           \A k \in paths[t] : Doomed(t, k[2]) =>
               documents'[k[2]] = "purged" \/ k \in raced'
    PROVE  TaskDoomed(t)'
BY DEF TaskDoomed, Doomed, RecordRaces

\* A purge reads keys.
LEMMA ReadsDoomed ==
    ASSUME TypeOK, TypeOK', RecordRaces, NEW t \in Task, NEW K \in SUBSET Key,
           TaskDoomed(t), paths'[t] \subseteq paths[t] \cup K,
           step'[t] \in PurgeSteps,
           \A k \in paths[t] : Doomed(t, k[2]) => Doomed(t, k[2])',
           \A k \in K : Doomed(t, k[2])'
    PROVE  TaskDoomed(t)'
BY DEF TaskDoomed, RecordRaces

LEMMA DoomedStep ==
    ASSUME TypeOK, TypeOK', TargetOK, FolderPlaces, UploadsPrivate, PathsDoomed,
           CleanupAlone, [Next]_vars, RecordRaces
    PROVE  PathsDoomed'
<1> USE BootAssumption DEF TypeOK, Task
<1>a. /\ TypeOK /\ RowStep /\ RowsLive /\ TreesKept
      /\ \A t \in Task : TaskDoomed(t)
  BY RowSteps, RowsLiveStep, TreesKeptStep DEF PathsDoomed, TaskDoomed
<1>b. \A t \in Task : Stands(t) => TaskDoomed(t)'
  BY <1>a, StandsDoomed
<1>c. (\A t \in Task : TaskDoomed(t)') => PathsDoomed'
  BY DEF PathsDoomed, TaskDoomed
<1>d. \A t \in Task : step[t] \notin PurgeSteps => paths[t] = {}
  BY DEF PathsDoomed
<1>e. \A t \in Task : \A k \in paths[t] :
         k[2] \in Doc /\ (documents[k[2]] = "purged" => documents'[k[2]] = "purged")
  BY <1>a, KeyDoc DEF RowsLive
<1>f. documents \in [Doc -> RowState]
  OBVIOUS
<1> HIDE DEF TypeOK
<1>1. ASSUME NEW f \in Folder, NEW p \in Folder \cup {Nil}, CreateFolder(f, p)
       PROVE  PathsDoomed'
  <2>1. \A t \in Task : Stands(t)
    BY <1>1, <1>d DEF TypeOK, Stands, PurgeSteps, CreateFolder, taskVars
  <2> QED
    BY <1>b, <1>c, <2>1
<1>2. ASSUME NEW d \in Doc, DeleteDocument(d)
       PROVE  PathsDoomed'
  <2>1. \A t \in Task : Stands(t)
    BY <1>2, <1>d DEF TypeOK, Stands, PurgeSteps, DeleteDocument, taskVars
  <2> QED
    BY <1>b, <1>c, <2>1
<1>3. ASSUME NEW f \in Folder, DeleteFolderDocuments(f)
       PROVE  PathsDoomed'
  <2>1. \A t \in Task : Stands(t)
    BY <1>3, <1>d DEF TypeOK, Stands, PurgeSteps, DeleteFolderDocuments, taskVars
  <2> QED
    BY <1>b, <1>c, <2>1
<1>4. ASSUME NEW d \in Doc, RestoreDocument(d)
       PROVE  PathsDoomed'
  <2>1. \A t \in Task : Stands(t)
    BY <1>4, <1>d DEF TypeOK, Stands, PurgeSteps, RestoreDocument, taskVars
  <2> QED
    BY <1>b, <1>c, <2>1
<1>5. ASSUME NEW r \in Request, NEW d \in Doc, UploadDocument(r, d)
       PROVE  PathsDoomed'
  <2>1. \A t \in Task : Stands(t)
    BY <1>5, <1>d DEF TypeOK, Stands, PurgeSteps, UploadDocument, Begin
  <2> QED
    BY <1>b, <1>c, <2>1
<1>6. ASSUME NEW r \in Request, NEW d \in Doc, UploadThumbnail(r, d)
       PROVE  PathsDoomed'
  <2>1. \A t \in Task : Stands(t)
    BY <1>6, <1>d DEF TypeOK, Stands, PurgeSteps, UploadThumbnail, Begin
  <2> QED
    BY <1>b, <1>c, <2>1
<1>7. ASSUME NEW r \in Request, NEW d \in Doc, DeleteThumbnail(r, d)
       PROVE  PathsDoomed'
  <2>1. \A t \in Task : Stands(t)
    BY <1>7, <1>d DEF TypeOK, Stands, PurgeSteps, DeleteThumbnail, Begin
  <2> QED
    BY <1>b, <1>c, <2>1
<1>8. ASSUME NEW r \in Request, NEW f \in Folder, DeleteFolder(r, f)
       PROVE  PathsDoomed'
  <2>1. \A t \in Task : Stands(t)
    BY <1>8, <1>d DEF TypeOK, Stands, PurgeSteps, DeleteFolder, Begin
  <2> QED
    BY <1>b, <1>c, <2>1
<1>9. ASSUME NEW r \in Request, NEW f \in Folder, RestoreFolder(r, f)
       PROVE  PathsDoomed'
  <2>1. \A t \in Task : Stands(t)
    BY <1>9, <1>d DEF TypeOK, Stands, PurgeSteps, RestoreFolder, Begin
  <2> QED
    BY <1>b, <1>c, <2>1
<1>10. ASSUME NEW r \in Request, PutThumbnail(r)
       PROVE  PathsDoomed'
  <2>1. \A t \in Task : Stands(t)
    BY <1>10, <1>d DEF TypeOK, Stands, PurgeSteps, PutThumbnail, Goto
  <2> QED
    BY <1>b, <1>c, <2>1
<1>11. ASSUME NEW r \in Request, SetThumbnailPath(r)
       PROVE  PathsDoomed'
  <2>1. \A t \in Task : Stands(t)
    BY <1>11, <1>d DEF TypeOK, Stands, PurgeSteps, SetThumbnailPath, Finish
  <2> QED
    BY <1>b, <1>c, <2>1
<1>12. ASSUME NEW r \in Request, DeleteThumbnailObject(r)
       PROVE  PathsDoomed'
  <2>1. \A t \in Task : Stands(t)
    BY <1>12, <1>d DEF TypeOK, Stands, PurgeSteps, DeleteThumbnailObject, Goto
  <2> QED
    BY <1>b, <1>c, <2>1
<1>13. ASSUME NEW r \in Request, ClearThumbnailPath(r)
       PROVE  PathsDoomed'
  <2>1. \A t \in Task : Stands(t)
    BY <1>13, <1>d DEF TypeOK, Stands, PurgeSteps, ClearThumbnailPath, Finish
  <2> QED
    BY <1>b, <1>c, <2>1
<1>14. ASSUME NEW r \in Request, TrashFolder(r)
       PROVE  PathsDoomed'
  <2>1. \A t \in Task : Stands(t)
    BY <1>14, <1>d DEF TypeOK, Stands, PurgeSteps, TrashFolder, Goto
  <2> QED
    BY <1>b, <1>c, <2>1
<1>15. ASSUME NEW r \in Request, TrashSubfolders(r)
       PROVE  PathsDoomed'
  <2>1. \A t \in Task : Stands(t)
    BY <1>15, <1>d DEF TypeOK, Stands, PurgeSteps, TrashSubfolders, Goto
  <2> QED
    BY <1>b, <1>c, <2>1
<1>16. ASSUME NEW r \in Request, TrashTreeDocuments(r)
       PROVE  PathsDoomed'
  <2>1. \A t \in Task : Stands(t)
    BY <1>16, <1>d DEF TypeOK, Stands, PurgeSteps, TrashTreeDocuments, Finish
  <2> QED
    BY <1>b, <1>c, <2>1
<1>17. ASSUME NEW r \in Request, RestoreDocuments(r)
       PROVE  PathsDoomed'
  <2>1. \A t \in Task : Stands(t)
    BY <1>17, <1>d DEF TypeOK, Stands, PurgeSteps, RestoreDocuments, Goto, Finish
  <2> QED
    BY <1>b, <1>c, <2>1
<1>18. ASSUME NEW r \in Request, RestoreSubfolders(r)
       PROVE  PathsDoomed'
  <2>1. \A t \in Task : Stands(t)
    BY <1>18, <1>d DEF TypeOK, Stands, PurgeSteps, RestoreSubfolders, Goto
  <2> QED
    BY <1>b, <1>c, <2>1
<1>19. ASSUME NEW r \in Request, RestoreSubfolderDocuments(r)
       PROVE  PathsDoomed'
  <2>1. \A t \in Task : Stands(t)
    BY <1>19, <1>d DEF TypeOK, Stands, PurgeSteps, RestoreSubfolderDocuments, Finish
  <2> QED
    BY <1>b, <1>c, <2>1
<1>20. ASSUME NEW r \in Request, NEW f \in Folder \cup {Nil}, InsertDocument(r, f)
       PROVE  PathsDoomed'
  <2>1. \A t \in Task : Stands(t)
    BY <1>20, <1>d DEF TypeOK, Stands, PurgeSteps, InsertDocument, Finish
  <2> QED
    BY <1>b, <1>c, <2>1
<1>21. ASSUME NEW q \in Task, DeleteObject(q)
       PROVE  PathsDoomed'
  <2>1. \A t \in Task : Stands(t)
    BY <1>21, <1>d DEF TypeOK, Stands, PurgeSteps, DeleteObject
  <2> QED
    BY <1>b, <1>c, <2>1
<1>22. ASSUME NEW q \in Task, PurgeDone(q)
       PROVE  PathsDoomed'
  <2>1. \A t \in Task : Stands(t)
    BY <1>22, <1>d DEF TypeOK, Stands, PurgeSteps, PurgeDone, Finish
  <2> QED
    BY <1>b, <1>c, <2>1
<1>23. ASSUME NEW q \in Task, Abort(q)
       PROVE  PathsDoomed'
  <2>1. \A t \in Task : Stands(t)
    BY <1>23, <1>d DEF TypeOK, Stands, PurgeSteps, Abort, Finish
  <2> QED
    BY <1>b, <1>c, <2>1
<1>24. CASE Restart
  <2>1. \A t \in Task : Stands(t)
    BY <1>24, <1>d DEF TypeOK, Stands, PurgeSteps, Restart
  <2> QED
    BY <1>b, <1>c, <2>1
<1>25. CASE Expire
  <2>1. \A t \in Task : Stands(t)
    BY <1>25, <1>d DEF TypeOK, Stands, PurgeSteps, Expire, taskVars
  <2> QED
    BY <1>b, <1>c, <2>1
<1>26. CASE UNCHANGED vars
  <2>1. \A t \in Task : Stands(t)
    BY <1>26 DEF vars, Stands
  <2> QED
    BY <1>b, <1>c, <2>1
<1>27. ASSUME NEW r \in Request, NEW d \in Doc, PermanentDeleteDocument(r, d)
       PROVE  PathsDoomed'
  <2> DEFINE K == {DocKey(d)}
  <2>1. \A t \in Task : t # r => Stands(t)
    BY <1>27 DEF TypeOK, Stands, PermanentDeleteDocument, Begin
  <2>2. /\ paths'[r] \subseteq paths[r] \cup K
        /\ step'[r] \in PurgeSteps
        /\ UNCHANGED <<docVars, folderVars>>
    BY <1>27 DEF TypeOK, PurgeSteps, PermanentDeleteDocument, Begin
  <2>3. K \subseteq Key /\ \A k \in K : k[2] \in {d}
    BY <1>27, KeyDoc DEF DocKeys, ThumbKeys, TreeDocs, TrashedDocs, ExpiredDocs
  <2>4. \A k \in K : Doomed(r, k[2])'
    BY <1>27, <2>2, <2>3 DEF PermanentDeleteDocument, Begin, TypeOK, Doomed, docVars, folderVars,
       TreeDocs, TrashedDocs, ExpiredDocs, OriginTree, FolderRows
  <2>5. \A k \in paths[r] : Doomed(r, k[2]) => Doomed(r, k[2])'
    BY <1>27, <1>d, <2>2 DEF PermanentDeleteDocument, Begin, TypeOK, PurgeSteps, Doomed, docVars,
       folderVars, TreeDocs, TrashedDocs, ExpiredDocs, OriginTree, FolderRows
  <2>6. TaskDoomed(r)'
    BY <1>a, <2>2, <2>3, <2>4, <2>5, ReadsDoomed
  <2> QED
    BY <1>b, <1>c, <2>1, <2>6
<1>28. ASSUME NEW r \in Request, NEW f \in Folder, PermanentDeleteFolder(r, f)
       PROVE  PathsDoomed'
  <2> DEFINE K == DocKeys(TreeDocs(f))
  <2>1. \A t \in Task : t # r => Stands(t)
    BY <1>28 DEF TypeOK, Stands, PermanentDeleteFolder, Begin
  <2>2. /\ paths'[r] \subseteq paths[r] \cup K
        /\ step'[r] \in PurgeSteps
        /\ UNCHANGED <<docVars, folderVars>>
    BY <1>28 DEF TypeOK, PurgeSteps, PermanentDeleteFolder, Begin
  <2>3. K \subseteq Key /\ \A k \in K : k[2] \in TreeDocs(f)
    BY <1>28, KeyDoc DEF DocKeys, ThumbKeys, TreeDocs, TrashedDocs, ExpiredDocs
  <2>4. \A k \in K : Doomed(r, k[2])'
    BY <1>28, <2>2, <2>3 DEF PermanentDeleteFolder, Begin, TypeOK, Doomed, docVars, folderVars,
       TreeDocs, TrashedDocs, ExpiredDocs, OriginTree, FolderRows
  <2>5. \A k \in paths[r] : Doomed(r, k[2]) => Doomed(r, k[2])'
    BY <1>28, <1>d, <2>2 DEF PermanentDeleteFolder, Begin, TypeOK, PurgeSteps, Doomed, docVars,
       folderVars, TreeDocs, TrashedDocs, ExpiredDocs, OriginTree, FolderRows
  <2>6. TaskDoomed(r)'
    BY <1>a, <2>2, <2>3, <2>4, <2>5, ReadsDoomed
  <2> QED
    BY <1>b, <1>c, <2>1, <2>6
<1>29. ASSUME NEW r \in Request, EmptyTrash(r)
       PROVE  PathsDoomed'
  <2> DEFINE K == DocKeys(TrashedDocs)
  <2>1. \A t \in Task : t # r => Stands(t)
    BY <1>29 DEF TypeOK, Stands, EmptyTrash, Begin
  <2>2. /\ paths'[r] \subseteq paths[r] \cup K
        /\ step'[r] \in PurgeSteps
        /\ UNCHANGED <<docVars, folderVars>>
    BY <1>29 DEF TypeOK, PurgeSteps, EmptyTrash, Begin
  <2>3. K \subseteq Key /\ \A k \in K : k[2] \in TrashedDocs
    BY <1>29, KeyDoc DEF DocKeys, ThumbKeys, TreeDocs, TrashedDocs, ExpiredDocs
  <2>4. \A k \in K : Doomed(r, k[2])'
    BY <1>29, <2>2, <2>3 DEF EmptyTrash, Begin, TypeOK, Doomed, docVars, folderVars,
       TreeDocs, TrashedDocs, ExpiredDocs, OriginTree, FolderRows
  <2>5. \A k \in paths[r] : Doomed(r, k[2]) => Doomed(r, k[2])'
    BY <1>29, <1>d, <2>2 DEF EmptyTrash, Begin, TypeOK, PurgeSteps, Doomed, docVars,
       folderVars, TreeDocs, TrashedDocs, ExpiredDocs, OriginTree, FolderRows
  <2>6. TaskDoomed(r)'
    BY <1>a, <2>2, <2>3, <2>4, <2>5, ReadsDoomed
  <2> QED
    BY <1>b, <1>c, <2>1, <2>6
<1>30. ASSUME NEW r \in Request, CollectFolderThumbnails(r)
       PROVE  PathsDoomed'
  <2> DEFINE K == ThumbKeys(TreeDocs(target[r]))
  <2>1. \A t \in Task : t # r => Stands(t)
    BY <1>30 DEF TypeOK, Stands, CollectFolderThumbnails, Collect
  <2>2. /\ paths'[r] \subseteq paths[r] \cup K
        /\ step'[r] \in PurgeSteps
        /\ UNCHANGED <<docVars, folderVars>>
    BY <1>30 DEF TypeOK, PurgeSteps, CollectFolderThumbnails, Collect
  <2>3. K \subseteq Key /\ \A k \in K : k[2] \in TreeDocs(target[r])
    BY <1>30, KeyDoc DEF DocKeys, ThumbKeys, TreeDocs, TrashedDocs, ExpiredDocs
  <2>4. \A k \in K : Doomed(r, k[2])'
    BY <1>30, <2>2, <2>3 DEF CollectFolderThumbnails, Collect, TypeOK, Doomed, docVars, folderVars,
       TreeDocs, TrashedDocs, ExpiredDocs, OriginTree, FolderRows
  <2>5. \A k \in paths[r] : Doomed(r, k[2]) => Doomed(r, k[2])'
    BY <1>30, <1>d, <2>2 DEF CollectFolderThumbnails, Collect, TypeOK, PurgeSteps, Doomed, docVars,
       folderVars, TreeDocs, TrashedDocs, ExpiredDocs, OriginTree, FolderRows
  <2>6. TaskDoomed(r)'
    BY <1>a, <2>2, <2>3, <2>4, <2>5, ReadsDoomed
  <2> QED
    BY <1>b, <1>c, <2>1, <2>6
<1>31. ASSUME NEW r \in Request, CollectThumbnails(r)
       PROVE  PathsDoomed'
  <2> DEFINE K == ThumbKeys(TrashedDocs)
  <2>1. \A t \in Task : t # r => Stands(t)
    BY <1>31 DEF TypeOK, Stands, CollectThumbnails, Collect
  <2>2. /\ paths'[r] \subseteq paths[r] \cup K
        /\ step'[r] \in PurgeSteps
        /\ UNCHANGED <<docVars, folderVars>>
    BY <1>31 DEF TypeOK, PurgeSteps, CollectThumbnails, Collect
  <2>3. K \subseteq Key /\ \A k \in K : k[2] \in TrashedDocs
    BY <1>31, KeyDoc DEF DocKeys, ThumbKeys, TreeDocs, TrashedDocs, ExpiredDocs
  <2>4. \A k \in K : Doomed(r, k[2])'
    BY <1>31, <2>2, <2>3 DEF CollectThumbnails, Collect, TypeOK, Doomed, docVars, folderVars,
       TreeDocs, TrashedDocs, ExpiredDocs, OriginTree, FolderRows
  <2>5. \A k \in paths[r] : Doomed(r, k[2]) => Doomed(r, k[2])'
    BY <1>31, <1>d, <2>2 DEF CollectThumbnails, Collect, TypeOK, PurgeSteps, Doomed, docVars,
       folderVars, TreeDocs, TrashedDocs, ExpiredDocs, OriginTree, FolderRows
  <2>6. TaskDoomed(r)'
    BY <1>a, <2>2, <2>3, <2>4, <2>5, ReadsDoomed
  <2> QED
    BY <1>b, <1>c, <2>1, <2>6
<1>32. CASE CollectExpired
  <2> DEFINE K == DocKeys(ExpiredDocs) \cup ThumbKeys(ExpiredDocs)
  <2>1. \A t \in Task : t # Boot => Stands(t)
    BY <1>32 DEF TypeOK, Stands, CollectExpired, Collect
  <2>2. /\ paths'[Boot] \subseteq paths[Boot] \cup K
        /\ step'[Boot] \in PurgeSteps
        /\ UNCHANGED <<docVars, folderVars>>
    BY <1>32 DEF TypeOK, PurgeSteps, CollectExpired, Collect
  <2>3. K \subseteq Key /\ \A k \in K : k[2] \in ExpiredDocs
    BY <1>32, KeyDoc DEF DocKeys, ThumbKeys, TreeDocs, TrashedDocs, ExpiredDocs
  <2>4. \A k \in K : Doomed(Boot, k[2])'
    BY <1>32, <2>2, <2>3 DEF CollectExpired, Collect, TypeOK, Doomed, docVars, folderVars,
       TreeDocs, TrashedDocs, ExpiredDocs, OriginTree, FolderRows
  <2>5. \A k \in paths[Boot] : Doomed(Boot, k[2]) => Doomed(Boot, k[2])'
    BY <1>32, <1>d, <2>2 DEF CollectExpired, Collect, TypeOK, PurgeSteps, Doomed, docVars,
       folderVars, TreeDocs, TrashedDocs, ExpiredDocs, OriginTree, FolderRows
  <2>6. TaskDoomed(Boot)'
    BY <1>a, <2>2, <2>3, <2>4, <2>5, ReadsDoomed
  <2> QED
    BY <1>b, <1>c, <2>1, <2>6
<1>33. ASSUME NEW r \in Request, DeleteDocumentRow(r)
       PROVE  PathsDoomed'
  <2>1. \A t \in Task : t # r => Stands(t)
    BY <1>33 DEF TypeOK, Stands, DeleteDocumentRow, Goto
  <2>2. Stands(r) \/ (paths'[r] \subseteq paths[r] /\ step'[r] \in PurgeSteps)
    BY <1>33 DEF TypeOK, Stands, PurgeSteps, DeleteDocumentRow, Goto
  <2>3. \A k \in paths[r] : Doomed(r, k[2]) => documents'[k[2]] = "purged"
    <3>1. \A d \in {target[r]} \cap DocRows : d \in Doc => documents'[d] = "purged"
      BY <1>33, <1>f DEF DeleteDocumentRow, DeleteDocs
    <3>2. \A d \in Doc : Doomed(r, d) => documents[d] = "purged" \/ d \in {target[r]} \cap DocRows
      BY <1>33 DEF DeleteDocumentRow, Doomed, TrashedDocs, DocRows, Exists
    <3> QED
      BY <1>e, <3>1, <3>2
  <2>4. TaskDoomed(r)'
    BY <1>a, <1>b, <2>2, <2>3, GoesOnDoomed
  <2> QED
    BY <1>b, <1>c, <2>1, <2>4
<1>34. ASSUME NEW r \in Request, DeleteTreeDocuments(r)
       PROVE  PathsDoomed'
  <2>1. \A t \in Task : t # r => Stands(t)
    BY <1>34 DEF TypeOK, Stands, DeleteTreeDocuments, Goto
  <2>2. Stands(r) \/ (paths'[r] \subseteq paths[r] /\ step'[r] \in PurgeSteps)
    BY <1>34 DEF TypeOK, Stands, PurgeSteps, DeleteTreeDocuments, Goto
  <2>3. \A k \in paths[r] : Doomed(r, k[2]) => documents'[k[2]] = "purged"
    <3>1. \A d \in TreeDocs(target[r]) : d \in Doc => documents'[d] = "purged"
      BY <1>34, <1>f DEF DeleteTreeDocuments, DeleteDocs
    <3>2. \A d \in Doc : Doomed(r, d) => documents[d] = "purged" \/ d \in TreeDocs(target[r])
      BY <1>34 DEF DeleteTreeDocuments, Doomed, TrashedDocs, DocRows, Exists
    <3> QED
      BY <1>e, <3>1, <3>2
  <2>4. TaskDoomed(r)'
    BY <1>a, <1>b, <2>2, <2>3, GoesOnDoomed
  <2> QED
    BY <1>b, <1>c, <2>1, <2>4
<1>35. ASSUME NEW r \in Request, DeleteTreeFolders(r)
       PROVE  PathsDoomed'
  <2>1. \A t \in Task : t # r => Stands(t)
    BY <1>35 DEF TypeOK, Stands, DeleteTreeFolders, DeleteFoldersStatement, Goto, Finish
  <2>2. \/ Stands(r)
        \/ UNCHANGED paths /\ step' = [step EXCEPT ![r] = "delete_objects"]
    BY <1>35 DEF TypeOK, Stands, DeleteTreeFolders, DeleteFoldersStatement, Goto, Finish
  <2>3. \A k \in paths[r] : Doomed(r, k[2]) => documents'[k[2]] = "purged"
    BY <1>35, <1>e DEF DeleteTreeFolders, Doomed
  <2>4. TaskDoomed(r)'
    <3>1. UNCHANGED paths /\ step' = [step EXCEPT ![r] = "delete_objects"]
            => paths'[r] \subseteq paths[r] /\ step'[r] \in PurgeSteps
      BY DEF PurgeSteps, TypeOK
    <3> QED
      BY <1>a, <1>b, <2>2, <2>3, <3>1, GoesOnDoomed
  <2> QED
    BY <1>b, <1>c, <2>1, <2>4
<1>36. ASSUME NEW r \in Request, DeleteTrashedDocuments(r)
       PROVE  PathsDoomed'
  <2>1. \A t \in Task : t # r => Stands(t)
    BY <1>36 DEF TypeOK, Stands, DeleteTrashedDocuments, Goto
  <2>2. Stands(r) \/ (paths'[r] \subseteq paths[r] /\ step'[r] \in PurgeSteps)
    BY <1>36 DEF TypeOK, Stands, PurgeSteps, DeleteTrashedDocuments, Goto
  <2>3. \A k \in paths[r] : Doomed(r, k[2]) => documents'[k[2]] = "purged"
    <3>1. \A d \in TrashedDocs : d \in Doc => documents'[d] = "purged"
      BY <1>36, <1>f DEF DeleteTrashedDocuments, DeleteDocs
    <3>2. \A d \in Doc : Doomed(r, d) => documents[d] = "purged" \/ d \in TrashedDocs
      BY <1>36 DEF DeleteTrashedDocuments, Doomed, TrashedDocs, DocRows, Exists
    <3> QED
      BY <1>e, <3>1, <3>2
  <2>4. TaskDoomed(r)'
    BY <1>a, <1>b, <2>2, <2>3, GoesOnDoomed
  <2> QED
    BY <1>b, <1>c, <2>1, <2>4
<1>37. ASSUME NEW r \in Request, DeleteTrashedFolders(r)
       PROVE  PathsDoomed'
  <2>1. \A t \in Task : t # r => Stands(t)
    BY <1>37 DEF TypeOK, Stands, DeleteTrashedFolders, DeleteFoldersStatement, Goto, Finish
  <2>2. \/ Stands(r)
        \/ UNCHANGED paths /\ step' = [step EXCEPT ![r] = "delete_objects"]
    BY <1>37 DEF TypeOK, Stands, DeleteTrashedFolders, DeleteFoldersStatement, Goto, Finish
  <2>3. \A k \in paths[r] : Doomed(r, k[2]) => documents'[k[2]] = "purged"
    BY <1>37, <1>e DEF DeleteTrashedFolders, Doomed
  <2>4. TaskDoomed(r)'
    <3>1. UNCHANGED paths /\ step' = [step EXCEPT ![r] = "delete_objects"]
            => paths'[r] \subseteq paths[r] /\ step'[r] \in PurgeSteps
      BY DEF PurgeSteps, TypeOK
    <3> QED
      BY <1>a, <1>b, <2>2, <2>3, <3>1, GoesOnDoomed
  <2> QED
    BY <1>b, <1>c, <2>1, <2>4
<1>38. CASE DeleteExpiredDocuments
  <2>1. \A t \in Task : t # Boot => Stands(t)
    BY <1>38 DEF TypeOK, Stands, DeleteExpiredDocuments, Goto
  <2>2. Stands(Boot) \/ (paths'[Boot] \subseteq paths[Boot] /\ step'[Boot] \in PurgeSteps)
    BY <1>38 DEF TypeOK, Stands, PurgeSteps, DeleteExpiredDocuments, Goto
  <2>3. \A k \in paths[Boot] : Doomed(Boot, k[2]) => documents'[k[2]] = "purged" \/ k \in raced'
    <3>1. /\ step[Boot] = "delete_expired_documents"
          /\ step'[Boot] = "delete_expired_folders"
      BY <1>38 DEF DeleteExpiredDocuments, Goto, TypeOK
    <3>2. CASE documents' = documents
      BY <3>1, <3>2 DEF RecordRaces, UndeletedKeys
    <3>3. CASE DeleteDocs(ExpiredDocs)
      <4>1. \A d \in ExpiredDocs : documents'[d] = "purged"
        BY <3>3 DEF DeleteDocs, ExpiredDocs
      <4>2. \A d \in Doc : Doomed(Boot, d) => documents[d] = "purged" \/ d \in ExpiredDocs
        BY <3>1 DEF Doomed
      <4> QED
        BY <1>e, <4>1, <4>2
    <3> QED
      BY <1>38, <3>2, <3>3 DEF DeleteExpiredDocuments, docVars
  <2>4. TaskDoomed(Boot)'
    BY <1>a, <1>b, <2>2, <2>3, GoesOnDoomed
  <2> QED
    BY <1>b, <1>c, <2>1, <2>4
<1>39. CASE DeleteExpiredFolders
  <2>1. \A t \in Task : t # Boot => Stands(t)
    BY <1>39 DEF TypeOK, Stands, DeleteExpiredFolders, Goto
  <2>2. Stands(Boot) \/ (paths'[Boot] \subseteq paths[Boot] /\ step'[Boot] \in PurgeSteps)
    BY <1>39 DEF TypeOK, Stands, PurgeSteps, DeleteExpiredFolders, Goto
  <2>3. \A k \in paths[Boot] : Doomed(Boot, k[2]) => documents'[k[2]] = "purged"
    BY <1>39, <1>e DEF DeleteExpiredFolders, Doomed
  <2>4. TaskDoomed(Boot)'
    BY <1>a, <1>b, <2>2, <2>3, GoesOnDoomed
  <2> QED
    BY <1>b, <1>c, <2>1, <2>4
<1> QED
  BY <1>1, <1>2, <1>3, <1>4, <1>5, <1>6, <1>7, <1>8, <1>9, <1>10, <1>11, <1>12, <1>13, <1>14, <1>15, <1>16, <1>17, <1>18, <1>19, <1>20, <1>21, <1>22, <1>23, <1>24, <1>25, <1>26, <1>27, <1>28, <1>29, <1>30, <1>31, <1>32, <1>33, <1>34, <1>35, <1>36, <1>37, <1>38, <1>39
     DEF Next, OneStatement, Arrive, Continue, Cleanup, Task

-----------------------------------------------------------------------------
(***************************************************************************)
(* What one step does to the tasks and to the bucket.                      *)
(***************************************************************************)

\* A request keeps its target while it stays at a statement, and comes to the
\* INSERT of an upload, or to the UPDATE of a thumbnail, from the step that
\* puts the object.
TasksKept ==
    \A t \in Task :
        /\ t \in Request /\ step[t] # "idle" /\ step'[t] = step[t]
             => target'[t] = target[t]
        /\ step'[t] = "insert_document" /\ step[t] # "insert_document" =>
             \E d \in Doc : UploadDocument(t, d)
        /\ step'[t] = "set_thumbnail_path" /\ step[t] # "set_thumbnail_path" =>
             PutThumbnail(t)

LEMMA TasksStep ==
    ASSUME TypeOK, CleanupAlone, [Next]_vars
    PROVE  CleanupAlone' /\ TasksKept
<1>a. /\ step \in [Task -> Step] /\ target \in [Task -> Doc \cup FolderRef]
      /\ Boot \in Task /\ Boot \notin Request
      /\ \A t : t \in Task <=> t \in Request \/ t = Boot
  BY BootAssumption DEF TypeOK, Task
<1> USE <1>a DEF CleanupAlone, TasksKept
<1>1. ASSUME UNCHANGED <<step, target>>
      PROVE  CleanupAlone' /\ TasksKept
  BY <1>1
<1>2. ASSUME NEW r \in Request, NEW s, NEW x, NEW K, Begin(r, s, x, K),
             s \notin {"set_thumbnail_path", "collect_expired",
                      "delete_expired_documents", "delete_expired_folders"},
             s = "insert_document" => \E d \in Doc : UploadDocument(r, d)
      PROVE  CleanupAlone' /\ TasksKept
  BY <1>2 DEF Begin, Serving
<1>3. ASSUME NEW r \in Request, step[r] # "idle", NEW s, step[r] # s,
             step' = [step EXCEPT ![r] = s], UNCHANGED target,
             s \notin {"insert_document", "collect_expired",
                      "delete_expired_documents", "delete_expired_folders"},
             s = "set_thumbnail_path" => PutThumbnail(r)
      PROVE  CleanupAlone' /\ TasksKept
  BY <1>3
<1>4. ASSUME NEW t \in Task, Finish(t)
      PROVE  CleanupAlone' /\ TasksKept
  BY <1>4 DEF Finish
<1>5. ASSUME step[Boot] # "idle", NEW s, step[Boot] # s,
             step' = [step EXCEPT ![Boot] = s], UNCHANGED target,
             s \in {"delete_expired_documents", "delete_expired_folders",
                   "delete_objects"}
      PROVE  CleanupAlone' /\ TasksKept
  BY <1>5
<1>6. CASE Restart
  BY <1>6 DEF Restart
<1>7. CASE OneStatement \/ Expire \/ UNCHANGED vars
  BY <1>1, <1>7 DEF OneStatement, CreateFolder, DeleteDocument, taskVars, vars,
     DeleteFolderDocuments, RestoreDocument, Expire
<1>8. ASSUME NEW r \in Request, Arrive(r)
      PROVE  CleanupAlone' /\ TasksKept
  <2>1. ASSUME NEW d \in Doc, UploadDocument(r, d)
        PROVE  CleanupAlone' /\ TasksKept
    <3>1. Begin(r, "insert_document", d, {})
      BY <2>1 DEF UploadDocument
    <3> QED
      BY <1>2, <2>1, <3>1
  <2>2. ASSUME ~\E d \in Doc : UploadDocument(r, d)
        PROVE  \E s \in {"put_thumbnail", "delete_thumbnail_object",
                        "trash_folder", "restore_documents",
                        "delete_document_row", "collect_folder_thumbnails",
                        "collect_thumbnails"} :
                 \E x, K : Begin(r, s, x, K)
    BY <1>8, <2>2 DEF Arrive, UploadThumbnail, DeleteThumbnail, DeleteFolder,
       RestoreFolder, PermanentDeleteDocument, PermanentDeleteFolder, EmptyTrash
  <2> QED
    BY <1>2, <2>1, <2>2
<1>9. ASSUME NEW r \in Request, Continue(r)
      PROVE  CleanupAlone' /\ TasksKept
  <2>1. CASE PutThumbnail(r)
    BY <1>3, <2>1 DEF PutThumbnail, Goto
  <2>2. CASE \/ TrashFolder(r) \/ TrashSubfolders(r) \/ RestoreSubfolders(r)
    BY <1>3, <2>2 DEF TrashFolder, TrashSubfolders, RestoreSubfolders, Goto
  <2>3. CASE \/ DeleteThumbnailObject(r)
             \/ CollectFolderThumbnails(r) \/ CollectThumbnails(r)
    BY <1>3, <2>3 DEF DeleteThumbnailObject, CollectFolderThumbnails,
       CollectThumbnails, Goto, Collect
  <2>4. CASE \/ DeleteDocumentRow(r) \/ DeleteTreeDocuments(r)
             \/ DeleteTrashedDocuments(r)
    BY <1>3, <2>4 DEF DeleteDocumentRow, DeleteTreeDocuments,
       DeleteTrashedDocuments, Goto
  <2>5. CASE \/ DeleteTreeFolders(r) \/ DeleteTrashedFolders(r)
             \/ RestoreDocuments(r)
    BY <1>3, <1>4, <2>5 DEF DeleteTreeFolders, DeleteTrashedFolders,
       DeleteFoldersStatement, RestoreDocuments, Goto
  <2>6. CASE \/ \E f \in Folder \cup {Nil} : InsertDocument(r, f)
             \/ SetThumbnailPath(r) \/ ClearThumbnailPath(r)
             \/ TrashTreeDocuments(r) \/ RestoreSubfolderDocuments(r)
             \/ PurgeDone(r)
    BY <1>4, <2>6 DEF InsertDocument, SetThumbnailPath, ClearThumbnailPath,
       TrashTreeDocuments, RestoreSubfolderDocuments, PurgeDone
  <2>7. CASE DeleteObject(r)
    BY <1>1, <2>7 DEF DeleteObject
  <2> QED
    BY <1>9, <2>1, <2>2, <2>3, <2>4, <2>5, <2>6, <2>7 DEF Continue
<1>10. CASE Cleanup
  <2>1. CASE CollectExpired \/ DeleteExpiredDocuments \/ DeleteExpiredFolders
    BY <1>5, <2>1 DEF CollectExpired, DeleteExpiredDocuments,
       DeleteExpiredFolders, Collect, Goto
  <2>2. CASE DeleteObject(Boot) \/ PurgeDone(Boot)
    BY <1>1, <1>4, <2>2 DEF DeleteObject, PurgeDone
  <2> QED
    BY <1>10, <2>1, <2>2 DEF Cleanup
<1>11. ASSUME NEW t \in Task, Abort(t)
       PROVE  CleanupAlone' /\ TasksKept
  BY <1>4, <1>11 DEF Abort
<1> QED
  BY <1>6, <1>7, <1>8, <1>9, <1>10, <1>11 DEF Next

\* Objects leave the bucket only at the end of a purge, by the keys it holds,
\* or when a thumbnail is deleted.
BucketStep ==
    \/ bucket \subseteq bucket'
    \/ /\ UNCHANGED docVars
       /\ \E t \in Task : step[t] = "delete_objects" /\ bucket \ bucket' \subseteq paths[t]
    \/ /\ UNCHANGED docVars
       /\ \E r \in Request :
            /\ step[r] = "delete_thumbnail_object"
            /\ step'[r] = "clear_thumbnail_path" /\ target'[r] = target[r]
            /\ bucket \ bucket' \subseteq {ThumbKey(target[r])}

LEMMA BucketSteps ==
    ASSUME TypeOK, [Next]_vars
    PROVE  BucketStep
<1> USE DEF BucketStep
<1>1. CASE OneStatement \/ Expire \/ Restart \/ (\E t \in Task : Abort(t))
           \/ UNCHANGED vars
  BY <1>1 DEF OneStatement, CreateFolder, DeleteDocument, vars, Abort, Restart,
     DeleteFolderDocuments, RestoreDocument, Expire
<1>2. ASSUME NEW r \in Request, Arrive(r)
      PROVE  BucketStep
  BY <1>2 DEF Arrive, UploadDocument, UploadThumbnail, DeleteThumbnail,
     DeleteFolder, RestoreFolder, PermanentDeleteDocument,
     PermanentDeleteFolder, EmptyTrash
<1>3. ASSUME NEW t \in Task, DeleteObject(t)
      PROVE  BucketStep
  BY <1>3 DEF DeleteObject
<1>4. ASSUME NEW r \in Request, DeleteThumbnailObject(r)
      PROVE  BucketStep
  BY <1>4 DEF DeleteThumbnailObject, Goto, TypeOK, Task
<1>5. ASSUME NEW r \in Request, Continue(r), ~DeleteObject(r),
             ~DeleteThumbnailObject(r)
      PROVE  BucketStep
  BY <1>5 DEF Continue, InsertDocument, PutThumbnail, SetThumbnailPath,
     ClearThumbnailPath, TrashFolder, TrashSubfolders, TrashTreeDocuments,
     RestoreDocuments, RestoreSubfolders, RestoreSubfolderDocuments,
     DeleteDocumentRow, CollectFolderThumbnails, DeleteTreeDocuments,
     DeleteTreeFolders, CollectThumbnails, DeleteTrashedDocuments,
     DeleteTrashedFolders, DeleteFoldersStatement, PurgeDone
<1>6. CASE Cleanup /\ ~DeleteObject(Boot)
  BY <1>6 DEF Cleanup, CollectExpired, DeleteExpiredDocuments,
     DeleteExpiredFolders, PurgeDone
<1> QED
  BY <1>1, <1>2, <1>3, <1>4, <1>5, <1>6 DEF Next, Task

\* Only an UPDATE of upload_thumbnail names a thumbnail, in a row, and a
\* thumbnail goes with its row.
ThumbStep ==
    /\ \A d \in thumbnail_path' \ thumbnail_path :
         /\ d \in DocRows /\ UNCHANGED <<documents, bucket>>
         /\ \E r \in Request : step[r] = "set_thumbnail_path" /\ target[r] = d
    /\ \A d \in thumbnail_path' : documents[d] \in Exists => documents'[d] \in Exists

LEMMA ThumbSteps ==
    ASSUME TypeOK, [Next]_vars
    PROVE  ThumbStep
<1> USE DEF ThumbStep
<1>a. documents \in [Doc -> RowState] /\ thumbnail_path \subseteq Doc
  BY DEF TypeOK
<1>1. ASSUME UNCHANGED <<documents, thumbnail_path>>
      PROVE  ThumbStep
  BY <1>1
<1>2. ASSUME NEW D \in SUBSET Doc, DeleteDocs(D)
      PROVE  ThumbStep
  BY <1>a, <1>2 DEF DeleteDocs
<1>3. ASSUME NEW D, TrashDocs(D) \/ RestoreDocs(D)
      PROVE  ThumbStep
  BY <1>a, <1>3 DEF TrashDocs, RestoreDocs, Restored, Exists, InTrash
<1>4. ASSUME NEW F, DeleteFolders(F)
      PROVE  ThumbStep
  BY <1>1, <1>4 DEF DeleteFolders
<1>5. CASE OneStatement
  BY <1>1, <1>3, <1>5 DEF OneStatement, CreateFolder, DeleteDocument, docVars,
     DeleteFolderDocuments, RestoreDocument
<1>6. CASE Expire
  BY <1>a, <1>6 DEF Expire, TrashedDocs, Exists, InTrash
<1>7. CASE Restart \/ (\E t \in Task : Abort(t)) \/ UNCHANGED vars
  BY <1>1, <1>7 DEF Abort, Restart, vars, docVars
<1>8. ASSUME NEW r \in Request, Arrive(r)
      PROVE  ThumbStep
  BY <1>1, <1>8 DEF Arrive, UploadDocument, UploadThumbnail, DeleteThumbnail,
     DeleteFolder, RestoreFolder, PermanentDeleteDocument,
     PermanentDeleteFolder, EmptyTrash, docVars
<1>9. ASSUME NEW r \in Request, Continue(r)
      PROVE  ThumbStep
  <2>1. CASE \E f \in Folder \cup {Nil} : InsertDocument(r, f)
    BY <1>a, <2>1 DEF InsertDocument, Exists
  <2>2. CASE SetThumbnailPath(r)
    BY <1>a, <2>2 DEF SetThumbnailPath
  <2>3. CASE ClearThumbnailPath(r)
    BY <1>a, <2>3 DEF ClearThumbnailPath
  <2>4. CASE \/ PutThumbnail(r) \/ DeleteThumbnailObject(r) \/ TrashFolder(r)
             \/ TrashSubfolders(r) \/ RestoreSubfolders(r) \/ DeleteObject(r)
             \/ CollectFolderThumbnails(r) \/ CollectThumbnails(r) \/ PurgeDone(r)
    BY <1>1, <2>4 DEF PutThumbnail, DeleteThumbnailObject, TrashFolder, docVars,
       TrashSubfolders, RestoreSubfolders, DeleteObject, PurgeDone,
       CollectFolderThumbnails, CollectThumbnails
  <2>5. CASE \/ TrashTreeDocuments(r) \/ RestoreDocuments(r)
             \/ RestoreSubfolderDocuments(r)
    BY <1>1, <1>3, <2>5 DEF TrashTreeDocuments, RestoreDocuments, docVars,
       RestoreSubfolderDocuments
  <2>6. CASE \/ DeleteDocumentRow(r) \/ DeleteTreeDocuments(r)
             \/ DeleteTrashedDocuments(r)
    BY <1>2, <2>6 DEF DeleteDocumentRow, DeleteTreeDocuments, TreeDocs,
       DeleteTrashedDocuments, TrashedDocs, DocRows
  <2>7. CASE DeleteTreeFolders(r) \/ DeleteTrashedFolders(r)
    BY <1>1, <1>4, <2>7 DEF DeleteTreeFolders, DeleteTrashedFolders, docVars,
       DeleteFoldersStatement
  <2> QED
    BY <1>9, <2>1, <2>2, <2>3, <2>4, <2>5, <2>6, <2>7 DEF Continue
<1>10. CASE Cleanup
  <2>1. CASE CollectExpired \/ DeleteObject(Boot) \/ PurgeDone(Boot)
    BY <1>1, <2>1 DEF CollectExpired, DeleteObject, PurgeDone, docVars
  <2>2. CASE DeleteExpiredDocuments
    BY <1>1, <1>2, <2>2 DEF DeleteExpiredDocuments, ExpiredDocs, docVars
  <2>3. CASE DeleteExpiredFolders
    BY <1>1, <1>4, <2>3 DEF DeleteExpiredFolders, docVars
  <2> QED
    BY <1>10, <2>1, <2>2, <2>3 DEF Cleanup
<1> QED
  BY <1>5, <1>6, <1>7, <1>8, <1>9, <1>10 DEF Next

-----------------------------------------------------------------------------
(***************************************************************************)
(* The invariants.                                                         *)
(***************************************************************************)

\* What a purge is about to delete from the bucket belongs to a row that is
\* gone, unless it has raced.
LEMMA HeldAtTheEnd ==
    ASSUME TypeOK, PathsDoomed, NEW t \in Task, step[t] = "delete_objects",
           NEW k \in paths[t]
    PROVE  k \in raced \/ documents[k[2]] = "purged"
BY DEF PathsDoomed, Doomed

LEMMA RacedRows ==
    ASSUME TypeOK, TypeOK', UploadsPrivate, PathsDoomed, RowsLive, RecordRaces,
           NEW d \in Doc, DocKey(d) \in raced'
    PROVE  documents'[d] # "none"
<1>1. documents[d] # "none" => documents'[d] # "none"
  BY DEF RowsLive
<1>2. CASE DocKey(d) \in raced
  BY <1>1, <1>2 DEF UploadsPrivate
<1>3. CASE DocKey(d) \in MovedKeys
  BY <1>1, <1>3, KeyDoc DEF MovedKeys, Moved, TrashedDocs, InTrash
<1>4. CASE DocKey(d) \in UndeletedKeys
  <2>1. DocKey(d) \in raced \/ Doomed(Boot, d)
    BY <1>4, KeyDoc DEF UndeletedKeys, PathsDoomed, Task
  <2>2. Doomed(Boot, d) => documents[d] # "none"
    BY DEF Doomed, TreeDocs, TrashedDocs, ExpiredDocs, InTrash
  <2> QED
    BY <1>1, <1>2, <2>1, <2>2
<1>5. \A r : target[r] \in Doc => DocKey(d) # ThumbKey(target[r])
  BY KeyDoc
<1>6. \A r : DocKey(d) # ThumbKey(target[r])
  BY DEF DocKey, ThumbKey
<1> QED
  BY <1>2, <1>3, <1>4, <1>6 DEF RecordRaces

LEMMA UploadsStep ==
    ASSUME TypeOK, TypeOK', TargetOK, UploadsPrivate, PathsDoomed, CleanupAlone,
           RowsLive, TasksKept, BucketStep, RecordRaces, CleanupAlone'
    PROVE  UploadsPrivate'
<1>a. /\ \A t : t \in Task <=> t \in Request \/ t = Boot
      /\ documents \in [Doc -> RowState]
  BY DEF Task, TypeOK
<1>1. ASSUME NEW r \in Task, step'[r] = "insert_document",
             step[r] = "insert_document"
      PROVE  /\ r \in Request /\ target'[r] = target[r] /\ target[r] \in Doc
             /\ documents[target[r]] = "none" /\ documents'[target[r]] = "none"
             /\ DocKey(target[r]) \in bucket /\ DocKey(target[r]) \in bucket'
             /\ \A q \in Task : step[q] = "insert_document" /\ target[q] = target[r]
                               => q = r
  <2>1. r \in Request /\ target'[r] = target[r] /\ target[r] \in Doc
    BY <1>1, <1>a DEF CleanupAlone, TasksKept, TargetOK, DocumentSteps
  <2>2. /\ documents[target[r]] = "none"
        /\ DocKey(target[r]) \in bucket
        /\ \A q \in Task : step[q] = "insert_document" /\ target[q] = target[r]
                          => q = r
    BY <1>1 DEF UploadsPrivate
  <2>3. documents'[target[r]] = "none"
    BY <1>1, <1>a, <2>1, <2>2 DEF RowsLive
  <2>4. DocKey(target[r]) \in bucket'
    <3>1. ASSUME NEW t \in Task, step[t] = "delete_objects",
                 DocKey(target[r]) \in paths[t]
          PROVE  FALSE
      BY <2>1, <2>2, <3>1, KeyDoc, HeldAtTheEnd DEF UploadsPrivate
    <3>2. \A q : DocKey(target[r]) # ThumbKey(q)
      BY DEF DocKey, ThumbKey
    <3> QED
      BY <2>2, <3>1, <3>2 DEF BucketStep
  <2> QED
    BY <2>1, <2>2, <2>3, <2>4
<1>2. ASSUME NEW r \in Task, NEW d \in Doc, UploadDocument(r, d)
      PROVE  /\ target'[r] = d /\ documents'[d] = "none" /\ DocKey(d) \in bucket'
             /\ DocKey(d) \notin bucket
             /\ \A q \in Task : q # r => /\ step'[q] = step[q]
                                       /\ target'[q] = target[q]
  BY <1>2 DEF UploadDocument, Begin, docVars, TypeOK
<1>3. ASSUME NEW r \in Task, step'[r] = "insert_document"
      PROVE  /\ documents'[target'[r]] = "none"
             /\ DocKey(target'[r]) \in bucket'
             /\ \A q \in Task : step'[q] = "insert_document" /\ target'[q] = target'[r]
                               => q = r
  <2>1. CASE step[r] = "insert_document"
    <3>1. /\ target'[r] = target[r] /\ target[r] \in Doc
          /\ documents'[target[r]] = "none"
          /\ DocKey(target[r]) \in bucket /\ DocKey(target[r]) \in bucket'
          /\ \A q \in Task : step[q] = "insert_document" /\ target[q] = target[r]
                            => q = r
      BY <1>1, <1>3, <2>1
    <3>2. ASSUME NEW q \in Task, step'[q] = "insert_document",
                 target'[q] = target'[r]
          PROVE  q = r
      <4>1. CASE step[q] = "insert_document"
        BY <1>1, <3>1, <3>2, <4>1
      <4>2. CASE step[q] # "insert_document"
        <5>1. PICK d \in Doc : UploadDocument(q, d)
          BY <3>2, <4>2 DEF TasksKept
        <5> QED
          BY <1>2, <3>1, <3>2, <5>1
      <4> QED
        BY <4>1, <4>2
    <3> QED
      BY <3>1, <3>2
  <2>2. CASE step[r] # "insert_document"
    <3>1. PICK d \in Doc : UploadDocument(r, d)
      BY <1>3, <2>2 DEF TasksKept
    <3>2. /\ target'[r] = d /\ documents'[d] = "none" /\ DocKey(d) \in bucket'
          /\ DocKey(d) \notin bucket
          /\ \A q \in Task : q # r => /\ step'[q] = step[q]
                                    /\ target'[q] = target[q]
      BY <1>2, <3>1
    <3>3. ASSUME NEW q \in Task, q # r, step'[q] = "insert_document",
                 target'[q] = d
          PROVE  FALSE
      BY <1>1, <3>2, <3>3
    <3> QED
      BY <3>2, <3>3
  <2> QED
    BY <2>1, <2>2
<1>4. \A d \in Doc : DocKey(d) \in raced' => documents'[d] # "none"
  BY RacedRows
<1> QED
  BY <1>3, <1>4 DEF UploadsPrivate, Task

LEMMA ReadableStep ==
    ASSUME TypeOK, TypeOK', TargetOK, UploadsPrivate, PathsDoomed, RowsLive,
           BucketStep, RecordRaces, DocumentsReadable
    PROVE  DocumentsReadable'
<1> SUFFICES ASSUME NEW d \in Doc, documents'[d] \in Exists,
                    DocKey(d) \notin raced'
             PROVE  DocKey(d) \in bucket'
  BY DEF DocumentsReadable, DocRows
<1>1. CASE documents[d] = "none"
  BY <1>1 DEF RowsLive, UploadsPrivate, Task, Exists, InTrash
<1>2. CASE documents[d] # "none"
  <2>1. documents[d] # "purged" /\ documents[d] \in Exists
    BY <1>2 DEF RowsLive, Exists, InTrash, TypeOK, RowState
  <2>2. DocKey(d) \notin raced /\ DocKey(d) \in bucket
    BY <2>1 DEF DocumentsReadable, DocRows, RecordRaces
  <2>3. ASSUME NEW t \in Task, step[t] = "delete_objects"
        PROVE  DocKey(d) \notin paths[t]
    BY <2>1, <2>2, <2>3, KeyDoc, HeldAtTheEnd
  <2>4. \A q : DocKey(d) # ThumbKey(q)
    BY DEF DocKey, ThumbKey
  <2> QED
    BY <2>2, <2>3, <2>4 DEF BucketStep
<1> QED
  BY <1>1, <1>2

\* A thumbnail that is named, or about to be, leaves the bucket only by
\* delete_thumbnail.
LEMMA ThumbnailLost ==
    ASSUME TypeOK, PathsDoomed, BucketStep, NEW d \in Doc,
           documents[d] # "purged", ThumbKey(d) \notin raced,
           ThumbKey(d) \in bucket, ThumbKey(d) \notin bucket'
    PROVE  \E r \in Request :
              /\ step[r] = "delete_thumbnail_object" /\ target[r] = d
              /\ step'[r] = "clear_thumbnail_path" /\ target'[r] = d
<1>1. ASSUME NEW t \in Task, step[t] = "delete_objects"
      PROVE  ThumbKey(d) \notin paths[t]
  BY <1>1, KeyDoc, HeldAtTheEnd
<1>2. \A q : ThumbKey(d) = ThumbKey(q) => d = q
  BY DEF ThumbKey
<1> QED
  BY <1>1, <1>2 DEF BucketStep

LEMMA ThumbnailsStep ==
    ASSUME TypeOK, TypeOK', TargetOK, PathsDoomed, CleanupAlone, RowsLive,
           TasksKept, BucketStep, ThumbStep, RecordRaces,
           ThumbnailsStored, ThumbnailsReadable
    PROVE  ThumbnailsStored' /\ ThumbnailsReadable'
<1>a. \A d : d \in DocRows <=> d \in Doc /\ documents[d] \in Exists
  BY DEF DocRows
<1>b. \A d \in Doc : documents[d] \in Exists => documents[d] # "purged"
  BY DEF Exists, InTrash
<1>1. thumbnail_path' \subseteq DocRows'
  BY <1>a DEF ThumbStep, ThumbnailsStored, DocRows, TypeOK
<1>2. ASSUME NEW r \in Request, step'[r] = "set_thumbnail_path",
             documents'[target'[r]] # "purged"
      PROVE  ThumbKey(target'[r]) \in bucket' \cup raced'
  <2>1. CASE step[r] = "set_thumbnail_path"
    <3>1. target'[r] = target[r] /\ target[r] \in Doc
      BY <1>2, <2>1 DEF TasksKept, TargetOK, DocumentSteps, ThumbnailSteps, Task
    <3>2. documents[target[r]] # "purged"
      BY <1>2, <3>1 DEF RowsLive
    <3>3. ThumbKey(target[r]) \in bucket \cup raced
      BY <2>1, <3>2 DEF ThumbnailsStored
    <3>4. CASE /\ ThumbKey(target[r]) \notin raced
               /\ ThumbKey(target[r]) \notin bucket'
      <4>1. PICK q \in Request :
                /\ step[q] = "delete_thumbnail_object" /\ target[q] = target[r]
                /\ step'[q] = "clear_thumbnail_path"
        BY <3>1, <3>2, <3>3, <3>4, ThumbnailLost
      <4>2. q \in Overtaken
        BY <2>1, <4>1 DEF Overtaken
      <4> QED
        BY <3>1, <4>1, <4>2 DEF RecordRaces
    <3> QED
      BY <3>1, <3>3, <3>4 DEF RecordRaces
  <2>2. CASE step[r] # "set_thumbnail_path"
    BY <1>2, <2>2 DEF TasksKept, PutThumbnail, Goto, Task
  <2> QED
    BY <2>1, <2>2
<1>3. ASSUME NEW d \in thumbnail_path', ThumbKey(d) \notin bucket' \cup raced'
      PROVE  \E r \in Request : step'[r] = "clear_thumbnail_path" /\ target'[r] = d
  <2>1. d \in Doc /\ ThumbKey(d) \notin raced
    BY <1>3 DEF RecordRaces, TypeOK
  <2>2. CASE d \notin thumbnail_path
    <3>1. PICK r \in Request : step[r] = "set_thumbnail_path" /\ target[r] = d
      BY <1>3, <2>2 DEF ThumbStep
    <3>2. documents[d] \in Exists /\ UNCHANGED bucket
      BY <1>a, <1>3, <2>2 DEF ThumbStep
    <3> QED
      BY <1>b, <1>3, <2>1, <3>1, <3>2 DEF ThumbnailsStored
  <2>3. CASE d \in thumbnail_path /\ ThumbKey(d) \in bucket
    <3>1. documents[d] # "purged"
      BY <1>a, <1>b, <2>1, <2>3 DEF ThumbnailsStored
    <3> QED
      BY <1>3, <2>1, <2>3, <3>1, ThumbnailLost
  <2>4. CASE d \in thumbnail_path /\ ThumbKey(d) \notin bucket
    <3>1. PICK r \in Request : step[r] = "clear_thumbnail_path" /\ target[r] = d
      BY <2>1, <2>4 DEF ThumbnailsReadable
    <3>2. CASE step'[r] = "clear_thumbnail_path"
      BY <3>1, <3>2 DEF TasksKept, Task
    <3>3. CASE step'[r] # "clear_thumbnail_path"
      <4>1. r \in CutShort
        BY <1>3, <3>1, <3>3 DEF CutShort
      <4> QED
        BY <1>3, <3>1, <4>1 DEF RecordRaces
    <3> QED
      BY <3>2, <3>3
  <2> QED
    BY <2>2, <2>3, <2>4
<1> QED
  BY <1>1, <1>2, <1>3 DEF ThumbnailsStored, ThumbnailsReadable

\* Only keys are recorded.
LEMMA RacedKeys ==
    ASSUME TypeOK, TargetOK, RecordRaces, raced \subseteq Key
    PROVE  raced' \subseteq Key
<1>1. MovedKeys \subseteq Key /\ UndeletedKeys \subseteq Key
  BY DEF MovedKeys, Held, UndeletedKeys, TypeOK, Task
<1>2. \A r \in Overtaken \cup CutShort : target[r] \in Doc
  BY DEF Overtaken, CutShort, TargetOK, DocumentSteps, ThumbnailSteps, Task
<1>3. \A r \in Overtaken \cup CutShort : ThumbKey(target[r]) \in Key
  BY <1>2, KeyDoc
<1> QED
  BY <1>1, <1>3 DEF RecordRaces

LEMMA RacesInvInit == RacesInit => RacesInv
<1> SUFFICES ASSUME RacesInit
             PROVE  RacesInv
  OBVIOUS
<1>1. /\ raced = {} /\ thumbnail_path = {}
      /\ \A d \in Doc : documents[d] = "none"
      /\ \A t \in Task : step[t] = "idle" /\ paths[t] = {}
  BY DEF RacesInit, Init
<1>2. DocRows = {}
  BY <1>1 DEF DocRows, Exists, InTrash
<1> QED
  BY <1>1, <1>2 DEF RacesInv, CleanupAlone, UploadsPrivate, PathsDoomed, Task,
     DocumentsReadable, ThumbnailsStored, ThumbnailsReadable

LEMMA RacesInvStep ==
    ASSUME TypeOK, TypeOK', TargetOK, FolderPlaces, RacesInv,
           [RacesNext]_racesVars
    PROVE  RacesInv'
<1>1. CASE UNCHANGED racesVars
  <2>1. /\ UNCHANGED <<docVars, folderVars, taskVars, bucket, raced>>
    BY <1>1 DEF racesVars, vars, docVars, folderVars, taskVars
  <2> QED
    BY <2>1 DEF RacesInv, CleanupAlone, UploadsPrivate, PathsDoomed, Doomed,
       DocumentsReadable, ThumbnailsStored, ThumbnailsReadable, DocRows,
       TreeDocs, OriginTree, TrashedDocs, ExpiredDocs, FolderRows,
       docVars, folderVars, taskVars
<1>2. CASE RacesNext
  <2>1. [Next]_vars /\ RecordRaces
    BY <1>2 DEF RacesNext
  <2>2. RowStep
    BY <2>1, RowSteps
  <2>3. RowsLive
    BY <2>2, RowsLiveStep DEF RacesInv
  <2>4. CleanupAlone' /\ TasksKept
    BY <2>1, TasksStep DEF RacesInv
  <2>5. BucketStep /\ ThumbStep
    BY <2>1, BucketSteps, ThumbSteps
  <2>6. PathsDoomed'
    BY <2>1, DoomedStep DEF RacesInv
  <2>7. UploadsPrivate'
    BY <2>1, <2>3, <2>4, <2>5, UploadsStep DEF RacesInv
  <2>8. DocumentsReadable'
    BY <2>1, <2>3, <2>5, ReadableStep DEF RacesInv
  <2>9. ThumbnailsStored' /\ ThumbnailsReadable'
    BY <2>1, <2>3, <2>4, <2>5, ThumbnailsStep DEF RacesInv
  <2>10. raced' \subseteq Key
    BY <2>1, RacedKeys DEF RacesInv
  <2> QED
    BY <2>4, <2>6, <2>7, <2>8, <2>9, <2>10 DEF RacesInv
<1> QED
  BY <1>1, <1>2

\* The inductive invariant holds of every behaviour in which the races are
\* recorded.
THEOREM RacesInvCorrect == RacesSpec => [](TypeOK /\ TargetOK /\ FolderPlaces /\ RacesInv)
<1>1. RacesSpec => []TypeOK /\ []TargetOK /\ []FolderPlaces
  BY RacesSpecIsSpec, TypeCorrect, PlacesCorrect, PTL
<1>2. RacesInit => RacesInv
  BY RacesInvInit
<1>3. TypeOK /\ TypeOK' /\ TargetOK /\ FolderPlaces /\ RacesInv
        /\ [RacesNext]_racesVars => RacesInv'
  BY RacesInvStep
<1> QED
  BY <1>1, <1>2, <1>3, PTL DEF RacesSpec

\* A row, trashed or not, has its object in the bucket unless a restore or a
\* purge of its folder came between a purge's SELECT and its DELETE or the
\* cleanup's DELETE failed (trash/handlers.rs:276-297, 326-356, 464-528).
THEOREM DocumentsReadableCorrect == RacesSpec => []DocumentsReadable
<1>1. RacesInv => DocumentsReadable
  BY DEF RacesInv
<1> QED
  BY <1>1, RacesInvCorrect, PTL

\* A thumbnail that a row names is in the bucket, but for the moment between
\* the two steps of delete_thumbnail and for the races named in VaultRaces
\* (documents/handlers.rs:311-345, 409-435).
THEOREM ThumbnailsReadableCorrect == RacesSpec => []ThumbnailsReadable
<1>1. RacesInv => ThumbnailsReadable
  BY DEF RacesInv
<1> QED
  BY <1>1, RacesInvCorrect, PTL

=============================================================================
