----------------------- MODULE VaultRefinementProofs -----------------------
(***************************************************************************)
(* Vault, with the races of VaultRaces recorded, implements DocLifecycle,  *)
(* for every set of documents, folders and requests and under every fault. *)
(* Each step of a handler maps to one step of the life cycle, or to none.  *)
(*                                                                         *)
(* The last parts are about requests that come one at a time: what a purge *)
(* leaves in the bucket of a purged document is what it failed to delete   *)
(* or never reads, and a folder goes to the trash with its contents and    *)
(* comes back with its sub-folders, also when deletes of objects or of     *)
(* expired rows fail.                                                      *)
(***************************************************************************)
EXTENDS VaultReadableProofs, VaultAlone

\* The purge of one document holds the key it has read until it deletes the row.
RowKeyHeld ==
    \A t \in Task : step[t] = "delete_document_row" => DocKey(target[t]) \in paths[t]

-----------------------------------------------------------------------------
LEMMA RowKeyStep ==
    ASSUME TypeOK, RowKeyHeld, [Next]_vars
    PROVE  RowKeyHeld'
<1> USE DEF TypeOK, RowKeyHeld, Task
<1>1. ASSUME NEW f \in Folder, NEW p \in Folder \cup {Nil}, CreateFolder(f, p)
      PROVE  RowKeyHeld'
  BY <1>1 DEF CreateFolder, taskVars
<1>2. ASSUME NEW d \in Doc, DeleteDocument(d)
      PROVE  RowKeyHeld'
  BY <1>2 DEF DeleteDocument, taskVars
<1>3. ASSUME NEW f \in Folder, DeleteFolderDocuments(f)
      PROVE  RowKeyHeld'
  BY <1>3 DEF DeleteFolderDocuments, taskVars
<1>4. ASSUME NEW d \in Doc, RestoreDocument(d)
      PROVE  RowKeyHeld'
  BY <1>4 DEF RestoreDocument, taskVars
<1>5. ASSUME NEW r \in Request, NEW d \in Doc, UploadDocument(r, d)
      PROVE  RowKeyHeld'
  BY <1>5 DEF UploadDocument, Begin
<1>6. ASSUME NEW r \in Request, NEW d \in Doc, UploadThumbnail(r, d)
      PROVE  RowKeyHeld'
  BY <1>6 DEF UploadThumbnail, Begin
<1>7. ASSUME NEW r \in Request, NEW d \in Doc, DeleteThumbnail(r, d)
      PROVE  RowKeyHeld'
  BY <1>7 DEF DeleteThumbnail, Begin
<1>8. ASSUME NEW r \in Request, NEW f \in Folder, DeleteFolder(r, f)
      PROVE  RowKeyHeld'
  BY <1>8 DEF DeleteFolder, Begin
<1>9. ASSUME NEW r \in Request, NEW f \in Folder, RestoreFolder(r, f)
      PROVE  RowKeyHeld'
  BY <1>9 DEF RestoreFolder, Begin
<1>10. ASSUME NEW r \in Request, NEW d \in Doc, PermanentDeleteDocument(r, d)
      PROVE  RowKeyHeld'
  BY <1>10 DEF PermanentDeleteDocument, Begin
<1>11. ASSUME NEW r \in Request, NEW f \in Folder, PermanentDeleteFolder(r, f)
      PROVE  RowKeyHeld'
  BY <1>11 DEF PermanentDeleteFolder, Begin
<1>12. ASSUME NEW r \in Request, EmptyTrash(r)
      PROVE  RowKeyHeld'
  BY <1>12 DEF EmptyTrash, Begin
<1>13. ASSUME NEW r \in Request, NEW f \in Folder \cup {Nil}, InsertDocument(r, f)
      PROVE  RowKeyHeld'
  BY <1>13 DEF InsertDocument, Finish
<1>14. ASSUME NEW r \in Request, PutThumbnail(r)
      PROVE  RowKeyHeld'
  BY <1>14 DEF PutThumbnail, Goto
<1>15. ASSUME NEW r \in Request, SetThumbnailPath(r)
      PROVE  RowKeyHeld'
  BY <1>15 DEF SetThumbnailPath, Finish
<1>16. ASSUME NEW r \in Request, DeleteThumbnailObject(r)
      PROVE  RowKeyHeld'
  BY <1>16 DEF DeleteThumbnailObject, Goto
<1>17. ASSUME NEW r \in Request, ClearThumbnailPath(r)
      PROVE  RowKeyHeld'
  BY <1>17 DEF ClearThumbnailPath, Finish
<1>18. ASSUME NEW r \in Request, TrashFolder(r)
      PROVE  RowKeyHeld'
  BY <1>18 DEF TrashFolder, Goto
<1>19. ASSUME NEW r \in Request, TrashSubfolders(r)
      PROVE  RowKeyHeld'
  BY <1>19 DEF TrashSubfolders, Goto
<1>20. ASSUME NEW r \in Request, TrashTreeDocuments(r)
      PROVE  RowKeyHeld'
  BY <1>20 DEF TrashTreeDocuments, Finish
<1>21. ASSUME NEW r \in Request, RestoreDocuments(r)
      PROVE  RowKeyHeld'
  BY <1>21 DEF RestoreDocuments, Goto, Finish
<1>22. ASSUME NEW r \in Request, RestoreSubfolders(r)
      PROVE  RowKeyHeld'
  BY <1>22 DEF RestoreSubfolders, Goto
<1>23. ASSUME NEW r \in Request, RestoreSubfolderDocuments(r)
      PROVE  RowKeyHeld'
  BY <1>23 DEF RestoreSubfolderDocuments, Finish
<1>24. ASSUME NEW r \in Request, DeleteDocumentRow(r)
      PROVE  RowKeyHeld'
  BY <1>24 DEF DeleteDocumentRow, Goto
<1>25. ASSUME NEW r \in Request, CollectFolderThumbnails(r)
      PROVE  RowKeyHeld'
  BY <1>25 DEF CollectFolderThumbnails, Collect
<1>26. ASSUME NEW r \in Request, DeleteTreeDocuments(r)
      PROVE  RowKeyHeld'
  BY <1>26 DEF DeleteTreeDocuments, Goto
<1>27. ASSUME NEW r \in Request, DeleteTreeFolders(r)
      PROVE  RowKeyHeld'
  BY <1>27 DEF DeleteTreeFolders, DeleteFoldersStatement, Goto, Finish
<1>28. ASSUME NEW r \in Request, CollectThumbnails(r)
      PROVE  RowKeyHeld'
  BY <1>28 DEF CollectThumbnails, Collect
<1>29. ASSUME NEW r \in Request, DeleteTrashedDocuments(r)
      PROVE  RowKeyHeld'
  BY <1>29 DEF DeleteTrashedDocuments, Goto
<1>30. ASSUME NEW r \in Request, DeleteTrashedFolders(r)
      PROVE  RowKeyHeld'
  BY <1>30 DEF DeleteTrashedFolders, DeleteFoldersStatement, Goto, Finish
<1>31. ASSUME NEW t \in Task, DeleteObject(t)
      PROVE  RowKeyHeld'
  BY <1>31 DEF DeleteObject
<1>32. ASSUME NEW t \in Task, PurgeDone(t)
      PROVE  RowKeyHeld'
  BY <1>32 DEF PurgeDone, Finish
<1>33. ASSUME NEW t \in Task, Abort(t)
      PROVE  RowKeyHeld'
  BY <1>33 DEF Abort, Finish
<1>34. CASE CollectExpired
  BY <1>34 DEF CollectExpired, Collect
<1>35. CASE DeleteExpiredDocuments
  BY <1>35 DEF DeleteExpiredDocuments, Goto
<1>36. CASE DeleteExpiredFolders
  BY <1>36 DEF DeleteExpiredFolders, Goto
<1>37. CASE Restart
  BY <1>37 DEF Restart
<1>38. CASE Expire
  BY <1>38 DEF Expire, taskVars
<1>39. CASE UNCHANGED vars
  BY <1>39 DEF vars, taskVars
<1> QED
  BY <1>1, <1>2, <1>3, <1>4, <1>5, <1>6, <1>7, <1>8, <1>9, <1>10, <1>11,
     <1>12, <1>13, <1>14, <1>15, <1>16, <1>17, <1>18, <1>19, <1>20, <1>21,
     <1>22, <1>23, <1>24, <1>25, <1>26, <1>27, <1>28, <1>29, <1>30, <1>31,
     <1>32, <1>33, <1>34, <1>35, <1>36, <1>37, <1>38, <1>39
     DEF Next, OneStatement, Arrive, Continue, Cleanup, Task

-----------------------------------------------------------------------------
(***************************************************************************)
(* The cleanup runs alone, so its keys stay those of expired documents.    *)
(***************************************************************************)
BootKeysExpired ==
    /\ step[Boot] = "collect_expired" => paths[Boot] = {}
    /\ step[Boot] = "delete_expired_documents" =>
         \A k \in paths[Boot] : k[2] \in ExpiredDocs

\* While the cleanup runs no request does anything.
LEMMA OutsideCleanup ==
    ASSUME TypeOK, CleanupAlone, [Next]_vars
    PROVE  \/ Cleanup \/ Restart \/ Expire \/ UNCHANGED vars
           \/ step'[Boot] = "idle"
<1>a. /\ Boot \in Task /\ Boot \notin Request /\ step \in [Task -> Step]
      /\ \A t : t \in Task <=> t \in Request \/ t = Boot
  BY BootAssumption DEF TypeOK, Task
<1>1. CASE OneStatement
  BY <1>a, <1>1 DEF OneStatement, CreateFolder, DeleteDocument, taskVars,
     DeleteFolderDocuments, RestoreDocument, Serving
<1>2. ASSUME NEW r \in Request, Arrive(r)
      PROVE  step'[Boot] = "idle"
  BY <1>a, <1>2 DEF Arrive, UploadDocument, UploadThumbnail, DeleteThumbnail,
     DeleteFolder, RestoreFolder, PermanentDeleteDocument,
     PermanentDeleteFolder, EmptyTrash, Begin, Serving
<1>3. ASSUME NEW r \in Request, Continue(r)
      PROVE  step'[Boot] = "idle"
  <2>1. step[r] # "idle"
    BY <1>3 DEF Continue, InsertDocument, PutThumbnail, SetThumbnailPath,
       DeleteThumbnailObject, ClearThumbnailPath, TrashFolder, TrashSubfolders,
       TrashTreeDocuments, RestoreDocuments, RestoreSubfolders,
       RestoreSubfolderDocuments, DeleteDocumentRow, CollectFolderThumbnails,
       DeleteTreeDocuments, DeleteTreeFolders, CollectThumbnails,
       DeleteTrashedDocuments, DeleteTrashedFolders, DeleteObject, PurgeDone
  <2>2. step[Boot] = "idle"
    BY <2>1 DEF CleanupAlone
  <2>3. step' = step \/ \E s : step' = [step EXCEPT ![r] = s]
    BY <1>3 DEF Continue, InsertDocument, PutThumbnail, SetThumbnailPath,
       DeleteThumbnailObject, ClearThumbnailPath, TrashFolder, TrashSubfolders,
       TrashTreeDocuments, RestoreDocuments, RestoreSubfolders,
       RestoreSubfolderDocuments, DeleteDocumentRow, CollectFolderThumbnails,
       DeleteTreeDocuments, DeleteTreeFolders, CollectThumbnails,
       DeleteTrashedDocuments, DeleteTrashedFolders, DeleteFoldersStatement,
       DeleteObject, PurgeDone, Goto, Collect, Finish
  <2> QED
    BY <1>a, <2>2, <2>3
<1>4. ASSUME NEW t \in Task, Abort(t)
      PROVE  step'[Boot] = "idle"
  BY <1>a, <1>4 DEF Abort, Finish, CleanupAlone
<1> QED
  BY <1>1, <1>2, <1>3, <1>4 DEF Next

LEMMA BootKeysStep ==
    ASSUME TypeOK, CleanupAlone, BootKeysExpired, [Next]_vars
    PROVE  BootKeysExpired' /\ (DeleteExpiredDocuments \/ UndeletedKeys = {})
<1>a. Boot \in Task /\ step \in [Task -> Step] /\ documents \in [Doc -> RowState]
  BY DEF TypeOK, Task
<1> USE <1>a DEF BootKeysExpired, UndeletedKeys
<1>1. CASE CollectExpired
  <2>1. paths'[Boot] = DocKeys(ExpiredDocs) \cup ThumbKeys(ExpiredDocs)
    BY <1>1 DEF CollectExpired, Collect, TypeOK
  <2> QED
    BY <1>1, <2>1
       DEF CollectExpired, Collect, DocKeys, ThumbKeys, DocKey, ThumbKey,
           ExpiredDocs, docVars
<1>2. CASE DeleteExpiredDocuments \/ DeleteExpiredFolders
  BY <1>2 DEF DeleteExpiredDocuments, DeleteExpiredFolders, Goto
<1>3. CASE DeleteObject(Boot) \/ PurgeDone(Boot)
  BY <1>3 DEF DeleteObject, PurgeDone, Finish
<1>4. CASE Restart
  BY <1>4 DEF Restart
<1>5. CASE Expire
  BY <1>5 DEF Expire, taskVars, ExpiredDocs, TrashedDocs, InTrash
<1>6. CASE UNCHANGED vars
  BY <1>6 DEF vars, ExpiredDocs
<1>7. CASE step'[Boot] = "idle"
  BY <1>7
<1> QED
  BY <1>1, <1>2, <1>3, <1>4, <1>5, <1>6, <1>7, OutsideCleanup DEF Cleanup

-----------------------------------------------------------------------------
(***************************************************************************)
(* The refinement mapping, and the steps of the life cycle under it.       *)
(***************************************************************************)
LEMMA Mapped ==
    ASSUME NEW d \in Doc
    PROVE  /\ d \in stored <=> DocKey(d) \in bucket
           /\ d \in doomed <=> \E t \in Task : DocKey(d) \in paths[t]
           /\ d \in spared <=> DocKey(d) \in raced
BY DEF stored, doomed, spared, Held

LEMMA MapStatus ==
    ASSUME TypeOK, NEW d \in Doc
    PROVE  /\ status[d] = "absent" <=> documents[d] = "none"
           /\ status[d] = "active" <=> documents[d] = "active"
           /\ status[d] = "trashed" <=> documents[d] \in InTrash
           /\ status[d] = "purged" <=> documents[d] = "purged"
BY DEF TypeOK, RowState, InTrash, status

LEMMA StatusKept ==
    ASSUME documents' = documents
    PROVE  status' = status
BY DEF status, InTrash

LEMMA StoredKept ==
    ASSUME \A d \in Doc : DocKey(d) \in bucket' <=> DocKey(d) \in bucket
    PROVE  stored' = stored
BY DEF stored, DocKey

LEMMA DoomedKept ==
    ASSUME paths' = paths
    PROVE  doomed' = doomed
BY DEF doomed, Held, DocKey

LEMMA DoomedGrows ==
    ASSUME TypeOK, NEW t \in Task, NEW K,
           paths' = [paths EXCEPT ![t] = paths[t] \cup K]
    PROVE  doomed' = doomed \cup {d \in Doc : DocKey(d) \in K}
<1>1. \A k : (\E u \in Task : k \in paths'[u])
               <=> (\E u \in Task : k \in paths[u]) \/ k \in K
  BY DEF TypeOK
<1> QED
  BY <1>1 DEF doomed, Held, DocKey

LEMMA DoomedShrinks ==
    ASSUME \A t \in Task : paths'[t] \subseteq paths[t]
    PROVE  doomed' \subseteq doomed
BY DEF doomed, Held, DocKey

\* A row is spared when it moves from under a purge, and not otherwise, but for
\* the DELETE of the cleanup that fails.
LEMMA SparedAfter ==
    ASSUME RecordRaces, UndeletedKeys = {}
    PROVE  spared' = spared \cup (Moved \cap doomed)
<1>1. \A d, e : DocKey(d) # ThumbKey(e) /\ DocKey(d)[2] = d
  BY DEF DocKey, ThumbKey
<1>2. Moved \subseteq Doc
  BY DEF Moved, TrashedDocs
<1>3. raced' = raced \cup MovedKeys
               \cup {ThumbKey(target[r]) : r \in Overtaken \cup CutShort}
  BY DEF RecordRaces
<1>4. \A d \in Doc : DocKey(d) \in raced' <=> DocKey(d) \in raced \cup MovedKeys
  BY <1>1, <1>3
<1>5. \A d \in Doc : DocKey(d) \in MovedKeys <=> d \in Moved /\ d \in doomed
  BY <1>1 DEF MovedKeys, doomed
<1>6. spared' = {d \in Doc : DocKey(d) \in raced'}
  BY DEF spared, DocKey
<1> QED
  BY <1>2, <1>4, <1>5, <1>6 DEF spared

\* Trashed rows that stay where they are, or are deleted, do not move.
LEMMA NoneMoved ==
    ASSUME \A d \in TrashedDocs :
             \/ documents'[d] \in InTrash
                /\ trash_origin_folder_id'[d] = trash_origin_folder_id[d]
             \/ documents'[d] = "purged"
    PROVE  Moved = {}
BY DEF Moved, InTrash

-----------------------------------------------------------------------------
\* The life cycle sees nothing.
LEMMA Stutters ==
    ASSUME RecordRaces, UndeletedKeys = {},
           UNCHANGED <<documents, trash_origin_folder_id>>, doomed' = doomed,
           \A d \in Doc : DocKey(d) \in bucket' <=> DocKey(d) \in bucket
    PROVE  [Lifecycle!Next]_(Lifecycle!vars)
<1>1. Moved = {}
  BY NoneMoved DEF TrashedDocs
<1>2. spared' = spared
  BY <1>1, SparedAfter
<1> QED
  BY <1>2, StatusKept, StoredKept DEF Lifecycle!vars

LEMMA Trashes ==
    ASSUME TypeOK, RecordRaces, UndeletedKeys = {}, doomed' = doomed,
           NEW D \in SUBSET Doc, \A d \in D : documents[d] = "active",
           TrashDocs(D), bucket' = bucket
    PROVE  [Lifecycle!Next]_(Lifecycle!vars)
<1>1. Moved = {}
  BY NoneMoved DEF TrashDocs, TrashedDocs, InTrash
<1>2. status' = [d \in Doc |-> IF d \in D THEN "trashed" ELSE status[d]]
  BY DEF TrashDocs, status, InTrash
<1>3. \A d \in D : status[d] = "active"
  BY MapStatus
<1>4. Lifecycle!Trash(D)
  BY <1>1, <1>2, <1>3, SparedAfter, StoredKept
     DEF Lifecycle!Trash, Lifecycle!Become
<1> QED
  BY <1>4 DEF Lifecycle!Next

LEMMA Restores ==
    ASSUME TypeOK, RecordRaces, UndeletedKeys = {}, doomed' = doomed,
           NEW D \in SUBSET TrashedDocs, RestoreDocs(D), bucket' = bucket
    PROVE  [Lifecycle!Next]_(Lifecycle!vars)
<1>1. D \subseteq Doc /\ \A d \in D : documents[d] \in InTrash
  BY DEF TrashedDocs
<1>2. Moved = D
  BY <1>1 DEF Moved, RestoreDocs, Restored, TrashedDocs, InTrash
<1>3. status' = [d \in Doc |-> IF d \in D THEN "active" ELSE status[d]]
  BY <1>1 DEF RestoreDocs, Restored, status, InTrash
<1>4. \A d \in D : status[d] = "trashed"
  BY <1>1, MapStatus
<1>5. Lifecycle!Restore(D)
  BY <1>2, <1>3, <1>4, SparedAfter, StoredKept
     DEF Lifecycle!Restore, Lifecycle!Become
<1> QED
  BY <1>1, <1>5 DEF Lifecycle!Next

LEMMA Purges ==
    ASSUME TypeOK, RecordRaces, UndeletedKeys = {}, doomed' = doomed,
           NEW D \in SUBSET Doc,
           \A d \in D : \/ documents[d] \in InTrash
                        \/ documents[d] = "active" /\ DocKey(d) \in raced,
           DeleteDocs(D), bucket' = bucket
    PROVE  [Lifecycle!Next]_(Lifecycle!vars)
<1>1. Moved = {}
  BY NoneMoved DEF DeleteDocs, TrashedDocs, InTrash, TypeOK
<1>2. status' = [d \in Doc |-> IF d \in D THEN "purged" ELSE status[d]]
  BY DEF DeleteDocs, status, InTrash
<1>3. ASSUME NEW d \in D
      PROVE  status[d] = "trashed" \/ (status[d] = "active" /\ d \in spared)
  <2>1. DocKey(d) \in raced => d \in spared
    BY DEF spared
  <2>2. /\ status[d] = "active" <=> documents[d] = "active"
        /\ status[d] = "trashed" <=> documents[d] \in InTrash
    BY MapStatus
  <2>3. documents[d] \in InTrash \/ (documents[d] = "active" /\ DocKey(d) \in raced)
    OBVIOUS
  <2> QED
    BY <2>1, <2>2, <2>3
<1>4. Lifecycle!Purge(D)
  BY <1>1, <1>2, <1>3, SparedAfter, StoredKept
     DEF Lifecycle!Purge, Lifecycle!Become
<1> QED
  BY <1>4 DEF Lifecycle!Next

\* A purge reads the keys K, the object keys among them of documents in the trash.
LEMMA Dooms ==
    ASSUME TypeOK, RecordRaces, UndeletedKeys = {}, bucket' = bucket,
           UNCHANGED docVars, NEW t \in Task, NEW K,
           paths' = [paths EXCEPT ![t] = paths[t] \cup K],
           \A d \in Doc : DocKey(d) \in K => d \in TrashedDocs
    PROVE  [Lifecycle!Next]_(Lifecycle!vars)
<1> DEFINE D == {d \in Doc : DocKey(d) \in K}
<1>1. doomed' = doomed \cup D
  BY DoomedGrows
<1>2. Moved = {}
  BY NoneMoved DEF TrashedDocs, docVars
<1>3. \A d \in D : status[d] = "trashed"
  BY MapStatus DEF TrashedDocs
<1> HIDE DEF D
<1>4. Lifecycle!Doom(D)
  BY <1>1, <1>2, <1>3, SparedAfter, StoredKept, StatusKept
     DEF Lifecycle!Doom, docVars
<1>5. D \in SUBSET Doc
  BY DEF D
<1> QED
  BY <1>4, <1>5 DEF Lifecycle!Next

\* A DELETE of folders takes documents in the trash out of the folder they came
\* from.
LEMMA Spares ==
    ASSUME TypeOK, RecordRaces, UndeletedKeys = {}, doomed' = doomed,
           documents' = documents, bucket' = bucket
    PROVE  [Lifecycle!Next]_(Lifecycle!vars)
<1> DEFINE D == Moved \cap doomed
<1>1. D \in SUBSET Doc /\ \A d \in D : d \in doomed /\ status[d] = "trashed"
  BY MapStatus DEF Moved, TrashedDocs
<1>2. spared' = spared \cup D
  BY SparedAfter
<1> HIDE DEF D
<1>3. Lifecycle!Spare(D)
  BY <1>1, <1>2, StatusKept, StoredKept DEF Lifecycle!Spare
<1> QED
  BY <1>1, <1>3 DEF Lifecycle!Next

\* A purge is cut short.
LEMMA Releases ==
    ASSUME TypeOK, RecordRaces, UndeletedKeys = {}, UNCHANGED docVars,
           bucket' = bucket, \A t \in Task : paths'[t] \subseteq paths[t]
    PROVE  [Lifecycle!Next]_(Lifecycle!vars)
<1> DEFINE D == doomed \ doomed'
<1>1. D \in SUBSET Doc
  BY DEF doomed
<1>2. doomed' = doomed \ D
  BY DoomedShrinks
<1>3. Moved = {}
  BY NoneMoved DEF TrashedDocs, docVars
<1> HIDE DEF D
<1>4. Lifecycle!Release(D)
  BY <1>2, <1>3, SparedAfter, StatusKept, StoredKept
     DEF Lifecycle!Release, docVars
<1> QED
  BY <1>1, <1>4 DEF Lifecycle!Next

LEMMA Drops ==
    ASSUME TypeOK, PathsDoomed, RecordRaces, UndeletedKeys = {},
           NEW t \in Task, DeleteObject(t)
    PROVE  [Lifecycle!Next]_(Lifecycle!vars)
<1>1. PICK k \in paths[t] : /\ paths' = [paths EXCEPT ![t] = @ \ {k}]
                            /\ bucket' \in {bucket, bucket \ {k}}
  BY DEF DeleteObject
<1>2. /\ step[t] = "delete_objects" /\ UNCHANGED docVars
      /\ \A u \in Task : paths'[u] = IF u = t THEN paths[t] \ {k} ELSE paths[u]
  BY <1>1 DEF DeleteObject, TypeOK
<1>3. ASSUME NEW d \in Doc, k = DocKey(d)
      PROVE  [Lifecycle!Next]_(Lifecycle!vars)
  <2>1. d \in doomed
    BY <1>1, <1>3, Mapped
  <2>2. status[d] = "purged" \/ d \in spared
    BY <1>1, <1>2, <1>3, HeldAtTheEnd, KeyDoc, MapStatus, Mapped
  <2>3. stored' \in {stored, stored \ {d}}
    BY <1>1, <1>3 DEF stored, DocKey
  <2>4. doomed' \in {doomed, doomed \ {d}}
    <3>1. \A e \in Doc : e # d => (e \in doomed' <=> e \in doomed)
      BY <1>2, <1>3 DEF doomed, Held, DocKey
    <3>2. doomed' \subseteq doomed
      BY <1>2, DoomedShrinks
    <3>3. doomed \subseteq Doc
      BY DEF doomed
    <3> QED
      BY <3>1, <3>2, <3>3
  <2>5. Moved = {}
    BY <1>2, NoneMoved DEF TrashedDocs, docVars
  <2>6. Lifecycle!Drop(d)
    BY <1>2, <2>1, <2>2, <2>3, <2>4, <2>5, SparedAfter, StatusKept
       DEF Lifecycle!Drop, docVars
  <2> QED
    BY <2>6 DEF Lifecycle!Next
<1>4. ASSUME \A d \in Doc : k # DocKey(d)
      PROVE  [Lifecycle!Next]_(Lifecycle!vars)
  <2>1. \A d \in Doc : DocKey(d) \in bucket' <=> DocKey(d) \in bucket
    BY <1>1, <1>4
  <2>2. doomed' = doomed
    BY <1>2, <1>4 DEF doomed, Held, DocKey
  <2> QED
    BY <1>2, <2>1, <2>2, Stutters DEF docVars
<1> QED
  BY <1>3, <1>4

LEMMA RefinementStep ==
    ASSUME TypeOK, TargetOK, UploadsPrivate, PathsDoomed, CleanupAlone,
           RowKeyHeld, BootKeysExpired, [Next]_vars, RecordRaces
    PROVE  [Lifecycle!Next]_(Lifecycle!vars)
<1>a. DeleteExpiredDocuments \/ UndeletedKeys = {}
  BY BootKeysStep
<1>b. /\ \A t : t \in Task <=> t \in Request \/ t = Boot
      /\ paths \in [Task -> SUBSET Key]
      /\ \A t \in Task : step[t] \notin PurgeSteps => paths[t] = {}
  BY DEF Task, TypeOK, PathsDoomed
<1>c. \A d, e : DocKey(d) # ThumbKey(e) /\ (DocKey(d) = DocKey(e) => d = e)
  BY DEF DocKey, ThumbKey
\* The steps of no purge hold no key.
<1>d. ASSUME NEW t \in Task, step[t] \notin PurgeSteps,
             Finish(t) \/ \E s : Goto(t, s)
      PROVE  doomed' = doomed
  <2>1. paths' = paths
    BY <1>b, <1>d DEF Finish, Goto
  <2> QED
    BY <2>1, DoomedKept
<1>e. ASSUME NEW t \in Task, NEW s, Goto(t, s)
      PROVE  doomed' = doomed
  BY <1>e, DoomedKept DEF Goto
<1>f. ASSUME NEW r \in Request, NEW s, NEW x, NEW K, Begin(r, s, x, K)
      PROVE  /\ paths' = [paths EXCEPT ![r] = paths[r] \cup K]
             /\ K = {} => doomed' = doomed
  <2>1. paths[r] = {} /\ paths' = [paths EXCEPT ![r] = K]
    BY <1>b, <1>f DEF Begin, PurgeSteps
  <2>2. K = {} => paths' = paths
    BY <1>b, <2>1
  <2> QED
    BY <2>1, <2>2, DoomedKept
<1>1. CASE OneStatement
  <2>1. doomed' = doomed /\ UndeletedKeys = {} /\ bucket' = bucket
    BY <1>1, <1>a, BootAssumption, DoomedKept
       DEF OneStatement, CreateFolder, DeleteDocument, DeleteFolderDocuments,
           RestoreDocument, taskVars, DeleteExpiredDocuments, Goto, Serving
  <2>2. CASE \E f \in Folder, p \in Folder \cup {Nil} : CreateFolder(f, p)
    BY <2>1, <2>2, Stutters DEF CreateFolder, docVars
  <2>3. CASE (\E d \in Doc : DeleteDocument(d))
             \/ (\E f \in Folder : DeleteFolderDocuments(f))
    BY <2>1, <2>3, Trashes DEF DeleteDocument, DeleteFolderDocuments
  <2>4. CASE \E d \in Doc : RestoreDocument(d)
    BY <2>1, <2>4, Restores DEF RestoreDocument, TrashedDocs
  <2> QED
    BY <1>1, <2>2, <2>3, <2>4 DEF OneStatement
<1>2. ASSUME NEW r \in Request, Arrive(r)
      PROVE  [Lifecycle!Next]_(Lifecycle!vars)
  <2>1. UndeletedKeys = {}
    BY <1>2, <1>a DEF Arrive, UploadDocument, UploadThumbnail, DeleteThumbnail,
       DeleteFolder, RestoreFolder, PermanentDeleteDocument,
       PermanentDeleteFolder, EmptyTrash, Begin, Serving, DeleteExpiredDocuments
  <2>2. ASSUME NEW d \in Doc, UploadDocument(r, d)
        PROVE  [Lifecycle!Next]_(Lifecycle!vars)
    <3>1. /\ documents[d] = "none" /\ UNCHANGED docVars
          /\ DocKey(d) \notin bucket /\ bucket' = bucket \cup {DocKey(d)}
      BY <2>2 DEF UploadDocument
    <3>2. status[d] = "absent" /\ d \notin stored
      BY <3>1, MapStatus, Mapped
    <3>3. stored' = stored \cup {d}
      BY <3>1 DEF stored, DocKey
    <3>4. Moved = {}
      BY <3>1, NoneMoved DEF TrashedDocs, docVars
    <3>5. doomed' = doomed
      BY <2>2, <1>f DEF UploadDocument
    <3>6. Lifecycle!Store(d)
      BY <2>1, <3>1, <3>2, <3>3, <3>4, <3>5, SparedAfter, StatusKept
         DEF Lifecycle!Store, docVars
    <3> QED
      BY <3>6 DEF Lifecycle!Next
  <2>3. CASE \/ \E d \in Doc : UploadThumbnail(r, d) \/ DeleteThumbnail(r, d)
             \/ \E f \in Folder : DeleteFolder(r, f)
             \/ \E f \in Folder : RestoreFolder(r, f)
    <3>1. UNCHANGED <<documents, trash_origin_folder_id, bucket>>
      BY <2>3 DEF UploadThumbnail, DeleteThumbnail, DeleteFolder,
         RestoreFolder, docVars
    <3>2. doomed' = doomed
      BY <2>3, <1>f DEF UploadThumbnail, DeleteThumbnail, DeleteFolder, RestoreFolder
    <3> QED
      BY <2>1, <3>1, <3>2, Stutters
  <2>4. ASSUME NEW K, UNCHANGED docVars, bucket' = bucket,
               \E s, x : Begin(r, s, x, K),
               \A d \in Doc : DocKey(d) \in K => d \in TrashedDocs
        PROVE  [Lifecycle!Next]_(Lifecycle!vars)
    <3>1. paths' = [paths EXCEPT ![r] = paths[r] \cup K]
      BY <2>4, <1>f
    <3> QED
      BY <1>b, <2>1, <2>4, <3>1, Dooms
  <2>5. ASSUME NEW d \in Doc, PermanentDeleteDocument(r, d)
        PROVE  [Lifecycle!Next]_(Lifecycle!vars)
    BY <1>c, <2>4, <2>5 DEF PermanentDeleteDocument, TrashedDocs
  <2>6. ASSUME NEW f \in Folder, PermanentDeleteFolder(r, f)
        PROVE  [Lifecycle!Next]_(Lifecycle!vars)
    <3>1. \A d \in Doc : DocKey(d) \in DocKeys(TreeDocs(f)) => d \in TrashedDocs
      BY <1>c DEF DocKeys, TreeDocs
    <3> QED
      BY <2>4, <2>6, <3>1 DEF PermanentDeleteFolder
  <2>7. ASSUME EmptyTrash(r)
        PROVE  [Lifecycle!Next]_(Lifecycle!vars)
    <3>1. \A d \in Doc : DocKey(d) \in DocKeys(TrashedDocs) => d \in TrashedDocs
      BY <1>c DEF DocKeys
    <3> QED
      BY <2>4, <2>7, <3>1 DEF EmptyTrash
  <2> QED
    BY <1>2, <2>2, <2>3, <2>5, <2>6, <2>7 DEF Arrive
<1>3. ASSUME NEW r \in Request, Continue(r)
      PROVE  [Lifecycle!Next]_(Lifecycle!vars)
  <2>1. UndeletedKeys = {}
    <3>1. step[r] # "idle"
      BY <1>3 DEF Continue, InsertDocument, PutThumbnail, SetThumbnailPath,
         DeleteThumbnailObject, ClearThumbnailPath, TrashFolder, TrashSubfolders,
         TrashTreeDocuments, RestoreDocuments, RestoreSubfolders,
         RestoreSubfolderDocuments, DeleteDocumentRow, CollectFolderThumbnails,
         DeleteTreeDocuments, DeleteTreeFolders, CollectThumbnails,
         DeleteTrashedDocuments, DeleteTrashedFolders, DeleteObject, PurgeDone
    <3> QED
      BY <1>a, <3>1 DEF CleanupAlone, DeleteExpiredDocuments
  <2>a. r \in Task
    BY <1>b
  <2>2. ASSUME NEW f \in Folder \cup {Nil}, InsertDocument(r, f)
        PROVE  [Lifecycle!Next]_(Lifecycle!vars)
    <3>1. /\ step[r] = "insert_document" /\ bucket' = bucket
          /\ UNCHANGED trash_origin_folder_id /\ doomed' = doomed
          /\ target[r] \in Doc /\ documents[target[r]] = "none"
          /\ DocKey(target[r]) \in bucket
      BY <2>2, <2>a, <1>d DEF InsertDocument, TargetOK, DocumentSteps,
         UploadsPrivate, PurgeSteps
    <3>2. CASE UNCHANGED documents
      BY <2>1, <3>1, <3>2, Stutters
    <3>3. CASE documents' = [documents EXCEPT ![target[r]] = "active"]
      <4>1. status' = [d \in Doc |-> IF d \in {target[r]} THEN "active" ELSE status[d]]
        BY <3>1, <3>3 DEF TypeOK, status, InTrash
      <4>2. status[target[r]] = "absent" /\ target[r] \in stored
        BY <3>1, MapStatus, Mapped
      <4>3. Moved = {}
        BY <3>1, <3>3, NoneMoved DEF TrashedDocs, TypeOK, InTrash
      <4>4. Lifecycle!Publish(target[r])
        BY <2>1, <3>1, <4>1, <4>2, <4>3, SparedAfter, StoredKept
           DEF Lifecycle!Publish, Lifecycle!Become
      <4> QED
        BY <3>1, <4>4 DEF Lifecycle!Next
    <3> QED
      BY <2>2, <3>2, <3>3 DEF InsertDocument
  <2>3. CASE \/ PutThumbnail(r) \/ SetThumbnailPath(r)
             \/ DeleteThumbnailObject(r) \/ ClearThumbnailPath(r)
    <3>1. UNCHANGED <<documents, trash_origin_folder_id>>
      BY <2>3 DEF PutThumbnail, SetThumbnailPath, DeleteThumbnailObject,
         ClearThumbnailPath, docVars
    <3>2. doomed' = doomed
      BY <2>3, <2>a, <1>d, <1>e DEF PutThumbnail, SetThumbnailPath,
         DeleteThumbnailObject, ClearThumbnailPath, PurgeSteps
    <3>3. \A d \in Doc : DocKey(d) \in bucket' <=> DocKey(d) \in bucket
      BY <2>3, <1>c DEF PutThumbnail, SetThumbnailPath,
         DeleteThumbnailObject, ClearThumbnailPath
    <3> QED
      BY <2>1, <3>1, <3>2, <3>3, Stutters
  <2>4. CASE TrashFolder(r) \/ TrashSubfolders(r) \/ RestoreSubfolders(r)
    <3>1. UNCHANGED <<documents, trash_origin_folder_id, bucket>>
      BY <2>4 DEF TrashFolder, TrashSubfolders, RestoreSubfolders, docVars
    <3>2. doomed' = doomed
      BY <2>4, <2>a, <1>e DEF TrashFolder, TrashSubfolders, RestoreSubfolders
    <3> QED
      BY <2>1, <3>1, <3>2, Stutters
  <2>5. CASE TrashTreeDocuments(r)
    <3>1. doomed' = doomed
      BY <2>5, <2>a, <1>d DEF TrashTreeDocuments, PurgeSteps
    <3> QED
      BY <2>1, <2>5, <3>1, Trashes DEF TrashTreeDocuments
  <2>6. CASE RestoreDocuments(r) \/ RestoreSubfolderDocuments(r)
    <3>1. doomed' = doomed /\ bucket' = bucket
      BY <2>6, <2>a, <1>d, <1>e DEF RestoreDocuments, RestoreSubfolderDocuments,
         PurgeSteps
    <3>2. UNCHANGED docVars \/ \E D \in SUBSET TrashedDocs : RestoreDocs(D)
      BY <2>6 DEF RestoreDocuments, RestoreSubfolderDocuments
    <3>3. CASE UNCHANGED docVars
      BY <2>1, <3>1, <3>3, Stutters DEF docVars
    <3> QED
      BY <2>1, <3>1, <3>2, <3>3, Restores
  <2>7. CASE DeleteDocumentRow(r)
    <3>1. target[r] \in Doc /\ DocKey(target[r]) \in paths[r]
          /\ step[r] = "delete_document_row"
      BY <2>7, <2>a DEF DeleteDocumentRow, TargetOK, DocumentSteps, RowKeyHeld
    <3>2. DocKey(target[r]) \in raced \/ Doomed(r, target[r])
      BY <2>a, <3>1, KeyDoc DEF PathsDoomed
    <3>3. \A d \in {target[r]} \cap DocRows :
             \/ documents[d] \in InTrash
             \/ documents[d] = "active" /\ DocKey(d) \in raced
      BY <3>1, <3>2 DEF Doomed, TrashedDocs, DocRows, Exists, InTrash
    <3>4. {target[r]} \cap DocRows \in SUBSET Doc
      BY DEF DocRows
    <3>5. doomed' = doomed
      BY <2>7, <2>a, <1>e DEF DeleteDocumentRow
    <3> QED
      BY <2>1, <2>7, <3>3, <3>4, <3>5, Purges DEF DeleteDocumentRow
  <2>8. CASE DeleteTreeDocuments(r) \/ DeleteTrashedDocuments(r)
    <3>1. doomed' = doomed /\ bucket' = bucket
      BY <2>8, <2>a, <1>e DEF DeleteTreeDocuments, DeleteTrashedDocuments
    <3>2. \E D \in SUBSET TrashedDocs : DeleteDocs(D)
      BY <2>8 DEF DeleteTreeDocuments, DeleteTrashedDocuments, TreeDocs
    <3>3. ASSUME NEW D \in SUBSET TrashedDocs
          PROVE  D \in SUBSET Doc /\ \A d \in D : documents[d] \in InTrash
      BY DEF TrashedDocs
    <3> QED
      BY <2>1, <3>1, <3>2, <3>3, Purges
  <2>9. CASE CollectFolderThumbnails(r) \/ CollectThumbnails(r)
    <3>1. /\ UNCHANGED docVars /\ bucket' = bucket
          /\ \E D : paths' = [paths EXCEPT ![r] = paths[r] \cup ThumbKeys(D)]
      BY <2>9 DEF CollectFolderThumbnails, CollectThumbnails, Collect
    <3>2. \A D : \A d \in Doc : DocKey(d) \notin ThumbKeys(D)
      BY <1>c DEF ThumbKeys
    <3> QED
      BY <2>1, <2>a, <3>1, <3>2, Dooms
  <2>10. CASE DeleteTreeFolders(r) \/ DeleteTrashedFolders(r)
    <3>1. PICK F : DeleteFoldersStatement(r, F)
      BY <2>10 DEF DeleteTreeFolders, DeleteTrashedFolders
    <3>2. CASE DeleteFolders(F) /\ Goto(r, "delete_objects")
      <4>1. doomed' = doomed
        BY <2>a, <1>e, <3>2
      <4> QED
        BY <2>1, <3>1, <3>2, <4>1, Spares DEF DeleteFoldersStatement, DeleteFolders
    <3>3. CASE UNCHANGED docVars /\ Finish(r)
      <4>1. \A t \in Task : paths'[t] \subseteq paths[t]
        BY <1>b, <3>3 DEF Finish
      <4> QED
        BY <2>1, <3>1, <3>3, <4>1, Releases DEF DeleteFoldersStatement
    <3> QED
      BY <3>1, <3>2, <3>3 DEF DeleteFoldersStatement
  <2>11. CASE DeleteObject(r)
    BY <2>1, <2>a, <2>11, Drops
  <2>12. CASE PurgeDone(r)
    <3>1. \A t \in Task : paths'[t] \subseteq paths[t]
      BY <1>b, <2>12 DEF PurgeDone, Finish
    <3> QED
      BY <2>1, <2>12, <3>1, Releases DEF PurgeDone
  <2> QED
    BY <1>3, <2>2, <2>3, <2>4, <2>5, <2>6, <2>7, <2>8, <2>9, <2>10, <2>11, <2>12
       DEF Continue
<1>4. CASE Cleanup
  <2>1. CASE CollectExpired
    <3>1. UndeletedKeys = {}
      BY <1>a, <2>1 DEF CollectExpired, DeleteExpiredDocuments
    <3> DEFINE K == DocKeys(ExpiredDocs) \cup ThumbKeys(ExpiredDocs)
    <3>2. /\ UNCHANGED docVars /\ bucket' = bucket
          /\ paths' = [paths EXCEPT ![Boot] = paths[Boot] \cup K]
      BY <2>1 DEF CollectExpired, Collect
    <3>3. \A d \in Doc : DocKey(d) \in K => d \in TrashedDocs
      BY <1>c DEF DocKeys, ThumbKeys, ExpiredDocs, TrashedDocs, InTrash
    <3> HIDE DEF K
    <3> QED
      BY <1>b, <3>1, <3>2, <3>3, Dooms
  <2>2. CASE DeleteExpiredDocuments
    <3>1. /\ step[Boot] = "delete_expired_documents" /\ bucket' = bucket
          /\ step'[Boot] = "delete_expired_folders" /\ paths' = paths
          /\ DeleteDocs(ExpiredDocs) \/ UNCHANGED docVars
      BY <2>2, <1>b DEF DeleteExpiredDocuments, Goto, TypeOK
    <3>2. doomed' = doomed
      BY <3>1, DoomedKept
    <3>3. \A k \in paths[Boot] : k[2] \in ExpiredDocs
      BY <3>1 DEF BootKeysExpired
    <3>4. ExpiredDocs \in SUBSET Doc /\ \A d \in ExpiredDocs : documents[d] \in InTrash
      BY DEF ExpiredDocs, InTrash
    <3>5. CASE DeleteDocs(ExpiredDocs)
      <4>1. UndeletedKeys = {}
        <5>1. ASSUME NEW k \in UndeletedKeys
              PROVE  FALSE
          <6>1. k[2] \in ExpiredDocs /\ documents' = documents
            BY <3>3, <5>1 DEF UndeletedKeys
          <6>2. documents'[k[2]] = "purged"
            BY <3>5, <6>1 DEF DeleteDocs, ExpiredDocs
          <6> QED
            BY <6>1, <6>2 DEF ExpiredDocs
        <5> QED
          BY <5>1
      <4> QED
        BY <3>1, <3>2, <3>4, <3>5, <4>1, Purges
    <3>6. CASE UNCHANGED docVars
      <4> DEFINE D == {d \in Doc : DocKey(d) \in paths[Boot]}
      <4>1. D \in SUBSET Doc /\ \A d \in D : d \in doomed /\ status[d] = "trashed"
        BY <1>b, <3>3, <3>4, MapStatus, Mapped, KeyDoc
      <4>2. Moved = {}
        BY <3>6, NoneMoved DEF TrashedDocs, docVars
      <4>3. UndeletedKeys = paths[Boot]
        BY <3>1, <3>6 DEF UndeletedKeys, docVars
      <4>4. spared' = spared \cup D
        <5>1. \A d : DocKey(d) \in raced' <=> DocKey(d) \in raced \cup paths[Boot]
          BY <1>c, <4>2, <4>3 DEF RecordRaces, MovedKeys
        <5>2. spared' = {d \in Doc : DocKey(d) \in raced'}
          BY DEF spared, DocKey
        <5> QED
          BY <5>1, <5>2 DEF spared
      <4> HIDE DEF D
      <4>5. Lifecycle!Spare(D)
        BY <3>1, <3>2, <3>6, <4>1, <4>4, StatusKept, StoredKept
           DEF Lifecycle!Spare, docVars
      <4> QED
        BY <4>1, <4>5 DEF Lifecycle!Next
    <3> QED
      BY <3>1, <3>5, <3>6
  <2>3. CASE DeleteExpiredFolders
    <3>1. /\ UndeletedKeys = {} /\ documents' = documents /\ bucket' = bucket
          /\ paths' = paths
      BY <2>3, <1>a DEF DeleteExpiredFolders, DeleteExpiredDocuments,
         DeleteFolders, docVars, Goto
    <3> QED
      BY <3>1, DoomedKept, Spares
  <2>4. CASE DeleteObject(Boot)
    <3>1. UndeletedKeys = {}
      BY <2>4, <1>a DEF DeleteObject, DeleteExpiredDocuments
    <3> QED
      BY <1>b, <2>4, <3>1, Drops
  <2>5. CASE PurgeDone(Boot)
    <3>1. UndeletedKeys = {}
      BY <2>5, <1>a DEF PurgeDone, DeleteExpiredDocuments
    <3>2. \A t \in Task : paths'[t] \subseteq paths[t]
      BY <1>b, <2>5 DEF PurgeDone, Finish
    <3> QED
      BY <2>5, <3>1, <3>2, Releases DEF PurgeDone
  <2> QED
    BY <1>4, <2>1, <2>2, <2>3, <2>4, <2>5 DEF Cleanup
<1>5. ASSUME Restart \/ \E t \in Task : Abort(t)
      PROVE  [Lifecycle!Next]_(Lifecycle!vars)
  <2>1. \A t \in Task : paths'[t] \subseteq paths[t]
    BY <1>5, <1>b DEF Restart, Abort, Finish
  <2>2. UNCHANGED docVars /\ bucket' = bucket
    BY <1>5 DEF Restart, Abort
  <2>3. UndeletedKeys = {}
    <3>1. step'[Boot] # "delete_expired_folders"
          \/ step[Boot] # "delete_expired_documents"
      BY <1>5, <1>b, BootAssumption DEF Restart, Abort, Finish, TypeOK
    <3> QED
      BY <3>1 DEF UndeletedKeys
  <2> QED
    BY <2>1, <2>2, <2>3, Releases
<1>6. CASE Expire
  <2>1. \A d \in Doc : \/ documents'[d] = documents[d]
                       \/ documents[d] \in InTrash /\ documents'[d] \in InTrash
    BY <1>6 DEF Expire, TrashedDocs, InTrash, TypeOK
  <2>2. status' = status
    BY <2>1 DEF status, InTrash
  <2>3. Moved = {}
    BY <1>6, <2>1, NoneMoved DEF Expire, TrashedDocs
  <2>4. doomed' = doomed /\ stored' = stored /\ UndeletedKeys = {}
    BY <1>6, DoomedKept, StoredKept DEF Expire, taskVars, UndeletedKeys
  <2> QED
    BY <2>2, <2>3, <2>4, SparedAfter DEF Lifecycle!vars
<1>7. CASE UNCHANGED vars
  <2>1. doomed' = doomed /\ UndeletedKeys = {}
    BY <1>7, DoomedKept DEF vars, UndeletedKeys
  <2> QED
    BY <1>7, <2>1, Stutters DEF vars
<1> QED
  BY <1>1, <1>2, <1>3, <1>4, <1>5, <1>6, <1>7 DEF Next

-----------------------------------------------------------------------------
\* Every behaviour of the handlers, with requests that overlap in any way, are
\* cut off, and statements and S3 calls that fail, is one of the life cycle of
\* documents (documents/handlers.rs and trash/handlers.rs).
THEOREM ImplementsLifecycleCorrect == RacesSpec => ImplementsLifecycle
<1> DEFINE IInv == TypeOK /\ TargetOK /\ FolderPlaces /\ RacesInv
<1>1. RacesInit => Lifecycle!Init
  <2> SUFFICES ASSUME RacesInit
               PROVE  Lifecycle!Init
    OBVIOUS
  <2>1. /\ \A d \in Doc : documents[d] = "none"
        /\ bucket = {} /\ raced = {} /\ \A t \in Task : paths[t] = {}
    BY DEF RacesInit, Init
  <2> QED
    BY <2>1 DEF Lifecycle!Init, status, stored, doomed, spared, Held, InTrash
<1>2. RacesInit => RowKeyHeld /\ BootKeysExpired
  BY DEF RacesInit, Init, RowKeyHeld, BootKeysExpired, Task
<1>3. IInv /\ RowKeyHeld /\ BootKeysExpired /\ [RacesNext]_racesVars
      => /\ RowKeyHeld' /\ BootKeysExpired'
         /\ [Lifecycle!Next]_(Lifecycle!vars)
  <2> SUFFICES ASSUME IInv, RowKeyHeld, BootKeysExpired, [RacesNext]_racesVars
               PROVE  /\ RowKeyHeld' /\ BootKeysExpired'
                      /\ [Lifecycle!Next]_(Lifecycle!vars)
    OBVIOUS
  <2>1. [Next]_vars
    BY DEF RacesNext, racesVars
  <2>2. RowKeyHeld' /\ BootKeysExpired'
    BY <2>1, RowKeyStep, BootKeysStep DEF RacesInv
  <2>3. CASE RacesNext
    <3>1. RecordRaces /\ UploadsPrivate /\ PathsDoomed /\ CleanupAlone
      BY <2>3 DEF RacesInv, RacesNext
    <3> QED
      BY <2>1, <2>2, <3>1, RefinementStep
  <2>4. CASE UNCHANGED racesVars
    <3>1. UNCHANGED <<documents, bucket, paths, raced>>
      BY <2>4 DEF racesVars, vars
    <3>2. spared' = spared
      BY <3>1 DEF spared, DocKey
    <3> QED
      BY <2>2, <3>1, <3>2, StatusKept, StoredKept, DoomedKept DEF Lifecycle!vars
  <2> QED
    BY <2>2, <2>3, <2>4
<1>4. RacesSpec => []IInv
  BY RacesInvCorrect
<1> QED
  BY <1>1, <1>2, <1>3, <1>4, PTL
     DEF RacesSpec, ImplementsLifecycle, Lifecycle!Spec

-----------------------------------------------------------------------------
(***************************************************************************)
(* What a purge leaves in the bucket.                                      *)
(***************************************************************************)

\* One task acts, and the others are idle and hold no key.
ActsAlone(t) ==
    /\ AllIdle \/ step[t] # "idle"
    /\ \A u \in Task : u # t => /\ step[u] = "idle" /\ step'[u] = "idle"
                                /\ paths[u] = {} /\ paths'[u] = {}

LEMMA AloneTask ==
    ASSUME TypeOK, OneTask, KeysHeld, AloneNext
    PROVE  \/ \E r \in Request : ActsAlone(r) /\ ((AllIdle /\ Arrive(r)) \/ Continue(r))
           \/ ActsAlone(Boot) /\ (Cleanup \/ (AllIdle /\ Restart))
           \/ AllIdle /\ (OneStatement \/ Expire)
<1>a. /\ \A t : t \in Task <=> t \in Request \/ t = Boot
      /\ step \in [Task -> Step] /\ paths \in [Task -> SUBSET Key]
      /\ Boot \notin Request
      /\ \A t \in Task : step[t] = "idle" => paths[t] = {}
  BY BootAssumption DEF TypeOK, Task, KeysHeld
<1>1. ASSUME NEW t \in Task, NEW s, AllIdle \/ step[t] # "idle",
             step' = [step EXCEPT ![t] = s],
             paths' = paths \/ \E K : paths' = [paths EXCEPT ![t] = K]
      PROVE  ActsAlone(t)
  BY <1>a, <1>1 DEF ActsAlone, AllIdle, OneTask
<1>2. ASSUME NEW r \in Request, AllIdle, Arrive(r)
      PROVE  ActsAlone(r)
  <2>1. \E s, x, K : Begin(r, s, x, K)
    BY <1>2 DEF Arrive, UploadDocument, UploadThumbnail, DeleteThumbnail,
       DeleteFolder, RestoreFolder, PermanentDeleteDocument,
       PermanentDeleteFolder, EmptyTrash
  <2> QED
    BY <1>a, <1>1, <1>2, <2>1 DEF Begin
<1>3. ASSUME NEW t \in Task, DeleteObject(t) \/ PurgeDone(t)
      PROVE  ActsAlone(t)
  <2>1. step' = [step EXCEPT ![t] = step[t]] \/ step' = [step EXCEPT ![t] = "idle"]
    BY <1>a, <1>3 DEF DeleteObject, PurgeDone, Finish
  <2> QED
    BY <1>1, <1>3, <2>1 DEF DeleteObject, PurgeDone, Finish
<1>4. ASSUME NEW r \in Request, Continue(r)
      PROVE  ActsAlone(r)
  <2>1. ASSUME ~DeleteObject(r), ~PurgeDone(r)
        PROVE  /\ step[r] # "idle"
               /\ (\E s : Goto(r, s)) \/ (\E s, K : Collect(r, K, s)) \/ Finish(r)
    BY <1>4, <2>1 DEF Continue, InsertDocument, PutThumbnail, SetThumbnailPath,
       DeleteThumbnailObject, ClearThumbnailPath, TrashFolder, TrashSubfolders,
       TrashTreeDocuments, RestoreDocuments, RestoreSubfolders,
       RestoreSubfolderDocuments, DeleteDocumentRow, CollectFolderThumbnails,
       DeleteTreeDocuments, DeleteTreeFolders, CollectThumbnails,
       DeleteTrashedDocuments, DeleteTrashedFolders, DeleteFoldersStatement
  <2> QED
    BY <1>a, <1>1, <1>3, <2>1 DEF Goto, Collect, Finish
<1>5. ASSUME Cleanup
      PROVE  ActsAlone(Boot)
  BY <1>a, <1>1, <1>3, <1>5 DEF Cleanup, CollectExpired, DeleteExpiredDocuments,
     DeleteExpiredFolders, Collect, Goto
<1>6. ASSUME AllIdle, Restart
      PROVE  ActsAlone(Boot)
  BY <1>a, <1>6 DEF Restart, ActsAlone, AllIdle
<1>7. ASSUME AllIdle, NEW t \in Task, Abort(t)
      PROVE  FALSE
  BY <1>7 DEF Abort, AllIdle
<1> QED
  BY <1>a, <1>2, <1>4, <1>5, <1>6, <1>7, BootAssumption DEF AloneNext, Next

LEMMA OneTaskStep ==
    ASSUME NEW t \in Task, ActsAlone(t)
    PROVE  OneTask'
BY DEF ActsAlone, OneTask, Task

\* A purge has the keys when it comes to a DELETE.
LEMMA KeysStep ==
    ASSUME TypeOK, KeysHeld, OneTask, AloneNext
    PROVE  OneTask' /\ KeysHeld'
<1>a. /\ \A t : t \in Task <=> t \in Request \/ t = Boot
      /\ step \in [Task -> Step] /\ paths \in [Task -> SUBSET Key]
      /\ target \in [Task -> Doc \cup FolderRef]
      /\ Boot \notin Request
  BY BootAssumption DEF TypeOK, Task
<1>1. ASSUME AllIdle, OneStatement \/ Expire
      PROVE  OneTask' /\ KeysHeld'
  <2>1. UNCHANGED taskVars
    BY <1>1 DEF OneStatement, Expire, CreateFolder, DeleteDocument,
       DeleteFolderDocuments, RestoreDocument
  <2> QED
    BY <1>1, <2>1 DEF taskVars, AllIdle, OneTask, KeysHeld
\* The steps that come to no DELETE of documents.
<1>2. ASSUME NEW t \in Task, ActsAlone(t), step'[t] = "idle" => paths'[t] = {},
             step'[t] \notin {"delete_document_row", "collect_folder_thumbnails",
                "delete_tree_documents", "collect_thumbnails",
                "delete_trashed_documents", "delete_expired_documents"}
      PROVE  OneTask' /\ KeysHeld'
  BY <1>a, <1>2, OneTaskStep DEF ActsAlone, KeysHeld
<1>3. ASSUME NEW r \in Request, ActsAlone(r), AllIdle, Arrive(r)
      PROVE  OneTask' /\ KeysHeld'
  <2>1. CASE \/ \E d \in Doc : UploadDocument(r, d)
             \/ \E d \in Doc : UploadThumbnail(r, d)
             \/ \E d \in Doc : DeleteThumbnail(r, d)
             \/ \E f \in Folder : DeleteFolder(r, f)
             \/ \E f \in Folder : RestoreFolder(r, f)
    BY <1>a, <1>2, <1>3, <2>1 DEF UploadDocument, UploadThumbnail,
       DeleteThumbnail, DeleteFolder, RestoreFolder, Begin
  <2>2. ASSUME NEW d \in Doc, PermanentDeleteDocument(r, d)
        PROVE  KeysHeld'
    BY <1>a, <1>3, <2>2 DEF ActsAlone, KeysHeld, PermanentDeleteDocument, Begin
  <2>3. ASSUME NEW f \in Folder, PermanentDeleteFolder(r, f)
        PROVE  KeysHeld'
    <3>1. /\ step'[r] = "collect_folder_thumbnails" /\ target'[r] = f
          /\ paths'[r] = DocKeys(TreeDocs(f)) /\ UNCHANGED <<docVars, folderVars>>
      BY <1>a, <2>3 DEF PermanentDeleteFolder, Begin
    <3>2. TreeDocs(target[r])' = TreeDocs(f)
      BY <3>1 DEF TreeDocs, TrashedDocs, OriginTree, FolderRows, docVars, folderVars
    <3>3. DocKeys(TreeDocs(target[r]))' = DocKeys(TreeDocs(f))
      BY <3>2 DEF DocKeys, DocKey
    <3> QED
      BY <1>a, <1>3, <3>1, <3>3 DEF ActsAlone, KeysHeld
  <2>4. ASSUME EmptyTrash(r)
        PROVE  KeysHeld'
    <3>1. /\ step'[r] = "collect_thumbnails"
          /\ paths'[r] = DocKeys(TrashedDocs) /\ UNCHANGED docVars
      BY <1>a, <2>4 DEF EmptyTrash, Begin
    <3>2. DocKeys(TrashedDocs)' = DocKeys(TrashedDocs)
      BY <3>1 DEF DocKeys, DocKey, TrashedDocs, docVars
    <3> QED
      BY <1>a, <1>3, <3>1, <3>2 DEF ActsAlone, KeysHeld
  <2> QED
    BY <1>a, <1>3, <2>1, <2>2, <2>3, <2>4, OneTaskStep DEF Arrive
<1>4. ASSUME NEW t \in Task, ActsAlone(t), DeleteObject(t) \/ PurgeDone(t)
      PROVE  OneTask' /\ KeysHeld'
  BY <1>a, <1>2, <1>4 DEF DeleteObject, PurgeDone, Finish
<1>5. ASSUME NEW r \in Request, ActsAlone(r), Continue(r)
      PROVE  OneTask' /\ KeysHeld'
  <2>1. CASE \/ \E f \in Folder \cup {Nil} : InsertDocument(r, f)
             \/ PutThumbnail(r) \/ SetThumbnailPath(r)
             \/ DeleteThumbnailObject(r) \/ ClearThumbnailPath(r)
    BY <1>a, <1>2, <1>5, <2>1 DEF InsertDocument, PutThumbnail,
       SetThumbnailPath, DeleteThumbnailObject, ClearThumbnailPath, Goto, Finish
  <2>2. CASE \/ TrashFolder(r) \/ TrashSubfolders(r) \/ TrashTreeDocuments(r)
             \/ RestoreDocuments(r) \/ RestoreSubfolders(r)
             \/ RestoreSubfolderDocuments(r)
    BY <1>a, <1>2, <1>5, <2>2 DEF TrashFolder, TrashSubfolders,
       TrashTreeDocuments, RestoreDocuments, RestoreSubfolders,
       RestoreSubfolderDocuments, Goto, Finish
  <2>3. CASE \/ DeleteDocumentRow(r) \/ DeleteTreeDocuments(r)
             \/ DeleteTrashedDocuments(r) \/ DeleteTreeFolders(r)
             \/ DeleteTrashedFolders(r)
    BY <1>a, <1>2, <1>5, <2>3 DEF DeleteDocumentRow, DeleteTreeDocuments,
       DeleteTrashedDocuments, DeleteTreeFolders, DeleteTrashedFolders,
       DeleteFoldersStatement, Goto, Finish
  <2>4. CASE CollectFolderThumbnails(r)
    <3> DEFINE D == TreeDocs(target[r])
    <3>1. /\ step[r] = "collect_folder_thumbnails"
          /\ step'[r] = "delete_tree_documents" /\ target' = target
          /\ paths'[r] = paths[r] \cup ThumbKeys(D)
          /\ UNCHANGED <<docVars, folderVars>>
      BY <1>a, <2>4 DEF CollectFolderThumbnails, Collect
    <3>2. TreeDocs(target[r])' = D
      BY <3>1 DEF TreeDocs, TrashedDocs, OriginTree, FolderRows, docVars, folderVars
    <3>3. DocKeys(D) \subseteq paths[r]
      BY <1>a, <3>1 DEF KeysHeld
    <3> HIDE DEF D
    <3>4. /\ DocKeys(TreeDocs(target[r]))' = DocKeys(D)
          /\ ThumbKeys(TreeDocs(target[r]))' = ThumbKeys(D)
      BY <3>1, <3>2 DEF DocKeys, ThumbKeys, DocKey, ThumbKey, docVars
    <3> QED
      BY <1>a, <1>5, <3>1, <3>3, <3>4, OneTaskStep DEF ActsAlone, KeysHeld
  <2>5. CASE CollectThumbnails(r)
    <3>1. /\ step[r] = "collect_thumbnails"
          /\ step'[r] = "delete_trashed_documents"
          /\ paths'[r] = paths[r] \cup ThumbKeys(TrashedDocs)
          /\ UNCHANGED docVars
      BY <1>a, <2>5 DEF CollectThumbnails, Collect
    <3>2. /\ DocKeys(TrashedDocs)' = DocKeys(TrashedDocs)
          /\ ThumbKeys(TrashedDocs)' = ThumbKeys(TrashedDocs)
      BY <3>1 DEF DocKeys, ThumbKeys, DocKey, ThumbKey, TrashedDocs, docVars
    <3> QED
      BY <1>a, <1>5, <3>1, <3>2, OneTaskStep DEF ActsAlone, KeysHeld
  <2> QED
    BY <1>a, <1>4, <1>5, <2>1, <2>2, <2>3, <2>4, <2>5 DEF Continue
<1>6. ASSUME ActsAlone(Boot), Cleanup
      PROVE  OneTask' /\ KeysHeld'
  <2>1. CASE CollectExpired
    <3> DEFINE K == DocKeys(ExpiredDocs) \cup ThumbKeys(ExpiredDocs)
    <3>1. /\ step'[Boot] = "delete_expired_documents"
          /\ K \subseteq paths'[Boot] /\ UNCHANGED docVars
      BY <1>a, <2>1 DEF CollectExpired, Collect
    <3>2. (DocKeys(ExpiredDocs) \cup ThumbKeys(ExpiredDocs))' = K
      BY <3>1 DEF DocKeys, ThumbKeys, DocKey, ThumbKey, ExpiredDocs, docVars
    <3> HIDE DEF K
    <3> QED
      BY <1>a, <1>6, <3>1, <3>2, OneTaskStep DEF ActsAlone, KeysHeld
  <2>2. CASE DeleteExpiredDocuments \/ DeleteExpiredFolders
    BY <1>a, <1>2, <1>6, <2>2 DEF DeleteExpiredDocuments, DeleteExpiredFolders, Goto
  <2> QED
    BY <1>a, <1>4, <1>6, <2>1, <2>2 DEF Cleanup
<1>7. ASSUME ActsAlone(Boot), AllIdle, Restart
      PROVE  OneTask' /\ KeysHeld'
  BY <1>a, <1>2, <1>7 DEF Restart
<1> QED
  BY <1>1, <1>3, <1>5, <1>6, <1>7, AloneTask

\* A key that was held or left is, if its object is still in the bucket.
LEMMA HeldOrLeft ==
    ASSUME Left, NEW k \in bucket', k \in leftover \cup Done \cup UNION {paths[t] : t \in Task}
    PROVE  k \in leftover' \cup UNION {paths'[t] : t \in Task}
<1>1. \A t \in Task : paths[t] \ paths'[t] \subseteq Done
  BY DEF Done
<1> QED
  BY <1>1 DEF Left

\* What one step does to the objects of the rows it deletes, to the bucket, and
\* to the rows and the requests of thumbnails.
HeldKeys == UNION {paths[t] : t \in Task}
Gone(d) == documents'[d] = "purged" /\ documents[d] # "purged"
Placed ==
    \A r \in Request :
        /\ step[r] = "insert_document" => documents[target[r]] = "none"
        /\ step[r] \in {"put_thumbnail", "set_thumbnail_path"} => target[r] \in DocRows
Effects ==
    /\ \A d \in Doc : Gone(d) =>
         /\ DocKey(d) \in HeldKeys
         /\ d \in thumbnail_path => ThumbKey(d) \in HeldKeys \cup Done
    /\ \A d \in Doc : DocKey(d) \in bucket' \ bucket => documents'[d] # "purged"
    /\ \A d \in Doc : documents[d] = "purged" => documents'[d] = "purged"
    /\ \A d \in Doc : ThumbKey(d) \in bucket' \ bucket =>
         \E r \in Request : step'[r] = "set_thumbnail_path" /\ target'[r] = d
    /\ \A d \in thumbnail_path \ thumbnail_path' :
         Gone(d) \/ {ThumbKey(d)} \cap bucket' \subseteq leftover
    /\ \A r \in Request : step[r] = "set_thumbnail_path" =>
         \/ step'[r] = "set_thumbnail_path" /\ target'[r] = target[r]
         \/ target[r] \in thumbnail_path'
    /\ \A r \in Request : step'[r] = "clear_thumbnail_path" =>
         ThumbKey(target'[r]) \in Done
    /\ Placed'

\* A request that passes one of these statements is done with the thumbnail.
LEMMA ThumbnailDone ==
    ASSUME NEW r \in Request,
           step[r] \in {"delete_document_row", "delete_thumbnail_object"},
           step'[r] # step[r]
    PROVE  ThumbKey(target[r]) \in Done
<1> DEFINE R == {q \in Request :
                   /\ step[q] \in {"delete_document_row", "delete_thumbnail_object"}
                   /\ step'[q] # step[q]}
           K == {ThumbKey(target[q]) : q \in R}
<1>1. r \in R
  OBVIOUS
<1>2. K \subseteq Done
  BY DEF Done
<1> HIDE DEF R
<1>3. ThumbKey(target[r]) \in K
  BY <1>1
<1> QED
  BY <1>2, <1>3

LEMMA EffectsStep ==
    ASSUME TypeOK, TargetOK, OneTask, KeysHeld, ThumbsNamed, AloneNext
    PROVE  Effects
<1>a. /\ \A t : t \in Task <=> t \in Request \/ t = Boot
      /\ step \in [Task -> Step] /\ paths \in [Task -> SUBSET Key]
      /\ target \in [Task -> Doc \cup FolderRef] /\ documents \in [Doc -> RowState]
      /\ Boot \notin Request /\ thumbnail_path \subseteq Doc
      /\ \A d, e : DocKey(d) # ThumbKey(e)
      /\ \A d, e : ThumbKey(d) = ThumbKey(e) => d = e
      /\ \A d, e : DocKey(d) = DocKey(e) => d = e
  BY BootAssumption DEF TypeOK, Task, DocKey, ThumbKey
<1>b. \A D : \A d \in D : /\ DocKey(d) \in DocKeys(D)
                          /\ d \in thumbnail_path => ThumbKey(d) \in ThumbKeys(D)
  BY DEF DocKeys, ThumbKeys
\* A task that touches no row that is purged, no object and no thumbnail.
<1>1. ASSUME UNCHANGED <<bucket, thumbnail_path>>,
             \A d \in Doc : documents'[d] = "purged" <=> documents[d] = "purged",
             \A r \in Request : step'[r] \notin {"insert_document",
                "put_thumbnail", "set_thumbnail_path", "clear_thumbnail_path"},
             \A r \in Request : step[r] # "set_thumbnail_path"
      PROVE  Effects
  BY <1>1 DEF Effects, Gone, Placed
<1>2. ASSUME AllIdle, OneStatement \/ Expire \/ Restart
      PROVE  Effects
  <2>1. /\ UNCHANGED <<bucket, thumbnail_path>>
        /\ \A r \in Request : step[r] = "idle" /\ step'[r] = "idle"
    BY <1>a, <1>2 DEF OneStatement, CreateFolder, DeleteDocument,
       DeleteFolderDocuments, RestoreDocument, Expire, Restart, taskVars,
       docVars, TrashDocs, RestoreDocs, AllIdle
  <2>2. \A d \in Doc : documents'[d] = "purged" <=> documents[d] = "purged"
    BY <1>a, <1>2 DEF OneStatement, CreateFolder, DeleteDocument,
       DeleteFolderDocuments, RestoreDocument, Expire, Restart,
       docVars, TrashDocs, RestoreDocs, Restored, TrashedDocs, InTrash
  <2> QED
    BY <1>1, <2>1, <2>2
<1>3. ASSUME NEW r \in Request, ActsAlone(r), AllIdle, Arrive(r)
      PROVE  Effects
  <2>0. \A q \in Request : step[q] = "idle"
    BY <1>a, <1>3 DEF AllIdle
  <2>1. ASSUME NEW d \in Doc, UploadDocument(r, d)
        PROVE  Effects
    BY <1>a, <1>3, <2>0, <2>1
       DEF UploadDocument, Begin, docVars, Effects, Gone, Placed, ActsAlone
  <2>2. ASSUME NEW d \in Doc, UploadThumbnail(r, d)
        PROVE  Effects
    BY <1>a, <1>3, <2>0, <2>2
       DEF UploadThumbnail, Begin, docVars, Effects, Gone, Placed, ActsAlone, DocRows
  <2>3. ASSUME ~\E d \in Doc : UploadDocument(r, d) \/ UploadThumbnail(r, d)
        PROVE  Effects
    <3>1. /\ UNCHANGED <<docVars, bucket>>
          /\ \E s \in {"delete_thumbnail_object", "trash_folder",
                       "restore_documents", "delete_document_row",
                       "collect_folder_thumbnails", "collect_thumbnails"} :
               \E x, K : Begin(r, s, x, K)
      BY <1>3, <2>3 DEF Arrive, DeleteThumbnail, DeleteFolder, RestoreFolder,
         PermanentDeleteDocument, PermanentDeleteFolder, EmptyTrash
    <3> QED
      BY <1>1, <1>a, <1>3, <2>0, <3>1 DEF Begin, docVars, ActsAlone
  <2> QED
    BY <2>1, <2>2, <2>3
<1>4. ASSUME NEW t \in Task, ActsAlone(t), step[t] \in PurgeSteps,
             step'[t] \in PurgeSteps \cup {"idle"},
             UNCHANGED <<documents, thumbnail_path>>, bucket' \subseteq bucket
      PROVE  Effects
  <2>1. \A r \in Request :
            /\ step'[r] \notin {"insert_document", "put_thumbnail",
                               "set_thumbnail_path", "clear_thumbnail_path"}
            /\ step[r] # "set_thumbnail_path"
    BY <1>a, <1>4 DEF ActsAlone, PurgeSteps
  <2> QED
    BY <1>4, <2>1 DEF Effects, Gone, Placed
\* The DELETEs of documents.
<1>5. ASSUME NEW t \in Task, ActsAlone(t), step[t] \in PurgeSteps,
             step'[t] \in PurgeSteps, bucket' = bucket,
             NEW D \in SUBSET Doc, DeleteDocs(D),
             \A d \in D : /\ DocKey(d) \in paths[t]
                          /\ d \in thumbnail_path => ThumbKey(d) \in paths[t] \cup Done
      PROVE  Effects
  <2>1. \A r \in Request :
            /\ step'[r] \notin {"insert_document", "put_thumbnail",
                               "set_thumbnail_path", "clear_thumbnail_path"}
            /\ step[r] # "set_thumbnail_path"
    BY <1>a, <1>5 DEF ActsAlone, PurgeSteps
  <2>2. /\ \A d \in Doc : documents'[d] = IF d \in D THEN "purged" ELSE documents[d]
        /\ thumbnail_path' = thumbnail_path \ D
    BY <1>5 DEF DeleteDocs
  <2>3. \A d \in Doc : Gone(d) =>
           /\ d \in D /\ DocKey(d) \in HeldKeys
           /\ d \in thumbnail_path => ThumbKey(d) \in HeldKeys \cup Done
    BY <1>5, <2>2 DEF Gone, HeldKeys
  <2>4. \A d \in thumbnail_path : documents[d] # "purged"
    BY DEF ThumbsNamed, DocRows, Exists, InTrash
  <2> QED
    BY <1>a, <1>5, <2>1, <2>2, <2>3, <2>4 DEF Effects, Gone, Placed
<1>6. ASSUME NEW r \in Request, ActsAlone(r), Continue(r)
      PROVE  Effects
  <2>0. r \in Task /\ \A q \in Request : q # r => step[q] = "idle" /\ step'[q] = "idle"
    BY <1>a, <1>6 DEF ActsAlone
  <2>1. ASSUME NEW f \in Folder \cup {Nil}, InsertDocument(r, f)
        PROVE  Effects
    <3>1. /\ step[r] = "insert_document" /\ step'[r] = "idle"
          /\ UNCHANGED <<bucket, thumbnail_path>>
          /\ documents[target[r]] = "none"
          /\ documents' = documents \/ documents' = [documents EXCEPT ![target[r]] = "active"]
      BY <1>a, <2>0, <2>1 DEF InsertDocument, Finish, ThumbsNamed
    <3> QED
      BY <1>1, <1>a, <2>0, <3>1
  <2>2. CASE PutThumbnail(r)
    <3>1. /\ step[r] = "put_thumbnail" /\ step'[r] = "set_thumbnail_path"
          /\ target' = target /\ UNCHANGED docVars /\ target[r] \in DocRows
          /\ bucket' = bucket \cup {ThumbKey(target[r])}
      BY <1>a, <2>0, <2>2 DEF PutThumbnail, Goto, ThumbsNamed
    <3> QED
      BY <1>a, <2>0, <3>1 DEF Effects, Gone, Placed, docVars, DocRows
  <2>3. CASE SetThumbnailPath(r)
    <3>1. /\ step[r] = "set_thumbnail_path" /\ step'[r] = "idle"
          /\ UNCHANGED <<documents, bucket>> /\ target[r] \in DocRows
          /\ thumbnail_path' = thumbnail_path \cup ({target[r]} \cap DocRows)
      BY <1>a, <2>0, <2>3 DEF SetThumbnailPath, Finish, ThumbsNamed
    <3> QED
      BY <1>a, <2>0, <3>1 DEF Effects, Gone, Placed
  <2>4. CASE DeleteThumbnailObject(r)
    <3>1. /\ step[r] = "delete_thumbnail_object" /\ step'[r] = "clear_thumbnail_path"
          /\ target' = target /\ UNCHANGED docVars /\ bucket' \subseteq bucket
      BY <1>a, <2>0, <2>4 DEF DeleteThumbnailObject, Goto
    <3>2. ThumbKey(target[r]) \in Done
      BY <3>1, ThumbnailDone
    <3> QED
      BY <1>a, <2>0, <3>1, <3>2 DEF Effects, Gone, Placed, docVars
  <2>5. CASE ClearThumbnailPath(r)
    <3>1. /\ step[r] = "clear_thumbnail_path" /\ step'[r] = "idle"
          /\ UNCHANGED <<documents, bucket>>
          /\ thumbnail_path' = thumbnail_path \ {target[r]}
          /\ {ThumbKey(target[r])} \cap bucket \subseteq leftover
      BY <1>a, <2>0, <2>5 DEF ClearThumbnailPath, Finish, ThumbsNamed
    <3> QED
      BY <1>a, <2>0, <3>1 DEF Effects, Gone, Placed
  <2>6. CASE TrashFolder(r) \/ TrashSubfolders(r) \/ RestoreSubfolders(r)
    <3>1. /\ step[r] \in {"trash_folder", "trash_subfolders", "restore_subfolders"}
          /\ step'[r] \in {"trash_subfolders", "trash_tree_documents",
                           "restore_subfolder_documents"}
          /\ UNCHANGED <<docVars, bucket>>
      BY <1>a, <2>0, <2>6 DEF TrashFolder, TrashSubfolders, RestoreSubfolders, Goto
    <3> QED
      BY <1>1, <1>a, <2>0, <3>1 DEF docVars
  <2>7. CASE \/ TrashTreeDocuments(r) \/ RestoreDocuments(r)
             \/ RestoreSubfolderDocuments(r)
    <3>1. /\ step[r] \in {"trash_tree_documents", "restore_documents",
                         "restore_subfolder_documents"}
          /\ step'[r] \in {"idle", "restore_subfolders"}
          /\ UNCHANGED <<bucket, thumbnail_path>>
      BY <1>a, <2>0, <2>7 DEF TrashTreeDocuments, RestoreDocuments, Goto, Finish,
         RestoreSubfolderDocuments, TrashDocs, RestoreDocs, docVars
    <3>2. \A d \in Doc : documents'[d] = "purged" <=> documents[d] = "purged"
      BY <1>a, <2>7 DEF TrashTreeDocuments, RestoreDocuments, Restored,
         RestoreSubfolderDocuments, TrashDocs, RestoreDocs, docVars, TrashedDocs,
         InTrash
    <3> QED
      BY <1>1, <1>a, <2>0, <3>1, <3>2
  <2>8. CASE DeleteDocumentRow(r)
    <3>1. /\ step[r] = "delete_document_row" /\ step'[r] = "delete_objects"
          /\ DeleteDocs({target[r]} \cap DocRows) /\ bucket' = bucket
          /\ DocKey(target[r]) \in paths[r]
      BY <1>a, <2>0, <2>8 DEF DeleteDocumentRow, Goto, KeysHeld
    <3>2. ThumbKey(target[r]) \in Done
      BY <3>1, ThumbnailDone
    <3>3. {target[r]} \cap DocRows \in SUBSET Doc
      BY DEF DocRows
    <3> QED
      BY <1>5, <1>6, <2>0, <3>1, <3>2, <3>3 DEF PurgeSteps
  <2>9. CASE DeleteTreeDocuments(r)
    <3> DEFINE D == TreeDocs(target[r])
    <3>1. /\ step[r] = "delete_tree_documents" /\ step'[r] = "delete_tree_folders"
          /\ DeleteDocs(D) /\ bucket' = bucket
          /\ DocKeys(D) \subseteq paths[r] /\ ThumbKeys(D) \subseteq paths[r]
      BY <1>a, <2>0, <2>9 DEF DeleteTreeDocuments, Goto, KeysHeld
    <3>2. D \in SUBSET Doc
      BY DEF TreeDocs, TrashedDocs
    <3> HIDE DEF D
    <3> QED
      BY <1>5, <1>6, <1>b, <2>0, <3>1, <3>2 DEF PurgeSteps
  <2>10. CASE DeleteTrashedDocuments(r)
    <3>1. /\ step[r] = "delete_trashed_documents" /\ step'[r] = "delete_trashed_folders"
          /\ DeleteDocs(TrashedDocs) /\ bucket' = bucket
          /\ DocKeys(TrashedDocs) \subseteq paths[r]
          /\ ThumbKeys(TrashedDocs) \subseteq paths[r]
      BY <1>a, <2>0, <2>10 DEF DeleteTrashedDocuments, Goto, KeysHeld
    <3>2. TrashedDocs \in SUBSET Doc
      BY DEF TrashedDocs
    <3> QED
      BY <1>5, <1>6, <1>b, <2>0, <3>1, <3>2 DEF PurgeSteps
  <2>11. CASE \/ CollectFolderThumbnails(r) \/ CollectThumbnails(r)
              \/ DeleteTreeFolders(r) \/ DeleteTrashedFolders(r)
    BY <1>4, <1>6, <1>a, <2>0, <2>11 DEF CollectFolderThumbnails,
       CollectThumbnails, DeleteTreeFolders, DeleteTrashedFolders,
       DeleteFoldersStatement, DeleteFolders, Collect, Goto, Finish, docVars,
       PurgeSteps
  <2>12. CASE DeleteObject(r) \/ PurgeDone(r)
    BY <1>4, <1>6, <1>a, <2>0, <2>12 DEF DeleteObject, PurgeDone, Finish, docVars,
       PurgeSteps
  <2> QED
    BY <1>6, <2>1, <2>2, <2>3, <2>4, <2>5, <2>6, <2>7, <2>8, <2>9, <2>10, <2>11,
       <2>12 DEF Continue
<1>7. ASSUME ActsAlone(Boot), Cleanup
      PROVE  Effects
  <2>1. CASE \/ CollectExpired \/ DeleteExpiredFolders
             \/ DeleteObject(Boot) \/ PurgeDone(Boot)
    BY <1>4, <1>7, <1>a, <2>1 DEF CollectExpired, DeleteExpiredFolders,
       DeleteFolders, DeleteObject, PurgeDone, Collect, Goto, Finish, docVars,
       PurgeSteps
  <2>2. CASE DeleteExpiredDocuments
    <3>1. /\ step[Boot] = "delete_expired_documents"
          /\ step'[Boot] = "delete_expired_folders" /\ bucket' = bucket
          /\ DeleteDocs(ExpiredDocs) \/ UNCHANGED docVars
          /\ DocKeys(ExpiredDocs) \cup ThumbKeys(ExpiredDocs) \subseteq paths[Boot]
      BY <1>a, <2>2 DEF DeleteExpiredDocuments, Goto, KeysHeld
    <3>2. ExpiredDocs \in SUBSET Doc
      BY DEF ExpiredDocs
    <3>3. CASE DeleteDocs(ExpiredDocs)
      BY <1>5, <1>7, <1>a, <1>b, <3>1, <3>2, <3>3 DEF PurgeSteps
    <3>4. CASE UNCHANGED docVars
      BY <1>4, <1>7, <1>a, <3>1, <3>4 DEF PurgeSteps, docVars
    <3> QED
      BY <3>1, <3>3, <3>4
  <2> QED
    BY <1>7, <2>1, <2>2 DEF Cleanup
<1> QED
  BY <1>2, <1>3, <1>6, <1>7, AloneTask

LEMMA CompleteStep ==
    ASSUME TypeOK, TypeOK', TargetOK, CompleteInv, AloneNext
    PROVE  CompleteInv'
<1>1. OneTask' /\ KeysHeld'
  BY KeysStep DEF CompleteInv
<1>2. Effects /\ Left /\ LeftToDelete /\ ThumbsNamed
  BY EffectsStep DEF CompleteInv, AloneNext
<1>3. ASSUME NEW k \in bucket', k \in leftover \cup Done \cup HeldKeys
      PROVE  k \in leftover' \cup UNION {paths'[t] : t \in Task}
  BY <1>2, <1>3, HeldOrLeft DEF HeldKeys
<1>4. ASSUME NEW d \in Doc, documents'[d] = "purged", DocKey(d) \in bucket'
      PROVE  DocKey(d) \in leftover' \cup UNION {paths'[t] : t \in Task}
  <2>1. DocKey(d) \in leftover \cup Done \cup HeldKeys
    BY <1>2, <1>4 DEF Effects, Gone, LeftToDelete, HeldKeys
  <2> QED
    BY <1>3, <1>4, <2>1
<1>5. thumbnail_path' \subseteq DocRows'
  <2>1. [Next]_vars
    BY DEF AloneNext, Next, Task
  <2>2. ThumbStep
    BY <2>1, ThumbSteps
  <2> QED
    BY <1>2, <2>2 DEF ThumbStep, ThumbsNamed, DocRows, TypeOK
<1>6. ASSUME NEW d \in Doc, ThumbKey(d) \in bucket'
      PROVE  \/ d \in thumbnail_path'
             \/ ThumbKey(d) \in leftover' \cup UNION {paths'[t] : t \in Task}
             \/ \E r \in Request : step'[r] = "set_thumbnail_path" /\ target'[r] = d
  <2>1. CASE ThumbKey(d) \notin bucket
    BY <1>2, <1>6, <2>1 DEF Effects
  <2>2. CASE d \in thumbnail_path
    BY <1>2, <1>3, <1>6, <2>2 DEF Effects
  <2>3. CASE ThumbKey(d) \in leftover \cup HeldKeys
    BY <1>3, <1>6, <2>3
  <2>4. CASE \E r \in Request : step[r] = "set_thumbnail_path" /\ target[r] = d
    BY <1>2, <2>4 DEF Effects
  <2> QED
    BY <1>2, <2>1, <2>2, <2>3, <2>4 DEF ThumbsNamed, HeldKeys
<1>7. ASSUME NEW r \in Request, step'[r] = "clear_thumbnail_path"
      PROVE  {ThumbKey(target'[r])} \cap bucket' \subseteq leftover'
  BY <1>2, <1>7 DEF Effects, Left
<1>8. LeftToDelete'
  BY <1>4 DEF LeftToDelete, DocKey
<1>9. ThumbsNamed'
  BY <1>2, <1>5, <1>6, <1>7 DEF ThumbsNamed, Effects, Placed, ThumbKey
<1> QED
  BY <1>1, <1>8, <1>9 DEF CompleteInv

\* With requests that come one at a time, and whatever S3, the DELETEs of the
\* cleanup and the unique index refuse, the bucket holds neither the object nor
\* the thumbnail of a purged document between requests, but for what the purge
\* failed to delete and the thumbnails that permanent_delete_document never
\* reads (trash/handlers.rs:271-307, 315-403, 411-462, 464-540).
THEOREM PurgeIsCompleteCorrect == AloneSpec => []PurgeIsComplete
<1>1. AloneInit => CompleteInv /\ Init
  <2> SUFFICES ASSUME AloneInit
               PROVE  CompleteInv /\ Init
    OBVIOUS
  <2>1. /\ \A t \in Task : step[t] = "idle" /\ paths[t] = {}
        /\ bucket = {} /\ thumbnail_path = {}
    BY DEF AloneInit, Init
  <2>2. OneTask /\ KeysHeld
    BY <2>1 DEF OneTask, KeysHeld
  <2>3. LeftToDelete /\ ThumbsNamed
    BY <2>1 DEF LeftToDelete, ThumbsNamed, Task
  <2> QED
    BY <2>2, <2>3 DEF AloneInit, CompleteInv
<1>2. [AloneNext]_aloneVars => [Next]_vars
  BY DEF AloneNext, Next, aloneVars, Task
<1>3. TypeOK /\ TypeOK' /\ TargetOK /\ CompleteInv /\ [AloneNext]_aloneVars
      => CompleteInv'
  <2> SUFFICES ASSUME TypeOK, TypeOK', TargetOK, CompleteInv,
                      [AloneNext]_aloneVars
               PROVE  CompleteInv'
    OBVIOUS
  <2>1. CASE AloneNext
    BY <2>1, CompleteStep
  <2>2. CASE UNCHANGED aloneVars
    <3>1. /\ UNCHANGED <<documents, folder_id, trash_origin_folder_id, thumbnail_path>>
          /\ UNCHANGED <<folders, parent_id, trash_origin_parent_id, bucket>>
          /\ UNCHANGED <<step, target, paths, leftover>>
      BY <2>2 DEF aloneVars, vars
    <3>2. OneTask'
      BY <3>1 DEF CompleteInv, OneTask
    <3>3. KeysHeld'
      <4>1. FolderRows' = FolderRows /\ TrashedDocs' = TrashedDocs
            /\ ExpiredDocs' = ExpiredDocs
        BY <3>1 DEF FolderRows, TrashedDocs, ExpiredDocs
      <4>2. \A t \in Task : OriginTree(target[t])' = OriginTree(target[t])
        BY <3>1, <4>1 DEF OriginTree
      <4>3. \A t \in Task : TreeDocs(target[t])' = TreeDocs(target[t])
        BY <3>1, <4>1, <4>2 DEF TreeDocs
      <4> QED
        BY <3>1, <4>1, <4>3 DEF CompleteInv, KeysHeld, DocKeys, ThumbKeys,
           DocKey, ThumbKey
    <3>4. LeftToDelete'
      BY <3>1 DEF CompleteInv, LeftToDelete, DocKey
    <3>5. ThumbsNamed'
      BY <3>1 DEF CompleteInv, ThumbsNamed, DocRows, ThumbKey
    <3> QED
      BY <3>2, <3>3, <3>4, <3>5 DEF CompleteInv
  <2> QED
    BY <2>1, <2>2
<1>4. CompleteInv => PurgeIsComplete
  <2> SUFFICES ASSUME CompleteInv, AllIdle, NEW d \in Doc, documents[d] = "purged"
               PROVE  {DocKey(d), ThumbKey(d)} \cap bucket \subseteq leftover
    BY DEF PurgeIsComplete
  <2>1. /\ UNION {paths[t] : t \in Task} = {}
        /\ \A r \in Request : step[r] = "idle"
    BY DEF CompleteInv, KeysHeld, AllIdle, Task
  <2>2. d \notin thumbnail_path
    BY DEF CompleteInv, ThumbsNamed, DocRows, Exists, InTrash
  <2> QED
    BY <2>1, <2>2 DEF CompleteInv, LeftToDelete, ThumbsNamed
<1> QED
  BY <1>1, <1>2, <1>3, <1>4, TypeCorrect, PTL DEF AloneSpec, Spec

-----------------------------------------------------------------------------
(***************************************************************************)
(* What goes to the trash with a folder comes back with it.                *)
(***************************************************************************)

\* A tree is the least closed set.
LEMMA TreeLeast ==
    ASSUME NEW from, NEW up, NEW via, NEW S \in SUBSET Folder, from \subseteq S,
           \A h \in via : up[h] \in S => h \in S
    PROVE  Tree(from, up, via) \subseteq S
BY DEF Tree

\* Where it starts from need not be among the rows it walks.
LEMMA TreeStart ==
    ASSUME NEW from \in SUBSET Folder, NEW up, NEW via \in SUBSET Folder
    PROVE  Tree(from, up, via \cup from) \subseteq Tree(from, up, via)
<1>1. Tree(from, up, via) \in SUBSET Folder
  BY DEF Tree
<1>2. from \subseteq Tree(from, up, via)
  BY TreeFrom
<1>3. \A h \in via \cup from :
        up[h] \in Tree(from, up, via) => h \in Tree(from, up, via)
  BY <1>2, TreeClosed
<1> QED
  BY <1>1, <1>2, <1>3, TreeLeast

\* With one task at a time the cause is the folder of the one that deletes.
LEMMA CauseIsTarget ==
    ASSUME OneTask, NEW r \in Request, DeletingFolder(r)
    PROVE  Cause = target[r]
<1> DEFINE q == CHOOSE q \in Request : DeletingFolder(q)
<1>1. q \in Request /\ DeletingFolder(q)
  OBVIOUS
<1>2. q = r
  BY <1>1 DEF OneTask, Task, DeletingFolder
<1> QED
  BY <1>2 DEF Cause

\* What the history says of a folder after a step.
LEMMA RecordOfFolder ==
    ASSUME Trashed, NEW f \in Folder
    PROVE  trashedWith'[f] = IF folders'[f] \notin InTrash THEN Nil
                             ELSE IF folders[f] \notin InTrash THEN Cause
                             ELSE trashedWith[f]
BY IdsAssumption DEF Trashed

\* Below, after a step.
BelowAfter(g) ==
    Tree({g}, trash_origin_parent_id', TrashedFolders' \cup Opening')

\* A step that trashes no folder keeps Carried if it keeps the walk.
LEMMA KeepsCarried ==
    ASSUME Carried, Trashed, TrashedFolders' \subseteq TrashedFolders,
           TrashedFolders \cup Opening \subseteq TrashedFolders' \cup Opening',
           \A h \in TrashedFolders \cup Opening :
             trash_origin_parent_id[h] \in Folder
             => trash_origin_parent_id'[h] = trash_origin_parent_id[h]
    PROVE  /\ Carried'
           /\ \A f \in Folder : trashedWith'[f] \in {Nil, trashedWith[f]}
<1>1. ASSUME NEW f \in Folder
      PROVE  /\ trashedWith'[f] \in {Nil, trashedWith[f]}
             /\ trashedWith'[f] # Nil
                => folders'[f] \in InTrash /\ trashedWith'[f] = trashedWith[f]
  BY <1>1, RecordOfFolder DEF TrashedFolders
<1>2. \A g : Below(g) \subseteq BelowAfter(g)
  BY TreeGrows DEF Below, BelowAfter
<1> QED
  BY <1>1, <1>2 DEF Carried, Below, BelowAfter

-----------------------------------------------------------------------------
\* No request deletes or restores a folder.
Plain == \A r \in Request : ~DeletingFolder(r) /\ step[r] \notin RestoreSteps

LEMMA PlainOpening == Plain => Opening = {} /\ TargetPlaced
BY DEF Plain, Opening, TargetPlaced, RestoreSteps

\* The steps of all other tasks leave the folders in the trash where they are.
LEMMA KeepsCarriedPlain ==
    ASSUME CarriedInv, Trashed, OneTask', Plain, Plain',
           TrashedFolders' = TrashedFolders,
           trash_origin_parent_id' = trash_origin_parent_id
    PROVE  CarriedInv'
<1>1. (Plain => Opening = {} /\ TargetPlaced)'
  BY PlainOpening, PTL
<1> QED
  BY <1>1, PlainOpening, KeepsCarried DEF CarriedInv

\* The cascade of a purge takes with a folder all that hangs below it.
LEMMA DeleteKeepsCarried ==
    ASSUME TypeOK, FolderPlaces, CarriedInv, Trashed, OneTask', Plain, Plain',
           NEW F \in SUBSET FolderRows, DeleteFolders(F)
    PROVE  CarriedInv'
<1> DEFINE G == Cascade(F)
<1>1. G \subseteq Folder
  BY DEF Cascade, Tree
<1>2. \A h \in TrashedFolders : trash_origin_parent_id[h] \in G => h \in G
  BY TreeClosed
     DEF Cascade, FolderRows, FolderPlaces, TrashedFolders, InTrash, Exists
<1>3. /\ folders' = [f \in Folder |-> IF f \in G THEN "purged" ELSE folders[f]]
      /\ trash_origin_parent_id' =
           [f \in Folder |-> IF f \in G \/ trash_origin_parent_id[f] \in G
                             THEN Nil ELSE trash_origin_parent_id[f]]
  BY DEF DeleteFolders
<1>a. (Plain => Opening = {} /\ TargetPlaced)'
  BY PlainOpening, PTL
<1>4. Opening = {} /\ Opening' = {} /\ TargetPlaced'
  BY <1>a, PlainOpening
<1> HIDE DEF G
<1>5. TrashedFolders' = TrashedFolders \ G
  BY <1>1, <1>3 DEF TrashedFolders, InTrash, TypeOK
<1>6. ASSUME NEW f \in Folder, trashedWith'[f] # Nil
      PROVE  /\ folders'[f] \in InTrash
             /\ trashedWith'[f] \in Folder
             /\ f \in BelowAfter(trashedWith'[f])
  <2> DEFINE g == trashedWith[f]
  <2>1. /\ folders'[f] \in InTrash /\ f \notin G /\ folders[f] \in InTrash
        /\ trashedWith'[f] = g
    BY <1>3, <1>6, RecordOfFolder DEF InTrash, TypeOK
  <2>2. g \in Folder /\ f \in Tree({g}, trash_origin_parent_id, TrashedFolders)
    BY <1>4, <1>6, <2>1 DEF CarriedInv, Carried, Below
  <2>3. g \notin G
    <3> SUFFICES ASSUME g \in G PROVE FALSE
      OBVIOUS
    <3>1. f \in G
      BY <1>1, <1>2, <2>2, TreeLeast
    <3> QED
      BY <2>1, <3>1
  <2>4. ASSUME NEW S \in SUBSET Folder, g \in S,
               \A h \in TrashedFolders' : trash_origin_parent_id'[h] \in S => h \in S
        PROVE  f \in S
    <3>1. S \cup G \in SUBSET Folder /\ {g} \subseteq S \cup G
      BY <1>1, <2>4
    <3>2. ASSUME NEW h \in TrashedFolders, trash_origin_parent_id[h] \in S \cup G
          PROVE  h \in S \cup G
      BY <1>2, <1>3, <1>5, <2>4, <3>2 DEF TrashedFolders
    <3>3. f \in S \cup G
      BY <3>1, <3>2, <2>2, TreeLeast
    <3> QED
      BY <3>3, <2>1
  <2>5. f \in BelowAfter(g)
    BY <1>4, <2>4 DEF BelowAfter, Tree
  <2> QED
    BY <2>1, <2>2, <2>5
<1> QED
  BY <1>4, <1>6 DEF CarriedInv, Carried, Below, BelowAfter

\* The statements of delete_folder move a folder below the one it is for.
LEMMA TrashKeepsCarried ==
    ASSUME TypeOK, TypeOK', FolderPlaces, CarriedInv, Trashed,
           NEW r \in Request, DeletingFolder(r), target[r] \in Folder,
           Opening = {}, Opening' = {},
           NEW F \in SUBSET FolderRows, TrashFolders(F),
           \A f \in F : f \in BelowAfter(target[r])
    PROVE  Carried'
<1>1. TrashedFolders' = TrashedFolders \cup F
  BY DEF TrashFolders, TrashedFolders, InTrash, TypeOK, FolderRows
<1>2. \A h \in TrashedFolders : trash_origin_parent_id'[h] = trash_origin_parent_id[h]
  BY DEF TrashFolders, FolderPlaces, TrashedFolders
<1>3. \A g : Below(g) \subseteq BelowAfter(g)
  BY <1>1, <1>2, TreeGrows DEF Below, BelowAfter
<1>4. Cause = target[r]
  BY CauseIsTarget DEF CarriedInv
<1>5. ASSUME NEW f \in Folder, trashedWith'[f] # Nil
      PROVE  /\ folders'[f] \in InTrash
             /\ trashedWith'[f] \in Folder
             /\ f \in BelowAfter(trashedWith'[f])
  <2>1. folders'[f] \in InTrash
    BY <1>5, RecordOfFolder
  <2>2. CASE folders[f] \in InTrash
    BY <2>1, <2>2, <1>3, <1>5, RecordOfFolder DEF CarriedInv, Carried
  <2>3. CASE folders[f] \notin InTrash
    <3>1. f \in F /\ trashedWith'[f] = target[r]
      BY <2>1, <2>3, <1>1, <1>4, RecordOfFolder DEF TrashedFolders
    <3> QED
      BY <2>1, <3>1
  <2> QED
    BY <2>2, <2>3
<1> QED
  BY <1>5 DEF Carried, Below, BelowAfter

-----------------------------------------------------------------------------
\* A task that is alone, before and after its step.
LEMMA StaysAlone ==
    ASSUME TypeOK, OneTask, NEW t \in Task, AllIdle \/ step[t] # "idle", NEW s,
           step' = [step EXCEPT ![t] = s]
    PROVE  OneTask' /\ \A u \in Task : u # t => step[u] = "idle" /\ step'[u] = "idle"
BY DEF TypeOK, OneTask, AllIdle

\* And neither before nor after it does it delete or restore a folder.
LEMMA StaysPlain ==
    ASSUME TypeOK, OneTask, NEW t \in Task, AllIdle \/ step[t] # "idle",
           NEW s \in Step \ ({"trash_folder", "trash_subfolders",
                              "trash_tree_documents"} \cup RestoreSteps),
           step[t] \notin {"trash_folder", "trash_subfolders",
                          "trash_tree_documents"} \cup RestoreSteps,
           step' = [step EXCEPT ![t] = s]
    PROVE  OneTask' /\ Plain /\ Plain'
<1>1. OneTask' /\ \A u \in Task : u # t => step[u] = "idle" /\ step'[u] = "idle"
  BY StaysAlone
<1>2. step'[t] = s
  BY DEF TypeOK
<1> QED
  BY <1>1, <1>2 DEF Plain, DeletingFolder, RestoreSteps, Task

\* Every action but those of delete_folder and restore_folder and the DELETEs
\* of folders.
OtherAction ==
    \/ AllIdle /\ (OneStatement \/ Expire \/ Restart)
    \/ /\ AllIdle
       /\ \E r \in Request :
            \/ \E d \in Doc : \/ UploadDocument(r, d) \/ UploadThumbnail(r, d)
                              \/ DeleteThumbnail(r, d)
                              \/ PermanentDeleteDocument(r, d)
            \/ \E f \in Folder : PermanentDeleteFolder(r, f)
            \/ EmptyTrash(r)
    \/ \E r \in Request :
         \/ \E f \in Folder \cup {Nil} : InsertDocument(r, f)
         \/ PutThumbnail(r) \/ SetThumbnailPath(r)
         \/ DeleteThumbnailObject(r) \/ ClearThumbnailPath(r)
         \/ DeleteDocumentRow(r)
         \/ CollectFolderThumbnails(r) \/ DeleteTreeDocuments(r)
         \/ CollectThumbnails(r) \/ DeleteTrashedDocuments(r)
    \/ \E t \in Task : DeleteObject(t) \/ PurgeDone(t)
    \/ CollectExpired \/ DeleteExpiredDocuments

LEMMA PlainStep ==
    ASSUME TypeOK, OneTask, Trashed, OtherAction
    PROVE  /\ OneTask' /\ Plain /\ Plain'
           /\ TrashedFolders' = TrashedFolders
           /\ trash_origin_parent_id' = trash_origin_parent_id
<1> DEFINE Kept == /\ OneTask' /\ Plain /\ Plain'
                   /\ TrashedFolders' = TrashedFolders
                   /\ trash_origin_parent_id' = trash_origin_parent_id
<1> USE BootAssumption DEF docVars, folderVars, taskVars, TrashedFolders
<1>a. Request \subseteq Task /\ Boot \in Task
  BY DEF Task
<1>i. AllIdle => Plain /\ \A r \in Request : step[r] = "idle"
  BY DEF AllIdle, Plain, DeletingFolder, RestoreSteps, Task
<1>u. ASSUME AllIdle, UNCHANGED taskVars PROVE OneTask' /\ Plain /\ Plain'
  BY <1>u, <1>i DEF Plain, DeletingFolder, OneTask
<1>1. ASSUME AllIdle, NEW f \in Folder, NEW p \in Folder \cup {Nil}, CreateFolder(f, p)
      PROVE  Kept
  BY <1>1, <1>u DEF CreateFolder, TypeOK, InTrash
<1>2. ASSUME AllIdle, NEW d \in Doc, DeleteDocument(d)
      PROVE  Kept
  BY <1>2, <1>u DEF DeleteDocument
<1>3. ASSUME AllIdle, NEW f \in Folder, DeleteFolderDocuments(f)
      PROVE  Kept
  BY <1>3, <1>u DEF DeleteFolderDocuments
<1>4. ASSUME AllIdle, NEW d \in Doc, RestoreDocument(d)
      PROVE  Kept
  BY <1>4, <1>u DEF RestoreDocument
<1>5. ASSUME AllIdle, Expire
      PROVE  Kept
  BY <1>5, <1>u DEF Expire, TypeOK, InTrash
<1>6. ASSUME AllIdle, Restart
      PROVE  Kept
  <2>1. step' = [step EXCEPT ![Boot] = "collect_expired"]
    BY <1>6 DEF Restart, AllIdle, TypeOK, Task
  <2>2. OneTask' /\ Plain /\ Plain'
    BY <2>1, <1>6, <1>a, StaysPlain
       DEF AllIdle, Step, RestoreSteps, PurgeSteps
  <2> QED
    BY <2>2, <1>6 DEF Restart
<1>7. ASSUME AllIdle, NEW r \in Request, NEW d \in Doc, UploadDocument(r, d)
      PROVE  Kept
  <2>1. step' = [step EXCEPT ![r] = "insert_document"]
    BY <1>7 DEF UploadDocument, Begin
  <2>2. OneTask' /\ Plain /\ Plain'
    BY <2>1, <1>7, <1>a, <1>i, StaysPlain
       DEF Step, RestoreSteps, PurgeSteps, ThumbnailSteps
  <2> QED
    BY <2>2, <1>7 DEF UploadDocument
<1>8. ASSUME AllIdle, NEW r \in Request, NEW d \in Doc, UploadThumbnail(r, d)
      PROVE  Kept
  <2>1. step' = [step EXCEPT ![r] = "put_thumbnail"]
    BY <1>8 DEF UploadThumbnail, Begin
  <2>2. OneTask' /\ Plain /\ Plain'
    BY <2>1, <1>8, <1>a, <1>i, StaysPlain
       DEF Step, RestoreSteps, PurgeSteps, ThumbnailSteps
  <2> QED
    BY <2>2, <1>8 DEF UploadThumbnail
<1>9. ASSUME AllIdle, NEW r \in Request, NEW d \in Doc, DeleteThumbnail(r, d)
      PROVE  Kept
  <2>1. step' = [step EXCEPT ![r] = "delete_thumbnail_object"]
    BY <1>9 DEF DeleteThumbnail, Begin
  <2>2. OneTask' /\ Plain /\ Plain'
    BY <2>1, <1>9, <1>a, <1>i, StaysPlain
       DEF Step, RestoreSteps, PurgeSteps, ThumbnailSteps
  <2> QED
    BY <2>2, <1>9 DEF DeleteThumbnail
<1>10. ASSUME AllIdle, NEW r \in Request, NEW d \in Doc, PermanentDeleteDocument(r, d)
      PROVE  Kept
  <2>1. step' = [step EXCEPT ![r] = "delete_document_row"]
    BY <1>10 DEF PermanentDeleteDocument, Begin
  <2>2. OneTask' /\ Plain /\ Plain'
    BY <2>1, <1>10, <1>a, <1>i, StaysPlain
       DEF Step, RestoreSteps, PurgeSteps, ThumbnailSteps
  <2> QED
    BY <2>2, <1>10 DEF PermanentDeleteDocument
<1>11. ASSUME AllIdle, NEW r \in Request, NEW f \in Folder, PermanentDeleteFolder(r, f)
      PROVE  Kept
  <2>1. step' = [step EXCEPT ![r] = "collect_folder_thumbnails"]
    BY <1>11 DEF PermanentDeleteFolder, Begin
  <2>2. OneTask' /\ Plain /\ Plain'
    BY <2>1, <1>11, <1>a, <1>i, StaysPlain
       DEF Step, RestoreSteps, PurgeSteps, ThumbnailSteps
  <2> QED
    BY <2>2, <1>11 DEF PermanentDeleteFolder
<1>12. ASSUME AllIdle, NEW r \in Request, EmptyTrash(r)
      PROVE  Kept
  <2>1. step' = [step EXCEPT ![r] = "collect_thumbnails"]
    BY <1>12 DEF EmptyTrash, Begin
  <2>2. OneTask' /\ Plain /\ Plain'
    BY <2>1, <1>12, <1>a, <1>i, StaysPlain
       DEF Step, RestoreSteps, PurgeSteps, ThumbnailSteps
  <2> QED
    BY <2>2, <1>12 DEF EmptyTrash
<1>13. ASSUME NEW r \in Request, NEW f \in Folder \cup {Nil}, InsertDocument(r, f)
      PROVE  Kept
  <2>1. step[r] = "insert_document" /\ step' = [step EXCEPT ![r] = "idle"]
    BY <1>13 DEF InsertDocument, Finish
  <2>2. OneTask' /\ Plain /\ Plain'
    BY <2>1, <1>13, <1>a, StaysPlain
       DEF Step, RestoreSteps, PurgeSteps, ThumbnailSteps
  <2> QED
    BY <2>2, <1>13 DEF InsertDocument
<1>14. ASSUME NEW r \in Request, PutThumbnail(r)
      PROVE  Kept
  <2>1. step[r] = "put_thumbnail" /\ step' = [step EXCEPT ![r] = "set_thumbnail_path"]
    BY <1>14 DEF PutThumbnail, Goto
  <2>2. OneTask' /\ Plain /\ Plain'
    BY <2>1, <1>14, <1>a, StaysPlain
       DEF Step, RestoreSteps, PurgeSteps, ThumbnailSteps
  <2> QED
    BY <2>2, <1>14 DEF PutThumbnail
<1>15. ASSUME NEW r \in Request, SetThumbnailPath(r)
      PROVE  Kept
  <2>1. step[r] = "set_thumbnail_path" /\ step' = [step EXCEPT ![r] = "idle"]
    BY <1>15 DEF SetThumbnailPath, Finish
  <2>2. OneTask' /\ Plain /\ Plain'
    BY <2>1, <1>15, <1>a, StaysPlain
       DEF Step, RestoreSteps, PurgeSteps, ThumbnailSteps
  <2> QED
    BY <2>2, <1>15 DEF SetThumbnailPath
<1>16. ASSUME NEW r \in Request, DeleteThumbnailObject(r)
      PROVE  Kept
  <2>1. step[r] = "delete_thumbnail_object" /\ step' = [step EXCEPT ![r] = "clear_thumbnail_path"]
    BY <1>16 DEF DeleteThumbnailObject, Goto
  <2>2. OneTask' /\ Plain /\ Plain'
    BY <2>1, <1>16, <1>a, StaysPlain
       DEF Step, RestoreSteps, PurgeSteps, ThumbnailSteps
  <2> QED
    BY <2>2, <1>16 DEF DeleteThumbnailObject
<1>17. ASSUME NEW r \in Request, ClearThumbnailPath(r)
      PROVE  Kept
  <2>1. step[r] = "clear_thumbnail_path" /\ step' = [step EXCEPT ![r] = "idle"]
    BY <1>17 DEF ClearThumbnailPath, Finish
  <2>2. OneTask' /\ Plain /\ Plain'
    BY <2>1, <1>17, <1>a, StaysPlain
       DEF Step, RestoreSteps, PurgeSteps, ThumbnailSteps
  <2> QED
    BY <2>2, <1>17 DEF ClearThumbnailPath
<1>18. ASSUME NEW r \in Request, DeleteDocumentRow(r)
      PROVE  Kept
  <2>1. step[r] = "delete_document_row" /\ step' = [step EXCEPT ![r] = "delete_objects"]
    BY <1>18 DEF DeleteDocumentRow, Goto
  <2>2. OneTask' /\ Plain /\ Plain'
    BY <2>1, <1>18, <1>a, StaysPlain
       DEF Step, RestoreSteps, PurgeSteps, ThumbnailSteps
  <2> QED
    BY <2>2, <1>18 DEF DeleteDocumentRow
<1>19. ASSUME NEW r \in Request, CollectFolderThumbnails(r)
      PROVE  Kept
  <2>1. step[r] = "collect_folder_thumbnails" /\ step' = [step EXCEPT ![r] = "delete_tree_documents"]
    BY <1>19 DEF CollectFolderThumbnails, Collect
  <2>2. OneTask' /\ Plain /\ Plain'
    BY <2>1, <1>19, <1>a, StaysPlain
       DEF Step, RestoreSteps, PurgeSteps, ThumbnailSteps
  <2> QED
    BY <2>2, <1>19 DEF CollectFolderThumbnails
<1>20. ASSUME NEW r \in Request, DeleteTreeDocuments(r)
      PROVE  Kept
  <2>1. step[r] = "delete_tree_documents" /\ step' = [step EXCEPT ![r] = "delete_tree_folders"]
    BY <1>20 DEF DeleteTreeDocuments, Goto
  <2>2. OneTask' /\ Plain /\ Plain'
    BY <2>1, <1>20, <1>a, StaysPlain
       DEF Step, RestoreSteps, PurgeSteps, ThumbnailSteps
  <2> QED
    BY <2>2, <1>20 DEF DeleteTreeDocuments
<1>21. ASSUME NEW r \in Request, CollectThumbnails(r)
      PROVE  Kept
  <2>1. step[r] = "collect_thumbnails" /\ step' = [step EXCEPT ![r] = "delete_trashed_documents"]
    BY <1>21 DEF CollectThumbnails, Collect
  <2>2. OneTask' /\ Plain /\ Plain'
    BY <2>1, <1>21, <1>a, StaysPlain
       DEF Step, RestoreSteps, PurgeSteps, ThumbnailSteps
  <2> QED
    BY <2>2, <1>21 DEF CollectThumbnails
<1>22. ASSUME NEW r \in Request, DeleteTrashedDocuments(r)
      PROVE  Kept
  <2>1. step[r] = "delete_trashed_documents" /\ step' = [step EXCEPT ![r] = "delete_trashed_folders"]
    BY <1>22 DEF DeleteTrashedDocuments, Goto
  <2>2. OneTask' /\ Plain /\ Plain'
    BY <2>1, <1>22, <1>a, StaysPlain
       DEF Step, RestoreSteps, PurgeSteps, ThumbnailSteps
  <2> QED
    BY <2>2, <1>22 DEF DeleteTrashedDocuments
<1>23. ASSUME NEW t \in Task, DeleteObject(t)
      PROVE  Kept
  <2>1. step[t] = "delete_objects" /\ step' = step
    BY <1>23 DEF DeleteObject
  <2>2. step' = [step EXCEPT ![t] = "delete_objects"]
    BY <2>1 DEF TypeOK
  <2>3. OneTask' /\ Plain /\ Plain'
    BY <2>1, <2>2, StaysPlain DEF Step, RestoreSteps, PurgeSteps
  <2> QED
    BY <2>3, <1>23 DEF DeleteObject
<1>24. ASSUME NEW t \in Task, PurgeDone(t)
      PROVE  Kept
  <2>1. step[t] = "delete_objects" /\ step' = [step EXCEPT ![t] = "idle"]
    BY <1>24 DEF PurgeDone, Finish
  <2>2. OneTask' /\ Plain /\ Plain'
    BY <2>1, <1>24, <1>a, StaysPlain
       DEF Step, RestoreSteps, PurgeSteps, ThumbnailSteps
  <2> QED
    BY <2>2, <1>24 DEF PurgeDone
<1>25. ASSUME CollectExpired
      PROVE  Kept
  <2>1. step[Boot] = "collect_expired" /\ step' = [step EXCEPT ![Boot] = "delete_expired_documents"]
    BY <1>25 DEF CollectExpired, Collect
  <2>2. OneTask' /\ Plain /\ Plain'
    BY <2>1, <1>25, <1>a, StaysPlain
       DEF Step, RestoreSteps, PurgeSteps, ThumbnailSteps
  <2> QED
    BY <2>2, <1>25 DEF CollectExpired
<1>26. ASSUME DeleteExpiredDocuments
      PROVE  Kept
  <2>1. step[Boot] = "delete_expired_documents" /\ step' = [step EXCEPT ![Boot] = "delete_expired_folders"]
    BY <1>26 DEF DeleteExpiredDocuments, Goto
  <2>2. OneTask' /\ Plain /\ Plain'
    BY <2>1, <1>26, <1>a, StaysPlain
       DEF Step, RestoreSteps, PurgeSteps, ThumbnailSteps
  <2> QED
    BY <2>2, <1>26 DEF DeleteExpiredDocuments
<1> QED
  BY <1>1, <1>2, <1>3, <1>4, <1>5, <1>6, <1>7, <1>8, <1>9, <1>10, <1>11, <1>12, <1>13, <1>14, <1>15, <1>16, <1>17, <1>18, <1>19, <1>20, <1>21, <1>22, <1>23, <1>24, <1>25, <1>26 DEF OtherAction, OneStatement

-----------------------------------------------------------------------------

LEMMA DeleteFolderStep ==
    ASSUME TypeOK, CarriedInv, Trashed, AllIdle, NEW r \in Request, NEW f \in Folder,
           DeleteFolder(r, f)
    PROVE  CarriedInv'
<1>1. /\ step' = [step EXCEPT ![r] = "trash_folder"]
      /\ target' = [target EXCEPT ![r] = f]
      /\ UNCHANGED folderVars /\ folders[f] = "active"
  BY DEF DeleteFolder, Begin
<1>2. OneTask' /\ \A u \in Task : u # r => step[u] = "idle" /\ step'[u] = "idle"
  BY <1>1, StaysAlone DEF CarriedInv, Task
<1>3. step'[r] = "trash_folder" /\ target'[r] = f
  BY <1>1 DEF TypeOK, Task
<1>4. Opening = {} /\ Opening' = {}
  BY <1>2, <1>3 DEF Opening, Task, AllIdle
<1>5. Carried'
  BY <1>1, <1>4, KeepsCarried DEF CarriedInv, TrashedFolders, folderVars
<1>6. TargetPlaced'
  BY <1>1, <1>2, <1>3
     DEF TargetPlaced, DeletingFolder, RestoreSteps, Task, FolderRows, Exists,
         folderVars
<1> QED
  BY <1>2, <1>5, <1>6 DEF CarriedInv

LEMMA TrashFolderStep ==
    ASSUME TypeOK, TypeOK', TargetOK, FolderPlaces, CarriedInv, Trashed,
           NEW r \in Request, TrashFolder(r)
    PROVE  CarriedInv'
<1> DEFINE g == target[r]
<1>1. /\ step[r] = "trash_folder" /\ step' = [step EXCEPT ![r] = "trash_subfolders"]
      /\ TrashFolders({g} \cap FolderRows) /\ target' = target
  BY DEF TrashFolder, Goto
<1>2. OneTask' /\ \A u \in Task : u # r => step[u] = "idle" /\ step'[u] = "idle"
  BY <1>1, StaysAlone DEF CarriedInv, Task
<1>3. step'[r] = "trash_subfolders" /\ g \in Folder
  BY <1>1 DEF TypeOK, TargetOK, FolderSteps, Task
<1>4. Opening = {} /\ Opening' = {}
  BY <1>1, <1>2, <1>3 DEF Opening, Task
<1>5. \A f \in {g} \cap FolderRows : f \in BelowAfter(g)
  BY <1>3, TreeFrom DEF BelowAfter
<1>6. Carried'
  BY <1>1, <1>3, <1>4, <1>5, TrashKeepsCarried DEF DeletingFolder
<1>7. g \in FolderRows'
  BY <1>1, <1>3
     DEF CarriedInv, TargetPlaced, DeletingFolder, TrashFolders, FolderRows, Exists,
         InTrash
<1>8. TargetPlaced'
  BY <1>1, <1>2, <1>3, <1>7 DEF TargetPlaced, DeletingFolder, RestoreSteps, Task
<1> QED
  BY <1>2, <1>6, <1>8 DEF CarriedInv

LEMMA TrashSubfoldersStep ==
    ASSUME TypeOK, TypeOK', TargetOK, FolderPlaces, CarriedInv, Trashed,
           NEW r \in Request, TrashSubfolders(r)
    PROVE  CarriedInv'
<1> DEFINE g == target[r]
           T == Tree({g} \cap FolderRows, parent_id, ActiveFolders)
<1>1. /\ step[r] = "trash_subfolders"
      /\ step' = [step EXCEPT ![r] = "trash_tree_documents"]
      /\ TrashFolders(T \ {g}) /\ target' = target
  BY DEF TrashSubfolders, Goto
<1>2. OneTask' /\ \A u \in Task : u # r => step[u] = "idle" /\ step'[u] = "idle"
  BY <1>1, StaysAlone DEF CarriedInv, Task
<1>3. step'[r] = "trash_tree_documents" /\ g \in FolderRows /\ g \in Folder
  BY <1>1 DEF TypeOK, CarriedInv, TargetPlaced, DeletingFolder, Task, FolderRows
<1>4. Opening = {} /\ Opening' = {}
  BY <1>1, <1>2, <1>3 DEF Opening, Task
<1>5. T \subseteq Folder /\ T \ {g} \subseteq ActiveFolders /\ g \in T
  BY <1>3, TreeBound, TreeFrom DEF FolderRows, ActiveFolders
<1>6. \A h \in ActiveFolders : parent_id[h] \in T => h \in T
  BY TreeClosed DEF ActiveFolders
<1> HIDE DEF T
<1>7. /\ T \ {g} \subseteq TrashedFolders'
      /\ \A h \in T \ {g} : trash_origin_parent_id'[h] = parent_id[h]
  BY <1>1, <1>5 DEF TrashFolders, TrashedFolders, InTrash
<1>8. ASSUME NEW S \in SUBSET Folder, g \in S,
             \A h \in TrashedFolders' : trash_origin_parent_id'[h] \in S => h \in S
      PROVE  T \subseteq S
  <2>1. S \cap T \in SUBSET Folder /\ {g} \cap FolderRows \subseteq S \cap T
    BY <1>5, <1>8
  <2>2. \A h \in ActiveFolders : parent_id[h] \in S \cap T => h \in S \cap T
    BY <1>6, <1>7, <1>8
  <2>3. Tree({g} \cap FolderRows, parent_id, ActiveFolders) \subseteq S \cap T
    BY <2>1, <2>2, TreeLeast
  <2> QED
    BY <2>3 DEF T
<1>9. \A f \in T \ {g} : f \in BelowAfter(g)
  BY <1>4, <1>5, <1>8 DEF BelowAfter, Tree
<1>10. T \ {g} \in SUBSET FolderRows
  BY <1>5 DEF ActiveFolders, FolderRows, Exists
<1>11. Carried'
  BY <1>1, <1>3, <1>4, <1>9, <1>10, TrashKeepsCarried DEF DeletingFolder
<1>12. g \in FolderRows'
  BY <1>1, <1>3 DEF TrashFolders, FolderRows, Exists, InTrash
<1>13. TargetPlaced'
  BY <1>1, <1>2, <1>3, <1>12 DEF TargetPlaced, DeletingFolder, RestoreSteps, Task
<1> QED
  BY <1>2, <1>11, <1>13 DEF CarriedInv

LEMMA TrashTreeDocumentsStep ==
    ASSUME TypeOK, CarriedInv, Trashed, NEW r \in Request, TrashTreeDocuments(r)
    PROVE  CarriedInv'
<1>1. /\ step[r] = "trash_tree_documents" /\ step' = [step EXCEPT ![r] = "idle"]
      /\ UNCHANGED folderVars
  BY DEF TrashTreeDocuments, Finish
<1>2. OneTask' /\ \A u \in Task : u # r => step[u] = "idle" /\ step'[u] = "idle"
  BY <1>1, StaysAlone DEF CarriedInv, Task
<1>3. step'[r] = "idle"
  BY <1>1 DEF TypeOK, Task
<1>4. Opening = {} /\ Opening' = {} /\ TargetPlaced'
  BY <1>1, <1>2, <1>3
     DEF Opening, TargetPlaced, DeletingFolder, RestoreSteps, Task
<1> QED
  BY <1>1, <1>2, <1>4, KeepsCarried DEF CarriedInv, TrashedFolders, folderVars

LEMMA RestoreFolderStep ==
    ASSUME TypeOK, CarriedInv, Trashed, AllIdle, NEW r \in Request, NEW f \in Folder,
           RestoreFolder(r, f)
    PROVE  CarriedInv'
<1>1. /\ step' = [step EXCEPT ![r] = "restore_documents"]
      /\ target' = [target EXCEPT ![r] = f]
      /\ RestoreFolders({f}) /\ folders[f] \in InTrash
  BY DEF RestoreFolder, Begin
<1>2. OneTask' /\ \A u \in Task : u # r => step[u] = "idle" /\ step'[u] = "idle"
  BY <1>1, StaysAlone DEF CarriedInv, Task
<1>3. step'[r] = "restore_documents" /\ target'[r] = f
  BY <1>1 DEF TypeOK, Task
<1>4. Opening = {} /\ Opening' = {f}
  BY <1>2, <1>3 DEF Opening, Task, AllIdle
<1>5. TrashedFolders' = TrashedFolders \ {f}
  BY <1>1 DEF RestoreFolders, TrashedFolders, InTrash
<1>6. Carried'
  BY <1>1, <1>4, <1>5, KeepsCarried DEF CarriedInv, RestoreFolders
<1>7. TargetPlaced'
  BY <1>2, <1>3, <1>5 DEF TargetPlaced, DeletingFolder, RestoreSteps, Task
<1> QED
  BY <1>2, <1>6, <1>7 DEF CarriedInv

\* The unique index does not stop a restore when the names differ.
LEMMA RestoreDocumentsStep ==
    ASSUME \A d, e \in Doc : DocName[d] = DocName[e] => d = e,
           TypeOK, CarriedInv, Trashed, NEW r \in Request, RestoreDocuments(r)
    PROVE  CarriedInv'
<1>1. \A D : CanRestore(D)
  BY DEF CanRestore, UniqueNames
<1>2. /\ step[r] = "restore_documents"
      /\ step' = [step EXCEPT ![r] = "restore_subfolders"]
      /\ target' = target /\ UNCHANGED folderVars
  BY <1>1 DEF RestoreDocuments, Goto
<1>3. OneTask' /\ \A u \in Task : u # r => step[u] = "idle" /\ step'[u] = "idle"
  BY <1>2, StaysAlone DEF CarriedInv, Task
<1>4. step'[r] = "restore_subfolders"
  BY <1>2 DEF TypeOK, Task
<1>5. Opening' = Opening /\ TrashedFolders' = TrashedFolders
  BY <1>2, <1>3, <1>4 DEF Opening, Task, TrashedFolders, folderVars
<1>6. Carried'
  BY <1>2, <1>5, KeepsCarried DEF CarriedInv, folderVars
<1>7. TargetPlaced'
  BY <1>2, <1>3, <1>4, <1>5
     DEF CarriedInv, TargetPlaced, DeletingFolder, RestoreSteps, Task
<1> QED
  BY <1>3, <1>6, <1>7 DEF CarriedInv

LEMMA RestoreSubfoldersStep ==
    ASSUME TypeOK, TargetOK, CarriedInv, Trashed, NEW r \in Request,
           RestoreSubfolders(r)
    PROVE  CarriedInv'
<1> DEFINE g == target[r]
           T == Tree({g}, trash_origin_parent_id, TrashedFolders)
<1>1. /\ step[r] = "restore_subfolders"
      /\ step' = [step EXCEPT ![r] = "restore_subfolder_documents"]
      /\ RestoreFolders(T \ {g}) /\ target' = target
  BY DEF RestoreSubfolders, Goto
<1>2. OneTask' /\ \A u \in Task : u # r => step[u] = "idle" /\ step'[u] = "idle"
  BY <1>1, StaysAlone DEF CarriedInv, Task
<1>3. /\ step'[r] = "restore_subfolder_documents" /\ g \in Folder
      /\ g \notin TrashedFolders
  BY <1>1
     DEF TypeOK, TargetOK, FolderSteps, RestoreSteps, CarriedInv, TargetPlaced, Task
<1>4. Opening = {g} /\ Opening' = {}
  BY <1>1, <1>2, <1>3 DEF Opening, Task
<1>5. T \subseteq Folder /\ g \in T
  BY <1>3, TreeFrom DEF Tree
<1>6. \A h \in TrashedFolders : trash_origin_parent_id[h] \in T => h \in T
  BY TreeClosed DEF TrashedFolders
<1>7. Below(g) \subseteq T
  BY <1>3, <1>4, TreeStart DEF Below, TrashedFolders
<1> HIDE DEF T
<1>8. TrashedFolders' = TrashedFolders \ T
  BY <1>1, <1>3, <1>5 DEF RestoreFolders, TrashedFolders, InTrash
<1>9. trash_origin_parent_id' = trash_origin_parent_id
  BY <1>1 DEF RestoreFolders
<1>10. ASSUME NEW f \in Folder, trashedWith'[f] # Nil
       PROVE  /\ folders'[f] \in InTrash
              /\ f \in TrashedFolders /\ f \notin T
              /\ trashedWith'[f] = trashedWith[f]
  BY <1>8, <1>10, RecordOfFolder DEF TrashedFolders
<1>11. ASSUME NEW f \in Folder, trashedWith'[f] # Nil
       PROVE  /\ folders'[f] \in InTrash
              /\ trashedWith'[f] \in Folder
              /\ f \in BelowAfter(trashedWith'[f])
  <2> DEFINE k == trashedWith[f]
  <2>1. /\ trashedWith'[f] = k /\ f \notin T /\ k \in Folder /\ f \in Below(k)
        /\ folders'[f] \in InTrash
    BY <1>10, <1>11 DEF CarriedInv, Carried
  <2>2. ASSUME NEW S \in SUBSET Folder, k \in S,
               \A h \in TrashedFolders' : trash_origin_parent_id'[h] \in S => h \in S
        PROVE  f \in S
    <3>1. S \cup T \in SUBSET Folder /\ {k} \subseteq S \cup T
      BY <1>5, <2>2
    <3>2. \A h \in TrashedFolders \cup Opening :
            trash_origin_parent_id[h] \in S \cup T => h \in S \cup T
      BY <1>4, <1>5, <1>6, <1>8, <1>9, <2>2
    <3>3. f \in S \cup T
      BY <3>1, <3>2, <2>1, TreeLeast DEF Below
    <3> QED
      BY <3>3, <2>1
  <2>3. f \in BelowAfter(k)
    BY <1>4, <2>2 DEF BelowAfter, Tree
  <2> QED
    BY <2>1, <2>3
<1>12. Carried'
  BY <1>11 DEF Carried, Below, BelowAfter
<1>13. \A f \in Folder : trashedWith'[f] # g
  BY <1>3, <1>7, <1>10, NilAssumption DEF CarriedInv, Carried
<1>14. TargetPlaced'
  BY <1>1, <1>2, <1>3, <1>8, <1>13
     DEF TargetPlaced, DeletingFolder, RestoreSteps, Task
<1> QED
  BY <1>2, <1>12, <1>14 DEF CarriedInv

LEMMA RestoreSubfolderDocumentsStep ==
    ASSUME TypeOK, CarriedInv, Trashed, NEW r \in Request,
           RestoreSubfolderDocuments(r)
    PROVE  CarriedInv'
<1>1. /\ step[r] = "restore_subfolder_documents"
      /\ step' = [step EXCEPT ![r] = "idle"] /\ UNCHANGED folderVars
  BY DEF RestoreSubfolderDocuments, Finish
<1>2. OneTask' /\ \A u \in Task : u # r => step[u] = "idle" /\ step'[u] = "idle"
  BY <1>1, StaysAlone DEF CarriedInv, Task
<1>3. step'[r] = "idle"
  BY <1>1 DEF TypeOK, Task
<1>4. Opening = {} /\ Opening' = {} /\ TargetPlaced'
  BY <1>1, <1>2, <1>3
     DEF Opening, TargetPlaced, DeletingFolder, RestoreSteps, Task
<1> QED
  BY <1>1, <1>2, <1>4, KeepsCarried DEF CarriedInv, TrashedFolders, folderVars

\* The DELETEs of folders, refused or not.
LEMMA PurgeFoldersStep ==
    ASSUME TypeOK, TargetOK, FolderPlaces, CarriedInv, Trashed,
           \/ \E r \in Request : DeleteTreeFolders(r) \/ DeleteTrashedFolders(r)
           \/ DeleteExpiredFolders
    PROVE  CarriedInv'
<1>1. ASSUME NEW t \in Task, NEW s \in {"delete_objects", "idle"},
             step[t] \in {"delete_tree_folders", "delete_trashed_folders",
                          "delete_expired_folders"},
             step' = [step EXCEPT ![t] = s],
             NEW F \in SUBSET FolderRows,
             DeleteFolders(F) \/ UNCHANGED folderVars
      PROVE  CarriedInv'
  <2>1. OneTask' /\ Plain /\ Plain'
    BY <1>1, StaysPlain DEF CarriedInv, Step, RestoreSteps, PurgeSteps
  <2>2. CASE DeleteFolders(F)
    BY <2>1, <2>2, DeleteKeepsCarried
  <2>3. CASE UNCHANGED folderVars
    BY <2>1, <2>3, KeepsCarriedPlain DEF TrashedFolders, folderVars
  <2> QED
    BY <1>1, <2>2, <2>3
<1>2. ASSUME NEW r \in Request, DeleteTreeFolders(r)
      PROVE  CarriedInv'
  <2>1. OriginTree(target[r]) \subseteq FolderRows
    BY TreeBound DEF OriginTree, FolderRows
  <2> QED
    BY <1>1, <1>2, <2>1
       DEF DeleteTreeFolders, DeleteFoldersStatement, Goto, Finish, Task
<1>3. ASSUME NEW r \in Request, DeleteTrashedFolders(r)
      PROVE  CarriedInv'
  <2>1. TrashedFolders \subseteq FolderRows
    BY DEF TrashedFolders, FolderRows, Exists
  <2> QED
    BY <1>1, <1>3, <2>1
       DEF DeleteTrashedFolders, DeleteFoldersStatement, Goto, Finish, Task
<1>4. CASE DeleteExpiredFolders
  <2>1. ExpiredFolders \subseteq FolderRows
    BY DEF ExpiredFolders, FolderRows, Exists, InTrash
  <2> QED
    BY <1>1, <1>4, <2>1 DEF DeleteExpiredFolders, Goto, Task
<1> QED
  BY <1>2, <1>3, <1>4

LEMMA CarriedStep ==
    ASSUME \A d, e \in Doc : DocName[d] = DocName[e] => d = e,
           TypeOK, TypeOK', TargetOK, FolderPlaces, CarriedInv, AloneNext
    PROVE  CarriedInv'
<1>1. Trashed /\ OneTask
  BY DEF AloneNext, CarriedInv
<1>2. OtherAction => CarriedInv'
  BY <1>1, PlainStep, KeepsCarriedPlain
<1>3. ASSUME \/ \E r \in Request : DeleteTreeFolders(r) \/ DeleteTrashedFolders(r)
             \/ DeleteExpiredFolders
      PROVE  CarriedInv'
  BY <1>1, <1>3, PurgeFoldersStep
<1>4. ASSUME NEW r \in Request, NEW f \in Folder, AllIdle,
             DeleteFolder(r, f) \/ RestoreFolder(r, f)
      PROVE  CarriedInv'
  BY <1>1, <1>4, DeleteFolderStep, RestoreFolderStep
<1>5. ASSUME NEW r \in Request,
             TrashFolder(r) \/ TrashSubfolders(r) \/ TrashTreeDocuments(r)
      PROVE  CarriedInv'
  BY <1>1, <1>5, TrashFolderStep, TrashSubfoldersStep, TrashTreeDocumentsStep
<1>6. ASSUME NEW r \in Request,
             \/ RestoreDocuments(r) \/ RestoreSubfolders(r)
             \/ RestoreSubfolderDocuments(r)
      PROVE  CarriedInv'
  BY <1>1, <1>6, RestoreDocumentsStep, RestoreSubfoldersStep,
     RestoreSubfolderDocumentsStep
<1>7. ASSUME NEW r \in Request, AllIdle, Arrive(r) PROVE CarriedInv'
  BY <1>2, <1>4, <1>7 DEF Arrive, OtherAction
<1>8. ASSUME NEW r \in Request, Continue(r) PROVE CarriedInv'
  BY <1>2, <1>3, <1>5, <1>6, <1>8 DEF Continue, OtherAction, Task
<1>9. ASSUME Cleanup PROVE CarriedInv'
  BY <1>2, <1>3, <1>9 DEF Cleanup, OtherAction, Task
<1>10. ASSUME AllIdle, NEW t \in Task, Abort(t) PROVE FALSE
  BY <1>10 DEF Abort, AllIdle
<1>11. ASSUME AllIdle, Next PROVE CarriedInv'
  BY <1>2, <1>7, <1>8, <1>9, <1>10, <1>11 DEF Next, OtherAction
<1> QED
  BY <1>8, <1>9, <1>11 DEF AloneNext

LEMMA CarriedInvCorrect ==
    ASSUME \A d, e \in Doc : DocName[d] = DocName[e] => d = e
    PROVE  AloneSpec => [](TypeOK /\ TargetOK /\ FolderPlaces /\ CarriedInv)
<1>1. AloneInit => CarriedInv
  BY DEF AloneInit, Init, CarriedInv, OneTask, Carried, TargetPlaced, DeletingFolder,
         RestoreSteps, Task
<1>2. AloneInit => Init
  BY DEF AloneInit
<1>3. [AloneNext]_aloneVars => [Next]_vars
  BY DEF AloneNext, Next, aloneVars, Task
<1>4. TypeOK /\ TypeOK' /\ TargetOK /\ FolderPlaces /\ CarriedInv
      /\ [AloneNext]_aloneVars => CarriedInv'
  <2> SUFFICES ASSUME TypeOK, TypeOK', TargetOK, FolderPlaces, CarriedInv,
                      [AloneNext]_aloneVars
               PROVE  CarriedInv'
    OBVIOUS
  <2>1. CASE AloneNext
    BY <2>1, CarriedStep
  <2>2. CASE UNCHANGED aloneVars
    <3>1. /\ UNCHANGED <<folders, trash_origin_parent_id, step, target>>
          /\ trashedWith' = trashedWith
      BY <2>2 DEF aloneVars, vars
    <3>2. OneTask' /\ Opening' = Opening /\ TrashedFolders' = TrashedFolders
          /\ FolderRows' = FolderRows
      BY <3>1 DEF CarriedInv, OneTask, Opening, TrashedFolders, FolderRows
    <3>3. Carried'
      BY <3>1, <3>2 DEF CarriedInv, Carried, Below
    <3>4. TargetPlaced'
      BY <3>1, <3>2 DEF CarriedInv, TargetPlaced, DeletingFolder
    <3> QED
      BY <3>2, <3>3, <3>4 DEF CarriedInv
  <2> QED
    BY <2>1, <2>2
<1>5. Spec => [](FolderPlaces /\ DocPlaces)
  BY PlacesCorrect
<1> QED
  BY <1>1, <1>2, <1>3, <1>4, <1>5, TypeCorrect, PTL DEF AloneSpec, Spec

\* The one action that ends delete_folder, and the one that ends restore_folder.
LEMMA LastStatement ==
    ASSUME OneTask, AloneNext, NEW r \in Request, step'[r] = "idle"
    PROVE  /\ step[r] = "trash_tree_documents" => TrashTreeDocuments(r)
           /\ step[r] = "restore_subfolder_documents" => RestoreSubfolderDocuments(r)
<1> SUFFICES ASSUME step[r] \in {"trash_tree_documents", "restore_subfolder_documents"}
             PROVE  TrashTreeDocuments(r) \/ RestoreSubfolderDocuments(r)
  BY DEF TrashTreeDocuments, RestoreSubfolderDocuments
<1>1. ~AllIdle /\ \A u \in Task : u # r => step[u] = "idle"
  BY DEF AllIdle, OneTask, Task
<1>2. ~Cleanup
  BY <1>1, BootAssumption
     DEF Cleanup, CollectExpired, DeleteExpiredDocuments, DeleteExpiredFolders,
         DeleteObject, PurgeDone, Task
<1>3. PICK q \in Request : Continue(q)
  BY <1>1, <1>2 DEF AloneNext
<1>4. step[q] # "idle"
  BY <1>3
     DEF Continue, InsertDocument, PutThumbnail, SetThumbnailPath,
         DeleteThumbnailObject, ClearThumbnailPath, TrashFolder, TrashSubfolders,
         TrashTreeDocuments, RestoreDocuments, RestoreSubfolders,
         RestoreSubfolderDocuments, DeleteDocumentRow, CollectFolderThumbnails,
         DeleteTreeDocuments, DeleteTreeFolders, CollectThumbnails,
         DeleteTrashedDocuments, DeleteTrashedFolders, DeleteObject, PurgeDone
<1>5. q = r
  BY <1>1, <1>4 DEF Task
<1> QED
  BY <1>3, <1>5
     DEF Continue, InsertDocument, PutThumbnail, SetThumbnailPath,
         DeleteThumbnailObject, ClearThumbnailPath, TrashFolder, TrashSubfolders,
         RestoreDocuments, RestoreSubfolders, DeleteDocumentRow,
         CollectFolderThumbnails, DeleteTreeDocuments, DeleteTreeFolders,
         CollectThumbnails, DeleteTrashedDocuments, DeleteTrashedFolders,
         DeleteObject, PurgeDone

\* For any number of folders, nested and trashed in any order, the sub-folders
\* that went to the trash with a folder are out of it when restore_folder
\* returns, if no restore is refused for a name.
THEOREM RestoreBringsBackFoldersCorrect ==
    ASSUME \A d, e \in Doc : DocName[d] = DocName[e] => d = e
    PROVE  AloneSpec => RestoreBringsBackFolders
<1>1. TargetOK /\ CarriedInv /\ [AloneNext]_aloneVars
      => [\A r \in Request :
            step[r] = "restore_subfolder_documents" /\ step'[r] = "idle"
            => \A f \in Folder : trashedWith'[f] # target[r]]_aloneVars
  <2> SUFFICES ASSUME TargetOK, CarriedInv, AloneNext, NEW r \in Request,
                      step[r] = "restore_subfolder_documents", step'[r] = "idle",
                      NEW f \in Folder
               PROVE  trashedWith'[f] # target[r]
    OBVIOUS
  <2>1. UNCHANGED folderVars /\ Trashed
    BY LastStatement DEF CarriedInv, RestoreSubfolderDocuments, AloneNext
  <2>2. trashedWith[f] # target[r] /\ target[r] # Nil
    BY NilAssumption
       DEF CarriedInv, TargetPlaced, TargetOK, FolderSteps, RestoreSteps, Task
  <2> QED
    BY <2>1, <2>2, RecordOfFolder DEF folderVars
<1> QED
  BY <1>1, CarriedInvCorrect, PTL DEF AloneSpec, RestoreBringsBackFolders

\* For any number of folders, when delete_folder returns, the folders that it took
\* hold no document that is not in the trash.
THEOREM DeleteTakesContentsCorrect ==
    ASSUME \A d, e \in Doc : DocName[d] = DocName[e] => d = e
    PROVE  AloneSpec => DeleteTakesContents
<1>1. TypeOK /\ TargetOK /\ FolderPlaces /\ CarriedInv /\ [AloneNext]_aloneVars
      => [\A r \in Request :
            step[r] = "trash_tree_documents" /\ step'[r] = "idle"
            => \A d \in Doc : documents'[d] = "active" /\ folder_id'[d] # Nil
                             => trashedWith'[folder_id'[d]] # target[r]]_aloneVars
  <2> SUFFICES ASSUME TypeOK, TargetOK, FolderPlaces, CarriedInv, AloneNext,
                      NEW r \in Request,
                      step[r] = "trash_tree_documents", step'[r] = "idle",
                      NEW d \in Doc, documents'[d] = "active", folder_id'[d] # Nil,
                      trashedWith'[folder_id'[d]] = target[r]
               PROVE  FALSE
    OBVIOUS
  <2> DEFINE g == target[r]
             f == folder_id[d]
             tree == Tree({g} \cap FolderRows, parent_id, TrashedFolders)
  <2>1. TrashTreeDocuments(r) /\ Trashed
    BY LastStatement DEF CarriedInv, AloneNext
  <2>2. UNCHANGED folderVars /\ folder_id' = folder_id
    BY <2>1 DEF TrashTreeDocuments, TrashDocs
  <2>3. f \in Folder /\ g \in FolderRows /\ g # Nil
    BY <2>2, NilAssumption
       DEF TypeOK, FolderRef, CarriedInv, TargetPlaced, DeletingFolder, FolderRows
  <2>4. trashedWith[f] = g
    BY <2>2, <2>1, <2>3, RecordOfFolder DEF folderVars
  <2>5. Opening = {}
    BY DEF CarriedInv, OneTask, Opening, Task
  <2>6. f \in Tree({g}, trash_origin_parent_id, TrashedFolders)
    BY <2>3, <2>4, <2>5 DEF CarriedInv, Carried, Below
  <2>7. f \in tree
    BY <2>3, <2>6, TreeGrows DEF FolderPlaces
  <2>8. documents'[d] = IF documents[d] = "active" THEN "trashed" ELSE documents[d]
    BY <2>1, <2>7 DEF TrashTreeDocuments, TrashDocs
  <2> QED
    BY <2>8
<1> QED
  BY <1>1, CarriedInvCorrect, PTL DEF AloneSpec, DeleteTakesContents

=============================================================================
