---------------------------- MODULE VaultProofs ----------------------------
(***************************************************************************)
(* Proofs about Vault for every set of documents, folders and requests.    *)
(***************************************************************************)
EXTENDS Vault, TLAPS

-----------------------------------------------------------------------------
(***************************************************************************)
(* Type correctness, together with TargetOK: the keys that the thumbnail   *)
(* handlers write are keys of documents because their targets are.         *)
(***************************************************************************)
LEMMA TypeInit == Init => TypeOK /\ TargetOK
BY DEF Init, TypeOK, TargetOK, FolderRef, RowState, Step, RestoreSteps,
       PurgeSteps, ThumbnailSteps, Task, DocumentSteps, FolderSteps

LEMMA TypeStep == TypeOK /\ TargetOK /\ [Next]_vars => TypeOK' /\ TargetOK'
<1> SUFFICES ASSUME TypeOK, TargetOK, [Next]_vars
             PROVE  TypeOK' /\ TargetOK'
  OBVIOUS
<1> USE DEF TypeOK, TargetOK, FolderRef, RowState, Step, RestoreSteps,
            PurgeSteps, ThumbnailSteps, DocumentSteps, FolderSteps, Task, Key,
            DocKey, ThumbKey
<1>1. ASSUME NEW f \in Folder, NEW p \in Folder \cup {Nil}, CreateFolder(f, p)
      PROVE  TypeOK' /\ TargetOK'
  BY <1>1 DEF CreateFolder, docVars, taskVars
<1>2. ASSUME NEW d \in Doc, DeleteDocument(d)
      PROVE  TypeOK' /\ TargetOK'
  BY <1>2 DEF DeleteDocument, TrashDocs, folderVars, taskVars
<1>3. ASSUME NEW f \in Folder, DeleteFolderDocuments(f)
      PROVE  TypeOK' /\ TargetOK'
  BY <1>3 DEF DeleteFolderDocuments, TrashDocs, folderVars, taskVars
<1>4. ASSUME NEW d \in Doc, RestoreDocument(d)
      PROVE  TypeOK' /\ TargetOK'
  BY <1>4 DEF RestoreDocument, RestoreDocs, folderVars, taskVars, Restored,
     Refiled
<1>5. ASSUME NEW r \in Request, NEW d \in Doc, UploadDocument(r, d)
      PROVE  TypeOK' /\ TargetOK'
  BY <1>5 DEF UploadDocument, Begin, docVars, folderVars
<1>6. ASSUME NEW r \in Request, NEW d \in Doc, UploadThumbnail(r, d)
      PROVE  TypeOK' /\ TargetOK'
  BY <1>6 DEF UploadThumbnail, Begin, docVars, folderVars, DocRows
<1>7. ASSUME NEW r \in Request, NEW d \in Doc, DeleteThumbnail(r, d)
      PROVE  TypeOK' /\ TargetOK'
  BY <1>7 DEF DeleteThumbnail, Begin, docVars, folderVars
<1>8. ASSUME NEW r \in Request, NEW f \in Folder, DeleteFolder(r, f)
      PROVE  TypeOK' /\ TargetOK'
  BY <1>8 DEF DeleteFolder, Begin, docVars, folderVars
<1>9. ASSUME NEW r \in Request, NEW f \in Folder, RestoreFolder(r, f)
      PROVE  TypeOK' /\ TargetOK'
  BY <1>9 DEF RestoreFolder, RestoreFolders, Begin, docVars
<1>10. ASSUME NEW r \in Request, NEW d \in Doc, PermanentDeleteDocument(r, d)
      PROVE  TypeOK' /\ TargetOK'
  BY <1>10 DEF PermanentDeleteDocument, Begin, docVars, folderVars
<1>11. ASSUME NEW r \in Request, NEW f \in Folder, PermanentDeleteFolder(r, f)
      PROVE  TypeOK' /\ TargetOK'
  BY <1>11 DEF PermanentDeleteFolder, Begin, docVars, folderVars, DocKeys,
     TreeDocs, TrashedDocs
<1>12. ASSUME NEW r \in Request, EmptyTrash(r)
      PROVE  TypeOK' /\ TargetOK'
  BY <1>12 DEF EmptyTrash, Begin, docVars, folderVars, DocKeys, TrashedDocs
<1>13. ASSUME NEW r \in Request, NEW f \in Folder \cup {Nil}, InsertDocument(r, f)
      PROVE  TypeOK' /\ TargetOK'
  BY <1>13 DEF InsertDocument, Finish, folderVars
<1>14. ASSUME NEW r \in Request, PutThumbnail(r)
      PROVE  TypeOK' /\ TargetOK'
  BY <1>14 DEF PutThumbnail, Goto, docVars, folderVars
<1>15. ASSUME NEW r \in Request, SetThumbnailPath(r)
      PROVE  TypeOK' /\ TargetOK'
  BY <1>15 DEF SetThumbnailPath, Finish, folderVars, DocRows
<1>16. ASSUME NEW r \in Request, DeleteThumbnailObject(r)
      PROVE  TypeOK' /\ TargetOK'
  BY <1>16 DEF DeleteThumbnailObject, Goto, docVars, folderVars
<1>17. ASSUME NEW r \in Request, ClearThumbnailPath(r)
      PROVE  TypeOK' /\ TargetOK'
  BY <1>17 DEF ClearThumbnailPath, Finish, folderVars
<1>18. ASSUME NEW r \in Request, TrashFolder(r)
      PROVE  TypeOK' /\ TargetOK'
  BY <1>18 DEF TrashFolder, TrashFolders, Goto, docVars
<1>19. ASSUME NEW r \in Request, TrashSubfolders(r)
      PROVE  TypeOK' /\ TargetOK'
  BY <1>19 DEF TrashSubfolders, TrashFolders, Goto, docVars
<1>20. ASSUME NEW r \in Request, TrashTreeDocuments(r)
      PROVE  TypeOK' /\ TargetOK'
  BY <1>20 DEF TrashTreeDocuments, TrashDocs, Finish, folderVars
<1>21. ASSUME NEW r \in Request, RestoreDocuments(r)
      PROVE  TypeOK' /\ TargetOK'
  BY <1>21 DEF RestoreDocuments, RestoreDocs, Goto, Finish, docVars,
     folderVars, TrashedDocs, Restored, Refiled
<1>22. ASSUME NEW r \in Request, RestoreSubfolders(r)
      PROVE  TypeOK' /\ TargetOK'
  BY <1>22 DEF RestoreSubfolders, RestoreFolders, Goto, docVars
<1>23. ASSUME NEW r \in Request, RestoreSubfolderDocuments(r)
      PROVE  TypeOK' /\ TargetOK'
  BY <1>23 DEF RestoreSubfolderDocuments, RestoreDocs, Finish, docVars,
     folderVars, TrashedDocs, Restored, Refiled
<1>24. ASSUME NEW r \in Request, DeleteDocumentRow(r)
      PROVE  TypeOK' /\ TargetOK'
  BY <1>24 DEF DeleteDocumentRow, DeleteDocs, Goto, folderVars, DocRows
<1>25. ASSUME NEW r \in Request, CollectFolderThumbnails(r)
      PROVE  TypeOK' /\ TargetOK'
  BY <1>25 DEF CollectFolderThumbnails, Collect, docVars, folderVars,
     ThumbKeys, TreeDocs, TrashedDocs
<1>26. ASSUME NEW r \in Request, DeleteTreeDocuments(r)
      PROVE  TypeOK' /\ TargetOK'
  BY <1>26 DEF DeleteTreeDocuments, DeleteDocs, Goto, folderVars, TreeDocs,
     TrashedDocs
<1>27. ASSUME NEW r \in Request, DeleteTreeFolders(r)
      PROVE  TypeOK' /\ TargetOK'
  BY <1>27 DEF DeleteTreeFolders, DeleteFoldersStatement, DeleteFolders,
     Goto, Finish, docVars, folderVars, Without
<1>28. ASSUME NEW r \in Request, CollectThumbnails(r)
      PROVE  TypeOK' /\ TargetOK'
  BY <1>28 DEF CollectThumbnails, Collect, docVars, folderVars, ThumbKeys,
     TrashedDocs
<1>29. ASSUME NEW r \in Request, DeleteTrashedDocuments(r)
      PROVE  TypeOK' /\ TargetOK'
  BY <1>29 DEF DeleteTrashedDocuments, DeleteDocs, Goto, folderVars,
     TrashedDocs
<1>30. ASSUME NEW r \in Request, DeleteTrashedFolders(r)
      PROVE  TypeOK' /\ TargetOK'
  BY <1>30 DEF DeleteTrashedFolders, DeleteFoldersStatement, DeleteFolders,
     Goto, Finish, docVars, folderVars, Without
<1>31. ASSUME NEW r \in Task, DeleteObject(r)
      PROVE  TypeOK' /\ TargetOK'
  BY <1>31 DEF DeleteObject, docVars, folderVars
<1>32. ASSUME NEW r \in Task, PurgeDone(r)
      PROVE  TypeOK' /\ TargetOK'
  BY <1>32 DEF PurgeDone, Finish, docVars, folderVars
<1>33. ASSUME NEW r \in Task, Abort(r)
      PROVE  TypeOK' /\ TargetOK'
  BY <1>33 DEF Abort, Finish, docVars, folderVars
<1>34. CASE CollectExpired
  BY <1>34 DEF CollectExpired, Collect, docVars, folderVars, ThumbKeys,
     DocKeys, ExpiredDocs
<1>35. CASE DeleteExpiredDocuments
  BY <1>35 DEF DeleteExpiredDocuments, DeleteDocs, Goto, docVars,
     folderVars, ExpiredDocs
<1>36. CASE DeleteExpiredFolders
  BY <1>36 DEF DeleteExpiredFolders, DeleteFolders, Goto, docVars,
     folderVars, Without
<1>37. CASE Restart
  BY <1>37 DEF Restart, docVars, folderVars
<1>38. CASE Expire
  BY <1>38 DEF Expire, taskVars, TrashedDocs, ExpiredDocs
<1>39. CASE UNCHANGED vars
  BY <1>39 DEF vars
<1> QED
  BY <1>1, <1>2, <1>3, <1>4, <1>5, <1>6, <1>7, <1>8, <1>9, <1>10,
     <1>11, <1>12, <1>13, <1>14, <1>15, <1>16, <1>17, <1>18, <1>19, <1>20,
     <1>21, <1>22, <1>23, <1>24, <1>25, <1>26, <1>27, <1>28, <1>29, <1>30,
     <1>31, <1>32, <1>33, <1>34, <1>35, <1>36, <1>37, <1>38, <1>39
     DEF Next, OneStatement, Arrive, Continue, Cleanup

\* Every variable keeps its type, for any number of documents, folders and
\* requests and under every fault.
THEOREM TypeCorrect == Spec => [](TypeOK /\ TargetOK)
BY TypeInit, TypeStep, PTL DEF Spec

-----------------------------------------------------------------------------
(***************************************************************************)
(* What a recursive CTE computes.                                          *)
(***************************************************************************)

\* It contains every row of `via' that refers to one of its members.
LEMMA TreeClosed ==
    ASSUME NEW from, NEW up, NEW via, NEW h \in Folder, h \in via,
           up[h] \in Tree(from, up, via)
    PROVE  h \in Tree(from, up, via)
BY DEF Tree

\* It contains the rows it starts from.
LEMMA TreeFrom ==
    ASSUME NEW from, NEW up, NEW via, from \subseteq Folder
    PROVE  from \subseteq Tree(from, up, via)
BY DEF Tree

\* It contains nothing but the rows it starts from and rows of `via'.
LEMMA TreeBound ==
    ASSUME NEW from \in SUBSET Folder, NEW up, NEW via \in SUBSET Folder
    PROVE  Tree(from, up, via) \subseteq from \cup via
<1>1. from \cup via \in SUBSET Folder
  OBVIOUS
<1> QED
  BY <1>1 DEF Tree

\* It grows when rows are added and references that were NULL are set.
LEMMA TreeGrows ==
    ASSUME NEW from, NEW from2, NEW up, NEW up2, NEW via, NEW via2,
           from \subseteq from2, via \subseteq via2,
           \A h \in via : up[h] \in Folder => up2[h] = up[h]
    PROVE  Tree(from, up, via) \subseteq Tree(from2, up2, via2)
<1> SUFFICES ASSUME NEW g \in Folder, g \in Tree(from, up, via),
                    NEW S \in SUBSET Folder, from2 \subseteq S,
                    \A h \in via2 : up2[h] \in S => h \in S
             PROVE  g \in S
  BY DEF Tree
<1>1. \A h \in via : up[h] \in S => h \in S
  OBVIOUS
<1> QED
  BY <1>1 DEF Tree

-----------------------------------------------------------------------------
(***************************************************************************)
(* The folders form a forest and remember their place.  The induction      *)
(* needs RefsExist: a new folder closes no cycle because no row can refer  *)
(* to its id, and a purge leaves no reference to what it deletes.          *)
(***************************************************************************)
LEMMA CreateKeepsPlaces ==
    ASSUME TypeOK, FolderPlaces, NEW f \in Folder, NEW p \in Folder \cup {Nil},
           CreateFolder(f, p)
    PROVE  FolderPlaces'
<1> USE NilAssumption DEF TypeOK, FolderRef, RowState, CreateFolder, InTrash,
                          Exists, FolderRows
<1>1. \A g \in TrashedFolders' : (trash_origin_parent_id[g] = parent_id[g])'
  BY DEF FolderPlaces, TrashedFolders
<1>2. RefsExist'
  BY DEF FolderPlaces, RefsExist
<1>3. \A g \in Folder : parent_id[g] # f /\ p # f
  BY DEF FolderPlaces, RefsExist
<1>4. ASSUME NEW S \in SUBSET Folder, S # {}
      PROVE  \E g \in S : parent_id'[g] \notin S
  <2>1. CASE S = {f}
    BY <2>1, <1>3
  <2>2. CASE S # {f}
    <3>1. S \ {f} \in SUBSET Folder /\ S \ {f} # {}
      BY <1>4, <2>2
    <3>2. PICK g \in S \ {f} : parent_id[g] \notin S \ {f}
      BY <3>1 DEF FolderPlaces, ParentForest
    <3> QED
      BY <3>2, <1>3
  <2> QED
    BY <2>1, <2>2
<1> QED
  BY <1>1, <1>2, <1>4 DEF FolderPlaces, ParentForest

LEMMA TrashKeepsPlaces ==
    ASSUME TypeOK, FolderPlaces, NEW F \in SUBSET FolderRows, TrashFolders(F)
    PROVE  FolderPlaces'
BY NilAssumption DEF TypeOK, FolderRef, RowState, FolderPlaces, TrashedFolders,
   RefsExist, ParentForest, TrashFolders, InTrash, Exists, FolderRows

LEMMA RestoreKeepsPlaces ==
    ASSUME TypeOK, FolderPlaces, NEW F \in SUBSET TrashedFolders,
           RestoreFolders(F)
    PROVE  FolderPlaces'
<1>1. parent_id' = parent_id
  BY DEF TypeOK, FolderPlaces, TrashedFolders, RestoreFolders
<1> QED
  BY <1>1 DEF TypeOK, FolderRef, RowState, FolderPlaces, TrashedFolders,
     RefsExist, ParentForest, RestoreFolders, InTrash, Exists, FolderRows

LEMMA DeleteKeepsPlaces ==
    ASSUME TypeOK, FolderPlaces, NEW F \in SUBSET FolderRows, DeleteFolders(F)
    PROVE  FolderPlaces'
<1> DEFINE G == Cascade(F)
<1>1. G \subseteq Folder
  BY DEF Cascade, Tree
<1>2. \A h \in FolderRows : parent_id[h] \in G => h \in G
  BY TreeClosed DEF Cascade, FolderRows
<1>3. /\ folders' = [f \in Folder |-> IF f \in G THEN "purged" ELSE folders[f]]
      /\ parent_id' = [f \in Folder |-> IF f \in G THEN Nil ELSE parent_id[f]]
      /\ trash_origin_parent_id' =
           [f \in Folder |-> IF f \in G \/ trash_origin_parent_id[f] \in G
                             THEN Nil ELSE trash_origin_parent_id[f]]
  BY DEF DeleteFolders
<1> HIDE DEF G
<1>4. \A f \in TrashedFolders' : (trash_origin_parent_id[f] = parent_id[f])'
  BY <1>1, <1>2, <1>3, NilAssumption
     DEF TypeOK, FolderRef, FolderPlaces, TrashedFolders, FolderRows, InTrash,
         Exists
<1>5. RefsExist'
  BY <1>1, <1>2, <1>3, NilAssumption
     DEF TypeOK, FolderRef, RowState, FolderPlaces, RefsExist, FolderRows,
         InTrash, Exists
<1>6. ParentForest'
  BY <1>1, <1>3, NilAssumption DEF TypeOK, FolderPlaces, ParentForest
<1> QED
  BY <1>4, <1>5, <1>6 DEF FolderPlaces

LEMMA DeleteKeepsDocPlaces ==
    ASSUME TypeOK, DocPlaces, NEW F, DeleteFolders(F)
    PROVE  DocPlaces'
BY DEF TypeOK, DocPlaces, TrashedDocs, DeleteFolders, Without

LEMMA PlacesInit == Init => FolderPlaces /\ DocPlaces
<1> SUFFICES ASSUME Init PROVE FolderPlaces /\ DocPlaces
  OBVIOUS
<1>1. TrashedFolders = {} /\ TrashedDocs = {}
  BY DEF Init, TrashedFolders, TrashedDocs, InTrash
<1>2. \A f \in Folder : parent_id[f] = Nil /\ trash_origin_parent_id[f] = Nil
  BY DEF Init
<1>3. RefsExist
  BY <1>2 DEF RefsExist
<1>4. ParentForest
  BY <1>2, NilAssumption DEF ParentForest
<1> QED
  BY <1>1, <1>3, <1>4 DEF FolderPlaces, DocPlaces

LEMMA PlacesStep ==
    TypeOK /\ TargetOK /\ FolderPlaces /\ DocPlaces /\ [Next]_vars
    => FolderPlaces' /\ DocPlaces'
<1> SUFFICES ASSUME TypeOK, TargetOK, FolderPlaces, DocPlaces, [Next]_vars
             PROVE  FolderPlaces' /\ DocPlaces'
  OBVIOUS
\* Steps that leave the folder rows alone, and those that leave the documents.
<1>a. UNCHANGED folderVars => FolderPlaces'
  BY DEF folderVars, FolderPlaces, TrashedFolders, RefsExist, ParentForest,
         FolderRows
<1>b. UNCHANGED docVars => DocPlaces'
  BY DEF docVars, DocPlaces, TrashedDocs
\* Statements on document rows.
<1>c. ASSUME NEW D, TrashDocs(D)
      PROVE  DocPlaces'
  BY <1>c DEF TrashDocs, DocPlaces, TrashedDocs, TypeOK
<1>d. ASSUME NEW D, RestoreDocs(D)
      PROVE  DocPlaces'
  BY <1>d DEF RestoreDocs, Restored, Refiled, DocPlaces, TrashedDocs, InTrash
<1>e. ASSUME NEW D, DeleteDocs(D)
      PROVE  DocPlaces'
  BY <1>e DEF DeleteDocs, DocPlaces, TrashedDocs, InTrash
<1>1. ASSUME NEW f \in Folder, NEW p \in Folder \cup {Nil}, CreateFolder(f, p)
      PROVE  FolderPlaces' /\ DocPlaces'
  BY <1>1, <1>b, CreateKeepsPlaces DEF CreateFolder
<1>2. ASSUME NEW d \in Doc, DeleteDocument(d)
      PROVE  FolderPlaces' /\ DocPlaces'
  BY <1>2, <1>a, <1>c DEF DeleteDocument
<1>3. ASSUME NEW f \in Folder, DeleteFolderDocuments(f)
      PROVE  FolderPlaces' /\ DocPlaces'
  BY <1>3, <1>a, <1>c DEF DeleteFolderDocuments
<1>4. ASSUME NEW d \in Doc, RestoreDocument(d)
      PROVE  FolderPlaces' /\ DocPlaces'
  BY <1>4, <1>a, <1>d DEF RestoreDocument
<1>5. ASSUME NEW r \in Request, NEW d \in Doc, UploadDocument(r, d)
      PROVE  FolderPlaces' /\ DocPlaces'
  BY <1>5, <1>a, <1>b DEF UploadDocument
<1>6. ASSUME NEW r \in Request, NEW d \in Doc, UploadThumbnail(r, d)
      PROVE  FolderPlaces' /\ DocPlaces'
  BY <1>6, <1>a, <1>b DEF UploadThumbnail
<1>7. ASSUME NEW r \in Request, NEW d \in Doc, DeleteThumbnail(r, d)
      PROVE  FolderPlaces' /\ DocPlaces'
  BY <1>7, <1>a, <1>b DEF DeleteThumbnail
<1>8. ASSUME NEW r \in Request, NEW f \in Folder, DeleteFolder(r, f)
      PROVE  FolderPlaces' /\ DocPlaces'
  BY <1>8, <1>a, <1>b DEF DeleteFolder
<1>9. ASSUME NEW r \in Request, NEW f \in Folder, RestoreFolder(r, f)
      PROVE  FolderPlaces' /\ DocPlaces'
  <2>1. {f} \subseteq TrashedFolders
    BY <1>9 DEF RestoreFolder, TrashedFolders
  <2> QED
    BY <1>9, <1>b, <2>1, RestoreKeepsPlaces DEF RestoreFolder
<1>10. ASSUME NEW r \in Request, NEW d \in Doc, PermanentDeleteDocument(r, d)
      PROVE  FolderPlaces' /\ DocPlaces'
  BY <1>10, <1>a, <1>b DEF PermanentDeleteDocument
<1>11. ASSUME NEW r \in Request, NEW f \in Folder, PermanentDeleteFolder(r, f)
      PROVE  FolderPlaces' /\ DocPlaces'
  BY <1>11, <1>a, <1>b DEF PermanentDeleteFolder
<1>12. ASSUME NEW r \in Request, EmptyTrash(r)
      PROVE  FolderPlaces' /\ DocPlaces'
  BY <1>12, <1>a, <1>b DEF EmptyTrash
<1>13. ASSUME NEW r \in Request, NEW f \in Folder \cup {Nil}, InsertDocument(r, f)
      PROVE  FolderPlaces' /\ DocPlaces'
  BY <1>13, <1>a DEF InsertDocument, DocPlaces, TrashedDocs, InTrash,
     TypeOK, folderVars
<1>14. ASSUME NEW r \in Request, PutThumbnail(r)
      PROVE  FolderPlaces' /\ DocPlaces'
  BY <1>14, <1>a, <1>b DEF PutThumbnail
<1>15. ASSUME NEW r \in Request, SetThumbnailPath(r)
      PROVE  FolderPlaces' /\ DocPlaces'
  BY <1>15, <1>a DEF SetThumbnailPath, DocPlaces, TrashedDocs
<1>16. ASSUME NEW r \in Request, DeleteThumbnailObject(r)
      PROVE  FolderPlaces' /\ DocPlaces'
  BY <1>16, <1>a, <1>b DEF DeleteThumbnailObject
<1>17. ASSUME NEW r \in Request, ClearThumbnailPath(r)
      PROVE  FolderPlaces' /\ DocPlaces'
  BY <1>17, <1>a DEF ClearThumbnailPath, DocPlaces, TrashedDocs
<1>18. ASSUME NEW r \in Request, TrashFolder(r)
      PROVE  FolderPlaces' /\ DocPlaces'
  BY <1>18, <1>b, TrashKeepsPlaces DEF TrashFolder
<1>19. ASSUME NEW r \in Request, TrashSubfolders(r)
      PROVE  FolderPlaces' /\ DocPlaces'
  <2>1. Tree({target[r]} \cap FolderRows, parent_id, ActiveFolders) \ {target[r]}
          \subseteq FolderRows
    BY TreeBound DEF FolderRows, ActiveFolders, Exists
  <2> QED
    BY <1>19, <1>b, <2>1, TrashKeepsPlaces DEF TrashSubfolders
<1>20. ASSUME NEW r \in Request, TrashTreeDocuments(r)
      PROVE  FolderPlaces' /\ DocPlaces'
  BY <1>20, <1>a, <1>c DEF TrashTreeDocuments
<1>21. ASSUME NEW r \in Request, RestoreDocuments(r)
      PROVE  FolderPlaces' /\ DocPlaces'
  BY <1>21, <1>a, <1>d, <1>b DEF RestoreDocuments
<1>22. ASSUME NEW r \in Request, RestoreSubfolders(r)
      PROVE  FolderPlaces' /\ DocPlaces'
  <2>1. Tree({target[r]}, trash_origin_parent_id, TrashedFolders) \ {target[r]}
          \subseteq TrashedFolders
    <3>1. target[r] \in Folder
      BY <1>22 DEF RestoreSubfolders, TargetOK, FolderSteps, RestoreSteps, Task
    <3> QED
      BY <3>1, TreeBound DEF TrashedFolders
  <2> QED
    BY <1>22, <1>b, <2>1, RestoreKeepsPlaces DEF RestoreSubfolders
<1>23. ASSUME NEW r \in Request, RestoreSubfolderDocuments(r)
      PROVE  FolderPlaces' /\ DocPlaces'
  BY <1>23, <1>a, <1>d, <1>b DEF RestoreSubfolderDocuments
<1>24. ASSUME NEW r \in Request, DeleteDocumentRow(r)
      PROVE  FolderPlaces' /\ DocPlaces'
  BY <1>24, <1>a, <1>e DEF DeleteDocumentRow
<1>25. ASSUME NEW r \in Request, CollectFolderThumbnails(r)
      PROVE  FolderPlaces' /\ DocPlaces'
  BY <1>25, <1>a, <1>b DEF CollectFolderThumbnails
<1>26. ASSUME NEW r \in Request, DeleteTreeDocuments(r)
      PROVE  FolderPlaces' /\ DocPlaces'
  BY <1>26, <1>a, <1>e DEF DeleteTreeDocuments
<1>27. ASSUME NEW r \in Request, DeleteTreeFolders(r)
      PROVE  FolderPlaces' /\ DocPlaces'
  <2>1. OriginTree(target[r]) \subseteq FolderRows
    BY TreeBound DEF OriginTree, FolderRows
  <2> QED
    BY <1>27, <1>a, <1>b, <2>1, DeleteKeepsPlaces, DeleteKeepsDocPlaces
       DEF DeleteTreeFolders, DeleteFoldersStatement
<1>28. ASSUME NEW r \in Request, CollectThumbnails(r)
      PROVE  FolderPlaces' /\ DocPlaces'
  BY <1>28, <1>a, <1>b DEF CollectThumbnails
<1>29. ASSUME NEW r \in Request, DeleteTrashedDocuments(r)
      PROVE  FolderPlaces' /\ DocPlaces'
  BY <1>29, <1>a, <1>e DEF DeleteTrashedDocuments
<1>30. ASSUME NEW r \in Request, DeleteTrashedFolders(r)
      PROVE  FolderPlaces' /\ DocPlaces'
  <2>1. TrashedFolders \subseteq FolderRows
    BY DEF TrashedFolders, FolderRows, Exists, InTrash
  <2> QED
    BY <1>30, <1>a, <1>b, <2>1, DeleteKeepsPlaces, DeleteKeepsDocPlaces
       DEF DeleteTrashedFolders, DeleteFoldersStatement
<1>31. ASSUME NEW r \in Task, DeleteObject(r)
      PROVE  FolderPlaces' /\ DocPlaces'
  BY <1>31, <1>a, <1>b DEF DeleteObject
<1>32. ASSUME NEW r \in Task, PurgeDone(r)
      PROVE  FolderPlaces' /\ DocPlaces'
  BY <1>32, <1>a, <1>b DEF PurgeDone
<1>33. ASSUME NEW r \in Task, Abort(r)
      PROVE  FolderPlaces' /\ DocPlaces'
  BY <1>33, <1>a, <1>b DEF Abort
<1>34. CASE CollectExpired
  BY <1>34, <1>a, <1>b DEF CollectExpired
<1>35. CASE DeleteExpiredDocuments
  BY <1>35, <1>a, <1>e, <1>b DEF DeleteExpiredDocuments
<1>36. CASE DeleteExpiredFolders
  <2>1. ExpiredFolders \subseteq FolderRows
    BY DEF ExpiredFolders, FolderRows, Exists, InTrash
  <2> QED
    BY <1>36, <1>a, <1>b, <2>1, DeleteKeepsPlaces, DeleteKeepsDocPlaces
       DEF DeleteExpiredFolders
<1>37. CASE Restart
  BY <1>37, <1>a, <1>b DEF Restart
<1>38. CASE Expire
  BY <1>38 DEF Expire, FolderPlaces, DocPlaces, TrashedFolders, TrashedDocs,
     RefsExist, ParentForest, FolderRows, InTrash, Exists, TypeOK
<1>39. CASE UNCHANGED vars
  BY <1>39, <1>a, <1>b DEF vars, docVars, folderVars
<1> QED
  BY <1>1, <1>2, <1>3, <1>4, <1>5, <1>6, <1>7, <1>8, <1>9, <1>10,
     <1>11, <1>12, <1>13, <1>14, <1>15, <1>16, <1>17, <1>18, <1>19, <1>20,
     <1>21, <1>22, <1>23, <1>24, <1>25, <1>26, <1>27, <1>28, <1>29, <1>30,
     <1>31, <1>32, <1>33, <1>34, <1>35, <1>36, <1>37, <1>38, <1>39
     DEF Next, OneStatement, Arrive, Continue, Cleanup, Task

LEMMA PlacesCorrect == Spec => [](FolderPlaces /\ DocPlaces)
<1>1. TypeOK /\ TargetOK /\ FolderPlaces /\ DocPlaces /\ [Next]_vars
      => (FolderPlaces /\ DocPlaces)'
  BY PlacesStep
<1> QED
  BY <1>1, PlacesInit, TypeCorrect, PTL DEF Spec

\* Whatever requests overlap, fail or are cut off, an item in the trash
\* remembers the place its row still names, so a restore never moves it.
THEOREM OriginIsPlaceCorrect == Spec => []OriginIsPlace
<1>1. FolderPlaces /\ DocPlaces => OriginIsPlace
  BY DEF FolderPlaces, DocPlaces, OriginIsPlace
<1> QED
  BY <1>1, PlacesCorrect, PTL

\* And the folders form a forest, so that every recursive CTE terminates.
THEOREM FolderForestCorrect == Spec => []FolderForest
<1>1. FolderPlaces => FolderForest
  BY NilAssumption DEF FolderPlaces, FolderForest, RefsExist, ParentForest
<1> QED
  BY <1>1, PlacesCorrect, PTL

=============================================================================
