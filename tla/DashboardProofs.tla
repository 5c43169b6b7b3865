-------------------------- MODULE DashboardProofs --------------------------
(***************************************************************************)
(* Proofs about Dashboard for every set of documents, folders and handlers *)
(* and any number of gestures and of writes by other devices.              *)
(***************************************************************************)
EXTENDS Dashboard, TLAPS

-----------------------------------------------------------------------------
(***************************************************************************)
(* The inductive invariants.                                               *)
(***************************************************************************)

\* TypeOK in two parts: the Boolean variables, and the others.
FlagsOK ==
    /\ trashTag \in BOOLEAN /\ trashTagId \in BOOLEAN /\ loadingDocs \in BOOLEAN
    /\ isSandbox \in BOOLEAN /\ processing \in BOOLEAN /\ calm \in BOOLEAN
    /\ toast # Nil => toast.known \in BOOLEAN

DataOK ==
    /\ row \in [Doc -> {"active", "deleted"}] /\ folders \in SUBSET Folder
    /\ binned \in SUBSET Doc
    /\ current \in Place \cup {Nil} /\ viewMode \in {"vault", "trash"}
    /\ documents \in SUBSET Doc /\ docTagsCache \in SUBSET Doc
    /\ toast \in Toasts \cup {Nil}
    /\ confirming \in Doc \cup {"bin", Nil} /\ panelTask \in SUBSET Task
    /\ previewDoc \in Doc \cup {Nil} /\ previewBytes \in Doc \cup {Nil}
    /\ step \in [Task -> Steps] /\ place \in [Task -> Place]
    /\ docs \in [Task -> SUBSET Doc] /\ left \in [Task -> SUBSET Doc]
    /\ starts \in 0..MaxStarts
    /\ everBinned \in SUBSET Doc

\* Before the page is mounted nothing is shown, asked or in flight.
MountInv ==
    current = Nil => documents = {} /\ confirming = Nil /\ toast = Nil /\ AllIdle

\* Whatever tags are read, cached or acted upon, they were on the document once.
BinInv ==
    /\ binned \subseteq everBinned /\ docTagsCache \subseteq everBinned
    /\ confirming \in Doc => confirming \in everBinned
    /\ \A t \in Task : /\ step[t] = "create_tag" => docs[t] = {}
                       /\ step[t] \in {"tags", "retagged"} => docs[t] \subseteq everBinned
    /\ PurgedWasBinned

\* A listing on its way is that of the folder it was asked for.
ListingInv ==
    /\ ListingIsOneFolder
    /\ \A t \in Task : step[t] \in {"listed", "listed_untagged", "relisted"} =>
                          \A d \in docs[t] : Home[d] = place[t]

\* The cached tags of these documents are those of the server.
Agree(ds) == \A d \in ds : d \in docTagsCache <=> d \in binned

Settled ==
    documents = Listed(current) /\ Agree(documents) /\ ~loadingDocs /\ ~processing

\* How far the one handler in flight has come, when it has been waited for.
CalmTask(t) ==
    /\ step[t] # "delete_tree" => place[t] = current
    /\ step[t] = "delete_tree" => Settled /\ current \notin Tree[place[t]]
    /\ step[t] = "delete_open_tree" => place[t] # Root
    /\ step[t] \in {"listed", "listed_untagged", "relisted"} => docs[t] = Listed(current)
    /\ step[t] \in {"create_tag", "tags", "tag", "retag", "retagged"} =>
          documents = Listed(current)
    /\ step[t] \in {"create_tag", "tags"} =>
          /\ \A d \in documents \ left[t] : d \in docs[t] <=> d \in binned
          /\ docs[t] \cap left[t] = {}
          /\ step[t] = "create_tag" => left[t] = documents
    /\ step[t] \in {"delete_each", "delete_folder", "relist", "relisted"} =>
          Listed(current) \subseteq documents
    /\ step[t] \in {"tag", "delete_each", "delete_folder"} => Agree(documents)
    /\ step[t] \in {"relist", "relisted", "retag", "retagged"} =>
          Agree(documents \ left[t])
    /\ step[t] = "delete_each" => \A d \in left[t] : Home[d] = place[t]
    /\ step[t] = "retagged" => docs[t] = left[t] \cap binned
    /\ step[t] = "preview" => Settled /\ (previewDoc = Nil \/ docs[t] = {previewDoc})
    /\ step[t] # "abandoned"

\* What is asked for is in the folder where it is asked.
ToastInv ==
    toast # Nil =>
        /\ toast.act = "delete_each" => \A d \in toast.docs : Home[d] = toast.place
        /\ toast.act = "delete_open_tree" => toast.place # Root

\* There is one handler at most, and the page is settled when there is none.
CalmBody ==
    /\ \A t, u \in Task : step[t] # "idle" /\ step[u] # "idle" => t = u
    /\ \A t \in Task : step[t] # "idle" => CalmTask(t)
    /\ AllIdle /\ current # Nil => Settled
    /\ processing => \E t \in panelTask : step[t] # "idle"
    /\ ToastInv
    /\ previewDoc # Nil => previewBytes \in {Nil, previewDoc}
CalmInv == calm => CalmBody

DashboardInv == TypeOK /\ MountInv /\ BinInv /\ ListingInv /\ CalmInv

-----------------------------------------------------------------------------
LEMMA TypeSplit == TypeOK <=> (FlagsOK /\ DataOK)
<1>1. TypeOK => FlagsOK
  BY DEF TypeOK, FlagsOK, Toasts
<1>2. TypeOK => DataOK
  BY DEF TypeOK, DataOK
<1>3. FlagsOK /\ DataOK => TypeOK
  BY DEF TypeOK, FlagsOK, DataOK
<1> QED
  BY <1>1, <1>2, <1>3

LEMMA TypeInit == Init => TypeOK
<1> SUFFICES ASSUME Init PROVE FlagsOK /\ DataOK
  BY TypeSplit
<1>1. FlagsOK
  BY Zenon DEF Init, FlagsOK
<1>2. DataOK
  BY NilAssumption, BoundAssumption DEF Init, DataOK, Toasts, Steps, Place
<1> QED
  BY <1>1, <1>2

LEMMA FlagsStep ==
    ASSUME FlagsOK, [Next]_vars
    PROVE  FlagsOK'
<1> USE DEF FlagsOK, server, page, panel, preview, task, history
<1>1. ASSUME NEW t \in Task, NEW p \in Place, Open(t, p)
      PROVE  FlagsOK'
  BY <1>1, Zenon DEF Open, Begin, Unmount
<1>2. ASSUME NEW v \in {"vault", "trash"}, SwitchView(v)
      PROVE  FlagsOK'
  BY <1>2, Zenon DEF SwitchView, Unmount
<1>3. ASSUME NEW d \in Doc, AskDelete(d)
      PROVE  FlagsOK'
  BY <1>3, Zenon DEF AskDelete, Shown
<1>4. ASSUME NEW t \in Task, NEW d \in Doc, Restore(t, d)
      PROVE  FlagsOK'
  BY <1>4, Zenon DEF Restore, Begin, Trashed, InPanel
<1>5. ASSUME NEW t \in Task, NEW d \in Doc, Preview(t, d)
      PROVE  FlagsOK'
  BY <1>5, Zenon DEF Preview, Begin, Shown
<1>6. ASSUME NEW d \in Doc, OtherDevice(d)
      PROVE  FlagsOK'
  BY <1>6, Zenon DEF OtherDevice
<1>7. CASE AskDeleteAll
  BY <1>7, Zenon DEF AskDeleteAll
<1>8. CASE DropToast
  BY <1>8, Zenon DEF DropToast
<1>9. ASSUME NEW t \in Task, ConfirmToast(t)
      PROVE  FlagsOK'
  BY <1>9, Zenon DEF ConfirmToast, Begin
<1>10. ASSUME NEW x \in Doc \cup {"bin"}, AskPurge(x)
      PROVE  FlagsOK'
  BY <1>10, Zenon DEF AskPurge, Trashed, InPanel
<1>11. CASE CancelPurge
  BY <1>11, Zenon DEF CancelPurge
<1>12. ASSUME NEW t \in Task, ConfirmPurge(t)
      PROVE  FlagsOK'
  BY <1>12, Zenon DEF ConfirmPurge, Begin, Trashed
<1>13. CASE ClosePreview
  BY <1>13, Zenon DEF ClosePreview
<1>14. ASSUME NEW t \in Task, AnswerList(t)
      PROVE  FlagsOK'
  BY <1>14, Zenon DEF AnswerList, Proceed
<1>15. ASSUME NEW t \in Task, ListArrives(t)
      PROVE  FlagsOK'
  BY <1>15, Zenon DEF ListArrives, Proceed
<1>16. ASSUME NEW t \in Task, LoadFails(t)
      PROVE  FlagsOK'
  BY <1>16, Zenon DEF LoadFails, StopLoading, Finish, Release, Failure
<1>17. ASSUME NEW t \in Task, CreateTag(t)
      PROVE  FlagsOK'
  BY <1>17, Zenon DEF CreateTag, Proceed, Failure
<1>18. ASSUME NEW t \in Task, TagsArrive(t)
      PROVE  FlagsOK'
  BY <1>18, Zenon DEF TagsArrive, StopLoading, Finish, Release
<1>19. ASSUME NEW t \in Task, NEW d \in Doc, AnswerTags(t, d)
      PROVE  FlagsOK'
  BY <1>19, Zenon DEF AnswerTags, Proceed, Failure
<1>20. ASSUME NEW t \in Task, NEW d \in Doc, TagDocument(t, d)
      PROVE  FlagsOK'
  BY <1>20, Zenon DEF TagDocument, Proceed, HandlerFails, StopLoading, Finish,
               Release, Failure
<1>21. ASSUME NEW t \in Task, NEW d \in Doc, DeleteEach(t, d)
      PROVE  FlagsOK'
  BY <1>21, Zenon DEF DeleteEach, Proceed, StopLoading, Finish, Release, Failure
<1>22. ASSUME NEW t \in Task, NEW d \in Doc, DeleteAbandoned(t, d)
      PROVE  FlagsOK'
  BY <1>22, Zenon DEF DeleteAbandoned, Proceed, Finish
<1>23. ASSUME NEW t \in Task, NEW d \in Doc, PurgeDocument(t, d)
      PROVE  FlagsOK'
  BY <1>23, Zenon DEF PurgeDocument, Proceed, Finish, Release, Failure
<1>24. ASSUME NEW t \in Task, DeleteFolderDocuments(t)
      PROVE  FlagsOK'
  BY <1>24, Zenon DEF DeleteFolderDocuments, Proceed, HandlerFails, StopLoading,
               Finish, Release, Failure
<1>25. ASSUME NEW t \in Task, AnswerRelist(t)
      PROVE  FlagsOK'
  BY <1>25, Zenon DEF AnswerRelist, Proceed
<1>26. ASSUME NEW t \in Task, RelistArrives(t)
      PROVE  FlagsOK'
  BY <1>26, Zenon DEF RelistArrives, Proceed, StopLoading, Finish, Release
<1>27. ASSUME NEW t \in Task, RelistFails(t)
      PROVE  FlagsOK'
  BY <1>27, Zenon DEF RelistFails, HandlerFails, StopLoading, Finish, Release,
               Failure
<1>28. ASSUME NEW t \in Task, AnswerRetag(t)
      PROVE  FlagsOK'
  BY <1>28, Zenon DEF AnswerRetag, Proceed
<1>29. ASSUME NEW t \in Task, RetagArrives(t)
      PROVE  FlagsOK'
  BY <1>29, Zenon DEF RetagArrives, StopLoading, Finish, Release
<1>30. ASSUME NEW t \in Task, UntagDocument(t)
      PROVE  FlagsOK'
  BY <1>30, Zenon DEF UntagDocument, Refresh, Proceed, Finish, Release, Failure
<1>31. ASSUME NEW t \in Task, PurgeDone(t)
      PROVE  FlagsOK'
  BY <1>31, Zenon DEF PurgeDone, Refresh, Proceed
<1>32. ASSUME NEW t \in Task, PreviewReady(t)
      PROVE  FlagsOK'
  BY <1>32, Zenon DEF PreviewReady, Finish
<1>33. ASSUME NEW t \in Task, PreviewFails(t)
      PROVE  FlagsOK'
  BY <1>33, Zenon DEF PreviewFails, Finish, Failure
<1>34. ASSUME NEW f \in Folder, AskDeleteFolder(f)
      PROVE  FlagsOK'
  BY <1>34, Zenon DEF AskDeleteFolder, FolderToast
<1>35. ASSUME NEW t \in Task, DeleteFolder(t)
      PROVE  FlagsOK'
  BY <1>35, Zenon DEF DeleteFolder, DeleteTree, LeaveFolder, TreeStep, Finish, Failure
<1>36. CASE UNCHANGED vars
  BY <1>36, Zenon DEF vars
<1> HIDE DEF FlagsOK
<1> QED
  BY <1>1, <1>2, <1>3, <1>4, <1>5, <1>6, <1>7, <1>8, <1>9, <1>10, <1>11,
     <1>12, <1>13, <1>14, <1>15, <1>16, <1>17, <1>18, <1>19, <1>20, <1>21,
     <1>22, <1>23, <1>24, <1>25, <1>26, <1>27, <1>28, <1>29, <1>30, <1>31,
     <1>32, <1>33, <1>34, <1>35, <1>36
     DEF Next, Gesture, Continue

LEMMA DataStep ==
    ASSUME FlagsOK, DataOK, MountInv, [Next]_vars
    PROVE  DataOK'
<1> USE HomeAssumption, BoundAssumption, NilAssumption
    DEF DataOK, MountInv, AllIdle, Toasts, ToastStep, Steps, Place, Listed,
        server, page, panel, preview, task, history
<1>1. ASSUME NEW t \in Task, NEW p \in Place, Open(t, p)
      PROVE  DataOK'
  BY <1>1 DEF Open, Begin, Unmount
<1>2. ASSUME NEW v \in {"vault", "trash"}, SwitchView(v)
      PROVE  DataOK'
  BY <1>2 DEF SwitchView, Unmount
<1>3. ASSUME NEW d \in Doc, AskDelete(d)
      PROVE  DataOK'
  <2>1. d \in Doc /\ {d} \in SUBSET Doc /\ current \in Place
    BY <1>3 DEF AskDelete, Shown
  <2>2. trashTagId \in BOOLEAN
    BY Zenon DEF FlagsOK
  <2>3. toast' \in Toasts
    <3> HIDE DEF Place
    <3> QED
      BY <1>3, <2>1, <2>2, Zenon DEF AskDelete, Toasts, ToastStep
  <2> HIDE DEF Toasts
  <2> QED
    BY <1>3, <2>3 DEF AskDelete
<1>4. ASSUME NEW t \in Task, NEW d \in Doc, Restore(t, d)
      PROVE  DataOK'
  BY <1>4 DEF Restore, Begin, Trashed, InPanel
<1>5. ASSUME NEW t \in Task, NEW d \in Doc, Preview(t, d)
      PROVE  DataOK'
  BY <1>5 DEF Preview, Begin, Shown
<1>6. ASSUME NEW d \in Doc, OtherDevice(d)
      PROVE  DataOK'
  BY <1>6 DEF OtherDevice
<1>7. CASE AskDeleteAll
  BY <1>7 DEF AskDeleteAll
<1>8. CASE DropToast
  BY <1>8 DEF DropToast
<1>9. ASSUME NEW t \in Task, ConfirmToast(t)
      PROVE  DataOK'
  BY <1>9 DEF ConfirmToast, Begin
<1>10. ASSUME NEW x \in Doc \cup {"bin"}, AskPurge(x)
      PROVE  DataOK'
  BY <1>10 DEF AskPurge, Trashed, InPanel
<1>11. CASE CancelPurge
  BY <1>11 DEF CancelPurge
<1>12. ASSUME NEW t \in Task, ConfirmPurge(t)
      PROVE  DataOK'
  BY <1>12 DEF ConfirmPurge, Begin, Trashed
<1>13. CASE ClosePreview
  BY <1>13 DEF ClosePreview
<1>14. ASSUME NEW t \in Task, AnswerList(t)
      PROVE  DataOK'
  BY <1>14 DEF AnswerList, Proceed
<1>15. ASSUME NEW t \in Task, ListArrives(t)
      PROVE  DataOK'
  BY <1>15 DEF ListArrives, Proceed
<1>16. ASSUME NEW t \in Task, LoadFails(t)
      PROVE  DataOK'
  BY <1>16 DEF LoadFails, StopLoading, Finish, Release, Failure
<1>17. ASSUME NEW t \in Task, CreateTag(t)
      PROVE  DataOK'
  BY <1>17 DEF CreateTag, Proceed, Failure
<1>18. ASSUME NEW t \in Task, TagsArrive(t)
      PROVE  DataOK'
  BY <1>18 DEF TagsArrive, StopLoading, Finish, Release
<1>19. ASSUME NEW t \in Task, NEW d \in Doc, AnswerTags(t, d)
      PROVE  DataOK'
  BY <1>19 DEF AnswerTags, Proceed, Failure
<1>20. ASSUME NEW t \in Task, NEW d \in Doc, TagDocument(t, d)
      PROVE  DataOK'
  BY <1>20 DEF TagDocument, Proceed, HandlerFails, StopLoading, Finish,
               Release, Failure
<1>21. ASSUME NEW t \in Task, NEW d \in Doc, DeleteEach(t, d)
      PROVE  DataOK'
  BY <1>21 DEF DeleteEach, Proceed, StopLoading, Finish, Release, Failure
<1>22. ASSUME NEW t \in Task, NEW d \in Doc, DeleteAbandoned(t, d)
      PROVE  DataOK'
  BY <1>22 DEF DeleteAbandoned, Proceed, Finish
<1>23. ASSUME NEW t \in Task, NEW d \in Doc, PurgeDocument(t, d)
      PROVE  DataOK'
  BY <1>23 DEF PurgeDocument, Proceed, Finish, Release, Failure
<1>24. ASSUME NEW t \in Task, DeleteFolderDocuments(t)
      PROVE  DataOK'
  BY <1>24 DEF DeleteFolderDocuments, Proceed, HandlerFails, StopLoading,
               Finish, Release, Failure
<1>25. ASSUME NEW t \in Task, AnswerRelist(t)
      PROVE  DataOK'
  BY <1>25 DEF AnswerRelist, Proceed
<1>26. ASSUME NEW t \in Task, RelistArrives(t)
      PROVE  DataOK'
  BY <1>26 DEF RelistArrives, Proceed, StopLoading, Finish, Release
<1>27. ASSUME NEW t \in Task, RelistFails(t)
      PROVE  DataOK'
  BY <1>27 DEF RelistFails, HandlerFails, StopLoading, Finish, Release,
               Failure
<1>28. ASSUME NEW t \in Task, AnswerRetag(t)
      PROVE  DataOK'
  BY <1>28 DEF AnswerRetag, Proceed
<1>29. ASSUME NEW t \in Task, RetagArrives(t)
      PROVE  DataOK'
  BY <1>29 DEF RetagArrives, StopLoading, Finish, Release
<1>30. ASSUME NEW t \in Task, UntagDocument(t)
      PROVE  DataOK'
  BY <1>30 DEF UntagDocument, Refresh, Proceed, Finish, Release, Failure
<1>31. ASSUME NEW t \in Task, PurgeDone(t)
      PROVE  DataOK'
  BY <1>31 DEF PurgeDone, Refresh, Proceed
<1>32. ASSUME NEW t \in Task, PreviewReady(t)
      PROVE  DataOK'
  BY <1>32 DEF PreviewReady, Finish
<1>33. ASSUME NEW t \in Task, PreviewFails(t)
      PROVE  DataOK'
  BY <1>33 DEF PreviewFails, Finish, Failure
<1>34. ASSUME NEW f \in Folder, AskDeleteFolder(f)
      PROVE  DataOK'
  BY <1>34 DEF AskDeleteFolder, FolderToast
<1>35. ASSUME NEW t \in Task, DeleteFolder(t)
      PROVE  DataOK'
  BY <1>35 DEF DeleteFolder, DeleteTree, LeaveFolder, TreeStep, Finish, Failure
<1>36. CASE UNCHANGED vars
  BY <1>36 DEF vars
<1> HIDE DEF DataOK
<1> QED
  BY <1>1, <1>2, <1>3, <1>4, <1>5, <1>6, <1>7, <1>8, <1>9, <1>10, <1>11,
     <1>12, <1>13, <1>14, <1>15, <1>16, <1>17, <1>18, <1>19, <1>20, <1>21,
     <1>22, <1>23, <1>24, <1>25, <1>26, <1>27, <1>28, <1>29, <1>30, <1>31,
     <1>32, <1>33, <1>34, <1>35, <1>36
     DEF Next, Gesture, Continue

LEMMA MountStep ==
    ASSUME DataOK, MountInv, [Next]_vars
    PROVE  MountInv'
<1> USE NilAssumption
    DEF DataOK, MountInv, AllIdle, PageFree, server, page, panel, preview,
        task, history
<1>1. ASSUME NEW t \in Task, NEW p \in Place, Open(t, p)
      PROVE  MountInv'
  BY <1>1 DEF Open, Begin, Unmount
<1>2. ASSUME NEW v \in {"vault", "trash"}, SwitchView(v)
      PROVE  MountInv'
  BY <1>2 DEF SwitchView, Unmount
<1>3. ASSUME NEW d \in Doc, AskDelete(d)
      PROVE  MountInv'
  BY <1>3 DEF AskDelete, Shown
<1>4. ASSUME NEW t \in Task, NEW d \in Doc, Restore(t, d)
      PROVE  MountInv'
  BY <1>4 DEF Restore, Begin, Trashed, InPanel
<1>5. ASSUME NEW t \in Task, NEW d \in Doc, Preview(t, d)
      PROVE  MountInv'
  BY <1>5 DEF Preview, Begin, Shown
<1>6. ASSUME NEW d \in Doc, OtherDevice(d)
      PROVE  MountInv'
  BY <1>6 DEF OtherDevice
<1>7. CASE AskDeleteAll
  BY <1>7 DEF AskDeleteAll
<1>8. CASE DropToast
  BY <1>8 DEF DropToast
<1>9. ASSUME NEW t \in Task, ConfirmToast(t)
      PROVE  MountInv'
  BY <1>9 DEF ConfirmToast, Begin
<1>10. ASSUME NEW x \in Doc \cup {"bin"}, AskPurge(x)
      PROVE  MountInv'
  BY <1>10 DEF AskPurge, Trashed, InPanel
<1>11. CASE CancelPurge
  BY <1>11 DEF CancelPurge
<1>12. ASSUME NEW t \in Task, ConfirmPurge(t)
      PROVE  MountInv'
  BY <1>12 DEF ConfirmPurge, Begin, Trashed
<1>13. CASE ClosePreview
  BY <1>13 DEF ClosePreview
<1>14. ASSUME NEW t \in Task, AnswerList(t)
      PROVE  MountInv'
  BY <1>14 DEF AnswerList, Proceed
<1>15. ASSUME NEW t \in Task, ListArrives(t)
      PROVE  MountInv'
  BY <1>15 DEF ListArrives, Proceed
<1>16. ASSUME NEW t \in Task, LoadFails(t)
      PROVE  MountInv'
  BY <1>16 DEF LoadFails, StopLoading, Finish, Release, Failure
<1>17. ASSUME NEW t \in Task, CreateTag(t)
      PROVE  MountInv'
  BY <1>17 DEF CreateTag, Proceed, Failure
<1>18. ASSUME NEW t \in Task, TagsArrive(t)
      PROVE  MountInv'
  BY <1>18 DEF TagsArrive, StopLoading, Finish, Release
<1>19. ASSUME NEW t \in Task, NEW d \in Doc, AnswerTags(t, d)
      PROVE  MountInv'
  BY <1>19 DEF AnswerTags, Proceed, Failure
<1>20. ASSUME NEW t \in Task, NEW d \in Doc, TagDocument(t, d)
      PROVE  MountInv'
  BY <1>20 DEF TagDocument, Proceed, HandlerFails, StopLoading, Finish,
               Release, Failure
<1>21. ASSUME NEW t \in Task, NEW d \in Doc, DeleteEach(t, d)
      PROVE  MountInv'
  BY <1>21 DEF DeleteEach, Proceed, StopLoading, Finish, Release, Failure
<1>22. ASSUME NEW t \in Task, NEW d \in Doc, DeleteAbandoned(t, d)
      PROVE  MountInv'
  BY <1>22 DEF DeleteAbandoned, Proceed, Finish
<1>23. ASSUME NEW t \in Task, NEW d \in Doc, PurgeDocument(t, d)
      PROVE  MountInv'
  BY <1>23 DEF PurgeDocument, Proceed, Finish, Release, Failure
<1>24. ASSUME NEW t \in Task, DeleteFolderDocuments(t)
      PROVE  MountInv'
  BY <1>24 DEF DeleteFolderDocuments, Proceed, HandlerFails, StopLoading,
               Finish, Release, Failure
<1>25. ASSUME NEW t \in Task, AnswerRelist(t)
      PROVE  MountInv'
  BY <1>25 DEF AnswerRelist, Proceed
<1>26. ASSUME NEW t \in Task, RelistArrives(t)
      PROVE  MountInv'
  BY <1>26 DEF RelistArrives, Proceed, StopLoading, Finish, Release
<1>27. ASSUME NEW t \in Task, RelistFails(t)
      PROVE  MountInv'
  BY <1>27 DEF RelistFails, HandlerFails, StopLoading, Finish, Release,
               Failure
<1>28. ASSUME NEW t \in Task, AnswerRetag(t)
      PROVE  MountInv'
  BY <1>28 DEF AnswerRetag, Proceed
<1>29. ASSUME NEW t \in Task, RetagArrives(t)
      PROVE  MountInv'
  BY <1>29 DEF RetagArrives, StopLoading, Finish, Release
<1>30. ASSUME NEW t \in Task, UntagDocument(t)
      PROVE  MountInv'
  BY <1>30 DEF UntagDocument, Refresh, Proceed, Finish, Release, Failure
<1>31. ASSUME NEW t \in Task, PurgeDone(t)
      PROVE  MountInv'
  BY <1>31 DEF PurgeDone, Refresh, Proceed
<1>32. ASSUME NEW t \in Task, PreviewReady(t)
      PROVE  MountInv'
  BY <1>32 DEF PreviewReady, Finish
<1>33. ASSUME NEW t \in Task, PreviewFails(t)
      PROVE  MountInv'
  BY <1>33 DEF PreviewFails, Finish, Failure
<1>34. ASSUME NEW f \in Folder, AskDeleteFolder(f)
      PROVE  MountInv'
  BY <1>34 DEF AskDeleteFolder, FolderToast
<1>35. ASSUME NEW t \in Task, DeleteFolder(t)
      PROVE  MountInv'
  BY <1>35 DEF DeleteFolder, DeleteTree, LeaveFolder, TreeStep, Finish, Failure,
               Place
<1>36. CASE UNCHANGED vars
  BY <1>36 DEF vars
<1> HIDE DEF DataOK, MountInv
<1> QED
  BY <1>1, <1>2, <1>3, <1>4, <1>5, <1>6, <1>7, <1>8, <1>9, <1>10, <1>11,
     <1>12, <1>13, <1>14, <1>15, <1>16, <1>17, <1>18, <1>19, <1>20, <1>21,
     <1>22, <1>23, <1>24, <1>25, <1>26, <1>27, <1>28, <1>29, <1>30, <1>31,
     <1>32, <1>33, <1>34, <1>35, <1>36
     DEF Next, Gesture, Continue

LEMMA BinStep ==
    ASSUME DataOK, MountInv, BinInv, [Next]_vars
    PROVE  BinInv'
<1> USE NilAssumption
    DEF DataOK, BinInv, PurgedWasBinned, ToastStep, Toasts, server, page,
        panel, preview, task, history
<1>1. ASSUME NEW t \in Task, NEW p \in Place, Open(t, p)
      PROVE  BinInv'
  BY <1>1 DEF Open, Begin, Unmount
<1>2. ASSUME NEW v \in {"vault", "trash"}, SwitchView(v)
      PROVE  BinInv'
  BY <1>2 DEF SwitchView, Unmount
<1>3. ASSUME NEW d \in Doc, AskDelete(d)
      PROVE  BinInv'
  BY <1>3 DEF AskDelete, Shown
<1>4. ASSUME NEW t \in Task, NEW d \in Doc, Restore(t, d)
      PROVE  BinInv'
  BY <1>4 DEF Restore, Begin, Trashed, InPanel
<1>5. ASSUME NEW t \in Task, NEW d \in Doc, Preview(t, d)
      PROVE  BinInv'
  BY <1>5 DEF Preview, Begin, Shown
<1>6. ASSUME NEW d \in Doc, OtherDevice(d)
      PROVE  BinInv'
  BY <1>6 DEF OtherDevice
<1>7. CASE AskDeleteAll
  BY <1>7 DEF AskDeleteAll
<1>8. CASE DropToast
  BY <1>8 DEF DropToast
<1>9. ASSUME NEW t \in Task, ConfirmToast(t)
      PROVE  BinInv'
  BY <1>9 DEF ConfirmToast, Begin
<1>10. ASSUME NEW x \in Doc \cup {"bin"}, AskPurge(x)
      PROVE  BinInv'
  BY <1>10 DEF AskPurge, Trashed, InPanel
<1>11. CASE CancelPurge
  BY <1>11 DEF CancelPurge
<1>12. ASSUME NEW t \in Task, ConfirmPurge(t)
      PROVE  BinInv'
  BY <1>12 DEF ConfirmPurge, Begin, Trashed
<1>13. CASE ClosePreview
  BY <1>13 DEF ClosePreview
<1>14. ASSUME NEW t \in Task, AnswerList(t)
      PROVE  BinInv'
  BY <1>14 DEF AnswerList, Proceed
<1>15. ASSUME NEW t \in Task, ListArrives(t)
      PROVE  BinInv'
  BY <1>15 DEF ListArrives, Proceed
<1>16. ASSUME NEW t \in Task, LoadFails(t)
      PROVE  BinInv'
  BY <1>16 DEF LoadFails, StopLoading, Finish, Release, Failure
<1>17. ASSUME NEW t \in Task, CreateTag(t)
      PROVE  BinInv'
  BY <1>17 DEF CreateTag, Proceed, Failure
<1>18. ASSUME NEW t \in Task, TagsArrive(t)
      PROVE  BinInv'
  BY <1>18 DEF TagsArrive, StopLoading, Finish, Release
<1>19. ASSUME NEW t \in Task, NEW d \in Doc, AnswerTags(t, d)
      PROVE  BinInv'
  BY <1>19 DEF AnswerTags, Proceed, Failure
<1>20. ASSUME NEW t \in Task, NEW d \in Doc, TagDocument(t, d)
      PROVE  BinInv'
  BY <1>20 DEF TagDocument, Proceed, HandlerFails, StopLoading, Finish,
               Release, Failure
<1>21. ASSUME NEW t \in Task, NEW d \in Doc, DeleteEach(t, d)
      PROVE  BinInv'
  BY <1>21 DEF DeleteEach, Proceed, StopLoading, Finish, Release, Failure
<1>22. ASSUME NEW t \in Task, NEW d \in Doc, DeleteAbandoned(t, d)
      PROVE  BinInv'
  BY <1>22 DEF DeleteAbandoned, Proceed, Finish
<1>23. ASSUME NEW t \in Task, NEW d \in Doc, PurgeDocument(t, d)
      PROVE  BinInv'
  BY <1>23 DEF PurgeDocument, Proceed, Finish, Release, Failure
<1>24. ASSUME NEW t \in Task, DeleteFolderDocuments(t)
      PROVE  BinInv'
  BY <1>24 DEF DeleteFolderDocuments, Proceed, HandlerFails, StopLoading,
               Finish, Release, Failure
<1>25. ASSUME NEW t \in Task, AnswerRelist(t)
      PROVE  BinInv'
  BY <1>25 DEF AnswerRelist, Proceed
<1>26. ASSUME NEW t \in Task, RelistArrives(t)
      PROVE  BinInv'
  BY <1>26 DEF RelistArrives, Proceed, StopLoading, Finish, Release
<1>27. ASSUME NEW t \in Task, RelistFails(t)
      PROVE  BinInv'
  BY <1>27 DEF RelistFails, HandlerFails, StopLoading, Finish, Release,
               Failure
<1>28. ASSUME NEW t \in Task, AnswerRetag(t)
      PROVE  BinInv'
  BY <1>28 DEF AnswerRetag, Proceed
<1>29. ASSUME NEW t \in Task, RetagArrives(t)
      PROVE  BinInv'
  BY <1>29 DEF RetagArrives, StopLoading, Finish, Release
<1>30. ASSUME NEW t \in Task, UntagDocument(t)
      PROVE  BinInv'
  BY <1>30 DEF UntagDocument, Refresh, Proceed, Finish, Release, Failure
<1>31. ASSUME NEW t \in Task, PurgeDone(t)
      PROVE  BinInv'
  BY <1>31 DEF PurgeDone, Refresh, Proceed
<1>32. ASSUME NEW t \in Task, PreviewReady(t)
      PROVE  BinInv'
  BY <1>32 DEF PreviewReady, Finish
<1>33. ASSUME NEW t \in Task, PreviewFails(t)
      PROVE  BinInv'
  BY <1>33 DEF PreviewFails, Finish, Failure
<1>34. ASSUME NEW f \in Folder, AskDeleteFolder(f)
      PROVE  BinInv'
  BY <1>34 DEF AskDeleteFolder, FolderToast
<1>35. ASSUME NEW t \in Task, DeleteFolder(t)
      PROVE  BinInv'
  BY <1>35 DEF DeleteFolder, DeleteTree, LeaveFolder, TreeStep, Finish, Failure
<1>36. CASE UNCHANGED vars
  BY <1>36 DEF vars
<1> HIDE DEF DataOK, BinInv, PurgedWasBinned
<1> QED
  BY <1>1, <1>2, <1>3, <1>4, <1>5, <1>6, <1>7, <1>8, <1>9, <1>10, <1>11,
     <1>12, <1>13, <1>14, <1>15, <1>16, <1>17, <1>18, <1>19, <1>20, <1>21,
     <1>22, <1>23, <1>24, <1>25, <1>26, <1>27, <1>28, <1>29, <1>30, <1>31,
     <1>32, <1>33, <1>34, <1>35, <1>36
     DEF Next, Gesture, Continue

LEMMA ListingStep ==
    ASSUME DataOK, MountInv, ListingInv, [Next]_vars
    PROVE  ListingInv'
<1> USE HomeAssumption
    DEF DataOK, ListingInv, ListingIsOneFolder, Listed, ToastStep, Toasts,
        server, page, panel, preview, task, history
<1>1. ASSUME NEW t \in Task, NEW p \in Place, Open(t, p)
      PROVE  ListingInv'
  BY <1>1 DEF Open, Begin, Unmount
<1>2. ASSUME NEW v \in {"vault", "trash"}, SwitchView(v)
      PROVE  ListingInv'
  BY <1>2 DEF SwitchView, Unmount
<1>3. ASSUME NEW d \in Doc, AskDelete(d)
      PROVE  ListingInv'
  BY <1>3 DEF AskDelete, Shown
<1>4. ASSUME NEW t \in Task, NEW d \in Doc, Restore(t, d)
      PROVE  ListingInv'
  BY <1>4 DEF Restore, Begin, Trashed, InPanel
<1>5. ASSUME NEW t \in Task, NEW d \in Doc, Preview(t, d)
      PROVE  ListingInv'
  BY <1>5 DEF Preview, Begin, Shown
<1>6. ASSUME NEW d \in Doc, OtherDevice(d)
      PROVE  ListingInv'
  BY <1>6 DEF OtherDevice
<1>7. CASE AskDeleteAll
  BY <1>7 DEF AskDeleteAll
<1>8. CASE DropToast
  BY <1>8 DEF DropToast
<1>9. ASSUME NEW t \in Task, ConfirmToast(t)
      PROVE  ListingInv'
  BY <1>9 DEF ConfirmToast, Begin
<1>10. ASSUME NEW x \in Doc \cup {"bin"}, AskPurge(x)
      PROVE  ListingInv'
  BY <1>10 DEF AskPurge, Trashed, InPanel
<1>11. CASE CancelPurge
  BY <1>11 DEF CancelPurge
<1>12. ASSUME NEW t \in Task, ConfirmPurge(t)
      PROVE  ListingInv'
  BY <1>12 DEF ConfirmPurge, Begin, Trashed
<1>13. CASE ClosePreview
  BY <1>13 DEF ClosePreview
<1>14. ASSUME NEW t \in Task, AnswerList(t)
      PROVE  ListingInv'
  BY <1>14 DEF AnswerList, Proceed
<1>15. ASSUME NEW t \in Task, ListArrives(t)
      PROVE  ListingInv'
  BY <1>15 DEF ListArrives, Proceed
<1>16. ASSUME NEW t \in Task, LoadFails(t)
      PROVE  ListingInv'
  BY <1>16 DEF LoadFails, StopLoading, Finish, Release, Failure
<1>17. ASSUME NEW t \in Task, CreateTag(t)
      PROVE  ListingInv'
  BY <1>17 DEF CreateTag, Proceed, Failure
<1>18. ASSUME NEW t \in Task, TagsArrive(t)
      PROVE  ListingInv'
  BY <1>18 DEF TagsArrive, StopLoading, Finish, Release
<1>19. ASSUME NEW t \in Task, NEW d \in Doc, AnswerTags(t, d)
      PROVE  ListingInv'
  BY <1>19 DEF AnswerTags, Proceed, Failure
<1>20. ASSUME NEW t \in Task, NEW d \in Doc, TagDocument(t, d)
      PROVE  ListingInv'
  BY <1>20 DEF TagDocument, Proceed, HandlerFails, StopLoading, Finish,
               Release, Failure
<1>21. ASSUME NEW t \in Task, NEW d \in Doc, DeleteEach(t, d)
      PROVE  ListingInv'
  BY <1>21 DEF DeleteEach, Proceed, StopLoading, Finish, Release, Failure
<1>22. ASSUME NEW t \in Task, NEW d \in Doc, DeleteAbandoned(t, d)
      PROVE  ListingInv'
  BY <1>22 DEF DeleteAbandoned, Proceed, Finish
<1>23. ASSUME NEW t \in Task, NEW d \in Doc, PurgeDocument(t, d)
      PROVE  ListingInv'
  BY <1>23 DEF PurgeDocument, Proceed, Finish, Release, Failure
<1>24. ASSUME NEW t \in Task, DeleteFolderDocuments(t)
      PROVE  ListingInv'
  BY <1>24 DEF DeleteFolderDocuments, Proceed, HandlerFails, StopLoading,
               Finish, Release, Failure
<1>25. ASSUME NEW t \in Task, AnswerRelist(t)
      PROVE  ListingInv'
  BY <1>25 DEF AnswerRelist, Proceed
<1>26. ASSUME NEW t \in Task, RelistArrives(t)
      PROVE  ListingInv'
  BY <1>26 DEF RelistArrives, Proceed, StopLoading, Finish, Release
<1>27. ASSUME NEW t \in Task, RelistFails(t)
      PROVE  ListingInv'
  BY <1>27 DEF RelistFails, HandlerFails, StopLoading, Finish, Release,
               Failure
<1>28. ASSUME NEW t \in Task, AnswerRetag(t)
      PROVE  ListingInv'
  BY <1>28 DEF AnswerRetag, Proceed
<1>29. ASSUME NEW t \in Task, RetagArrives(t)
      PROVE  ListingInv'
  BY <1>29 DEF RetagArrives, StopLoading, Finish, Release
<1>30. ASSUME NEW t \in Task, UntagDocument(t)
      PROVE  ListingInv'
  BY <1>30 DEF UntagDocument, Refresh, Proceed, Finish, Release, Failure
<1>31. ASSUME NEW t \in Task, PurgeDone(t)
      PROVE  ListingInv'
  BY <1>31 DEF PurgeDone, Refresh, Proceed
<1>32. ASSUME NEW t \in Task, PreviewReady(t)
      PROVE  ListingInv'
  BY <1>32 DEF PreviewReady, Finish
<1>33. ASSUME NEW t \in Task, PreviewFails(t)
      PROVE  ListingInv'
  BY <1>33 DEF PreviewFails, Finish, Failure
<1>34. ASSUME NEW f \in Folder, AskDeleteFolder(f)
      PROVE  ListingInv'
  BY <1>34 DEF AskDeleteFolder, FolderToast
<1>35. ASSUME NEW t \in Task, DeleteFolder(t)
      PROVE  ListingInv'
  BY <1>35 DEF DeleteFolder, DeleteTree, LeaveFolder, TreeStep, Finish, Failure
<1>36. CASE UNCHANGED vars
  BY <1>36 DEF vars
<1> HIDE DEF DataOK, ListingInv, ListingIsOneFolder
<1> QED
  BY <1>1, <1>2, <1>3, <1>4, <1>5, <1>6, <1>7, <1>8, <1>9, <1>10, <1>11,
     <1>12, <1>13, <1>14, <1>15, <1>16, <1>17, <1>18, <1>19, <1>20, <1>21,
     <1>22, <1>23, <1>24, <1>25, <1>26, <1>27, <1>28, <1>29, <1>30, <1>31,
     <1>32, <1>33, <1>34, <1>35, <1>36
     DEF Next, Gesture, Continue

\* The three ways in which the handler in flight moves.
LEMMA CalmAlone ==
    ASSUME CalmInv, calm, NEW t \in Task, step[t] # "idle"
    PROVE  /\ CalmTask(t) /\ \A u \in Task \ {t} : step[u] = "idle"
           /\ \A u \in panelTask : u \in Task /\ processing /\ step[u] # "idle" => u = t
           /\ processing => \E u \in panelTask : step[u] # "idle"
<1>1. CalmBody
  BY DEF CalmInv
<1> HIDE DEF CalmTask
<1> QED
  BY <1>1 DEF CalmBody

LEMMA CalmBegin ==
    ASSUME DataOK, CalmInv, calm', NEW t \in Task, NEW s \in Steps \ {"idle"}, NEW p,
           NEW ds, NEW ls, Begin(t, s, p, ds, ls),
           calm /\ AllIdle => CalmTask(t)',
           processing' => t \in panelTask',
           toast' \in {toast, Nil},
           (previewDoc' = previewDoc /\ previewBytes' = previewBytes) \/ previewBytes' = Nil
    PROVE  CalmBody'
<1>1. calm /\ AllIdle
  BY Zenon DEF Begin
<1>2. step'[t] = s /\ \A u \in Task \ {t} : step'[u] = "idle"
  BY <1>1 DEF Begin, DataOK, AllIdle
<1>3. CalmBody
  BY <1>1 DEF CalmInv
<1>4. CalmTask(t)'
  BY <1>1
<1>5. \A u, v \in Task : step'[u] # "idle" /\ step'[v] # "idle" => u = v
  BY <1>2
<1>6. \A u \in Task : step'[u] # "idle" => CalmTask(u)'
  <2> SUFFICES ASSUME NEW u \in Task, step'[u] # "idle" PROVE CalmTask(u)'
    OBVIOUS
  <2>1. u = t
    BY <1>2
  <2> QED
    BY <1>4, <2>1
<1>7. (AllIdle /\ current # Nil => Settled)'
  BY <1>2 DEF AllIdle
<1>8. processing' => \E u \in panelTask' : step'[u] # "idle"
  BY <1>2
<1>9. ToastInv' /\ (previewDoc' # Nil => previewBytes' \in {Nil, previewDoc'})
  BY <1>3 DEF CalmBody, ToastInv
<1> QED
  BY <1>5, <1>6, <1>7, <1>8, <1>9 DEF CalmBody

LEMMA CalmProceed ==
    ASSUME DataOK, CalmInv, calm, NEW t \in Task, step[t] # "idle",
           NEW s \in Steps \ {"idle"}, step' = [step EXCEPT ![t] = s],
           CalmTask(t)', toast' = toast, processing' = processing,
           panelTask' = panelTask, previewDoc' = previewDoc, previewBytes' = previewBytes
    PROVE  CalmBody'
<1>1. CalmBody
  BY DEF CalmInv
<1>2. step'[t] = s /\ \A u \in Task \ {t} : step'[u] = "idle"
  <2>1. \A u \in Task \ {t} : step[u] = "idle"
    BY <1>1 DEF CalmBody
  <2> QED
    BY <2>1 DEF DataOK
<1>3. \A u \in Task : step'[u] # "idle" => CalmTask(u)'
  <2> SUFFICES ASSUME NEW u \in Task, step'[u] # "idle" PROVE CalmTask(u)'
    OBVIOUS
  <2>1. u = t
    BY <1>2
  <2> QED
    BY <2>1
<1>4. (AllIdle /\ current # Nil => Settled)'
  BY <1>2 DEF AllIdle
<1>5. processing' => \E u \in panelTask' : step'[u] # "idle"
  <2>1. processing => \E u \in panelTask : step[u] # "idle"
    BY <1>1 DEF CalmBody
  <2>2. \A u \in panelTask : step[u] # "idle" => step'[u] # "idle"
    BY <1>2 DEF DataOK
  <2> QED
    BY <2>1, <2>2
<1>6. ToastInv' /\ (previewDoc' # Nil => previewBytes' \in {Nil, previewDoc'})
  BY <1>1 DEF CalmBody, ToastInv
<1>7. \A u, v \in Task : step'[u] # "idle" /\ step'[v] # "idle" => u = v
  BY <1>2
<1> QED
  BY <1>3, <1>4, <1>5, <1>6, <1>7 DEF CalmBody

LEMMA CalmFinish ==
    ASSUME DataOK, CalmInv, calm, NEW t \in Task, step[t] # "idle", StopLoading(t),
           (documents = Listed(current))', Agree(documents)',
           toast' = toast, previewDoc' = previewDoc, previewBytes' = previewBytes
    PROVE  CalmBody'
<1>1. CalmBody
  BY DEF CalmInv
<1>2. AllIdle'
  <2>1. \A u \in Task \ {t} : step[u] = "idle"
    BY <1>1 DEF CalmBody
  <2> QED
    BY <2>1 DEF StopLoading, Finish, AllIdle, DataOK
<1>3. ~processing'
  <2>1. processing => t \in panelTask
    BY <1>1 DEF CalmBody, DataOK
  <2> QED
    BY <2>1, Zenon DEF StopLoading, Release
<1>4. ~loadingDocs'
  BY DEF StopLoading
<1>5. ToastInv' /\ (previewDoc' # Nil => previewBytes' \in {Nil, previewDoc'})
  BY <1>1 DEF CalmBody, ToastInv
<1>6. (AllIdle /\ current # Nil => Settled)'
  BY <1>3, <1>4 DEF Settled
<1> QED
  BY <1>2, <1>3, <1>5, <1>6 DEF CalmBody, AllIdle

LEMMA CalmStep ==
    ASSUME FlagsOK, DataOK, MountInv, CalmInv, [Next]_vars
    PROVE  CalmInv'
<1> SUFFICES ASSUME calm' PROVE CalmBody'
  BY DEF CalmInv
<1> USE NilAssumption
    DEF DataOK, MountInv, CalmInv, CalmBody, CalmTask, Settled, Agree,
        AllIdle, Listed, ToastInv, ToastStep, server, page, panel, preview, task,
        history
<1>1. ASSUME NEW t \in Task, NEW p \in Place, Open(t, p)
      PROVE  CalmBody'
  <2> HIDE DEF CalmInv, CalmBody, CalmTask, ToastInv, Settled, Agree, Listed, AllIdle,
           MountInv
  <2>1. Begin(t, "list", p, {}, {})
    BY <1>1 DEF Open
  <2>2. step'[t] = "list" /\ place'[t] = p /\ docs'[t] = {} /\ left'[t] = {}
    BY <2>1 DEF Begin
  <2>3. CalmTask(t)'
    BY <1>1, <2>2 DEF Open, CalmTask
  <2>4. "list" \in Steps \ {"idle"}
    BY DEF Steps
  <2> QED
    BY <1>1, <2>1, <2>3, <2>4, CalmBegin DEF Open, Unmount
<1>2. ASSUME NEW v \in {"vault", "trash"}, SwitchView(v)
      PROVE  CalmBody'
  BY <1>2 DEF SwitchView, Unmount
<1>3. ASSUME NEW d \in Doc, AskDelete(d)
      PROVE  CalmBody'
  BY <1>3 DEF AskDelete, Shown
<1>4. ASSUME NEW t \in Task, NEW d \in Doc, Restore(t, d)
      PROVE  CalmBody'
  <2> HIDE DEF CalmInv, CalmBody, CalmTask, ToastInv, Settled, Agree, Listed, AllIdle,
           MountInv
  <2>1. Begin(t, "untag", current, {}, {d})
    BY <1>4 DEF Restore
  <2>2. step'[t] = "untag" /\ place'[t] = current /\ docs'[t] = {} /\ left'[t] = {d}
    BY <2>1 DEF Begin
  <2>3. CalmTask(t)'
    BY <1>4, <2>2 DEF Restore, CalmTask
  <2>4. "untag" \in Steps \ {"idle"}
    BY DEF Steps
  <2> QED
    BY <1>4, <2>1, <2>3, <2>4, CalmBegin DEF Restore
<1>5. ASSUME NEW t \in Task, NEW d \in Doc, Preview(t, d)
      PROVE  CalmBody'
  <2> HIDE DEF CalmInv, CalmBody, CalmTask, ToastInv, Settled, Agree, Listed, AllIdle,
           MountInv
  <2>1. Begin(t, "preview", current, {d}, {})
    BY <1>5 DEF Preview
  <2>2. step'[t] = "preview" /\ place'[t] = current /\ docs'[t] = {d} /\ left'[t] = {}
    BY <2>1 DEF Begin
  <2>5. ASSUME calm, AllIdle
        PROVE  Settled
    BY <1>5, <2>5 DEF Preview, Shown, CalmInv, CalmBody, MountInv
  <2>6. Settled => Settled'
    BY <1>5 DEF Preview, Settled, Agree, Listed
  <2>3. calm /\ AllIdle => CalmTask(t)'
    BY <1>5, <2>2, <2>5, <2>6 DEF Preview, CalmTask
  <2>4. "preview" \in Steps \ {"idle"}
    BY DEF Steps
  <2> QED
    <3>1. calm /\ AllIdle
      BY <2>1, Zenon DEF Begin
    <3>2. ~processing
      BY <2>5, <3>1 DEF Settled
    <3> QED
      BY <1>5, <2>1, <2>3, <2>4, <3>2, CalmBegin DEF Preview
<1>6. ASSUME NEW d \in Doc, OtherDevice(d)
      PROVE  CalmBody'
  BY <1>6 DEF OtherDevice
<1>7. CASE AskDeleteAll
  <2> HIDE DEF CalmInv, CalmBody, CalmTask, ToastInv, Settled, Agree, Listed, AllIdle,
           MountInv
  <2>1. calm /\ AllIdle
    BY <1>7, Zenon DEF AskDeleteAll
  <2>2. current # Nil /\ CalmBody
    BY <1>7, <2>1 DEF AskDeleteAll, MountInv, CalmInv
  <2>3. Settled
    BY <2>1, <2>2 DEF CalmBody
  <2>4. \A d \in documents : Home[d] = current
    BY <2>3 DEF Settled, Listed
  <2>5. Settled' /\ AllIdle'
    BY <1>7, <2>1, <2>3 DEF AskDeleteAll, Settled, Agree, Listed, AllIdle
  <2>6. /\ ToastInv'
        /\ previewDoc' = previewDoc /\ previewBytes' = previewBytes
    BY <1>7, <2>4 DEF AskDeleteAll, ToastInv
  <2>7. ~processing'
    BY <2>5 DEF Settled
  <2> QED
    BY <2>2, <2>5, <2>6, <2>7 DEF CalmBody, AllIdle
<1>8. CASE DropToast
  BY <1>8 DEF DropToast
<1>9. ASSUME NEW t \in Task, ConfirmToast(t)
      PROVE  CalmBody'
  <2> HIDE DEF CalmInv, CalmBody, CalmTask, ToastInv, Settled, Agree, Listed, AllIdle,
           MountInv
  <2>1. CASE Begin(t, toast.act, toast.place, {}, toast.docs)
    <3>1. calm /\ AllIdle /\ (toast.act \in ToastStep => AskedHere(toast.act, toast.place))
      BY <2>1, Zenon DEF Begin
    <3>2. toast.act \in ToastStep /\ toast.act \in Steps \ {"idle"}
      BY <1>9 DEF ConfirmToast, Toasts, Steps
    <3>3. /\ toast.act # "delete_tree" => toast.place = current
          /\ toast.act = "delete_tree" => current \notin Tree[toast.place]
          /\ current # Nil /\ toast # Nil
      BY <1>9, <3>1, <3>2 DEF ConfirmToast, MountInv, AskedHere
    <3>4. Settled /\ ToastInv
      BY <1>9, <3>1, <3>3 DEF CalmInv, CalmBody, ConfirmToast
    <3>5. /\ step'[t] = toast.act /\ place'[t] = toast.place /\ left'[t] = toast.docs
          /\ UNCHANGED <<current, documents, docTagsCache, row, binned, processing>>
      BY <1>9, <2>1, <3>4 DEF Begin, ConfirmToast, Settled
    <3>6. CalmTask(t)'
      <4>1. CASE toast.act = "delete_tree"
        <5>1. ~loadingDocs'
          BY <1>9, <2>1, <3>4, <4>1 DEF ConfirmToast, Settled, TreeStep
        <5> QED
          BY <3>3, <3>4, <3>5, <4>1, <5>1 DEF CalmTask, Settled, Agree, Listed
      <4>2. CASE toast.act # "delete_tree"
        BY <3>2, <3>3, <3>4, <3>5, <4>2
           DEF CalmTask, ToastInv, Settled, Agree, Listed
      <4> QED
        BY <4>1, <4>2
    <3>7. processing => t \in panelTask
      BY <3>4 DEF Settled
    <3> QED
      BY <1>9, <2>1, <3>2, <3>6, <3>7, CalmBegin DEF ConfirmToast
  <2>2. CASE loadingDocs' = FALSE /\ UNCHANGED <<task, history>>
    <3>1. CalmBody
      BY <2>2 DEF CalmInv
    <3>2. /\ toast' = Nil /\ loadingDocs' = FALSE
          /\ UNCHANGED <<row, binned, current, documents, docTagsCache, confirming,
                         processing, panelTask, previewDoc, previewBytes>>
      BY <1>9, <2>2 DEF ConfirmToast
    <3>3. AllIdle' <=> AllIdle
      BY <2>2 DEF AllIdle
    <3>4. Settled => Settled'
      BY <3>2 DEF Settled, Agree, Listed
    <3>5. \A u \in Task : CalmTask(u) => CalmTask(u)'
      BY <2>2, <3>2, <3>4 DEF CalmTask, Agree, Listed
    <3> QED
      BY <2>2, <3>1, <3>2, <3>3, <3>4, <3>5 DEF CalmBody, ToastInv
  <2> QED
    BY <1>9, <2>1, <2>2 DEF ConfirmToast
<1>10. ASSUME NEW x \in Doc \cup {"bin"}, AskPurge(x)
      PROVE  CalmBody'
  BY <1>10 DEF AskPurge, Trashed, InPanel
<1>11. CASE CancelPurge
  BY <1>11 DEF CancelPurge
<1>12. ASSUME NEW t \in Task, ConfirmPurge(t)
      PROVE  CalmBody'
  <2> HIDE DEF CalmInv, CalmBody, CalmTask, ToastInv, Settled, Agree, Listed, AllIdle,
           MountInv
  <2>1. PICK s \in {"purge", "purge_all"}, ls \in SUBSET Doc \cup {{confirming}} :
          Begin(t, s, current, {}, ls)
    BY <1>12 DEF ConfirmPurge, Trashed
  <2>2. step'[t] = s /\ place'[t] = current
    BY <2>1 DEF Begin
  <2>3. CalmTask(t)'
    BY <1>12, <2>2 DEF ConfirmPurge, CalmTask
  <2>4. s \in Steps \ {"idle"}
    BY DEF Steps
  <2> QED
    BY <1>12, <2>1, <2>3, <2>4, CalmBegin DEF ConfirmPurge
<1>13. CASE ClosePreview
  BY <1>13 DEF ClosePreview
<1>14. ASSUME NEW t \in Task, AnswerList(t)
      PROVE  CalmBody'
  BY <1>14 DEF AnswerList, Proceed
<1>15. ASSUME NEW t \in Task, ListArrives(t)
      PROVE  CalmBody'
  BY <1>15 DEF ListArrives, Proceed
<1>16. ASSUME NEW t \in Task, LoadFails(t)
      PROVE  CalmBody'
  BY <1>16 DEF LoadFails, StopLoading, Finish, Release, Failure
<1>17. ASSUME NEW t \in Task, CreateTag(t)
      PROVE  CalmBody'
  <2> HIDE DEF CalmInv, CalmBody, CalmTask, ToastInv, Settled, Agree, Listed, AllIdle,
           MountInv
  <2>1. calm /\ step' = [step EXCEPT ![t] = "tags"]
    BY <1>17, Zenon DEF CreateTag, Proceed, Failure
  <2>2. step[t] \in {"create_tag"}
    BY <1>17 DEF CreateTag
  <2>3. CalmTask(t)
    BY <2>1, <2>2, CalmAlone
  <2>4. CalmTask(t)'
    BY <1>17, <2>1, <2>2, <2>3 DEF CreateTag, Proceed, Failure, CalmTask, Listed
  <2>5. "tags" \in Steps \ {"idle"} /\ step[t] # "idle"
    BY <2>2 DEF Steps
  <2>6. UNCHANGED <<toast, processing, panelTask, previewDoc, previewBytes>>
    BY <1>17, <2>1 DEF CreateTag, Proceed, Failure
  <2> QED
    BY <2>1, <2>4, <2>5, <2>6, CalmProceed
<1>18. ASSUME NEW t \in Task, TagsArrive(t)
      PROVE  CalmBody'
  <2> HIDE DEF CalmInv, CalmBody, CalmTask, ToastInv, Settled, Agree, Listed, AllIdle,
           MountInv
  <2>1. step[t] \in {"tags"} /\ calm
    BY <1>18 DEF TagsArrive
  <2>2. CalmTask(t)
    BY <2>1, CalmAlone
  <2>3. (documents = Listed(current))' /\ Agree(documents)'
    BY <1>18, <2>1, <2>2 DEF TagsArrive, CalmTask, Agree, Listed
  <2> QED
    BY <1>18, <2>1, <2>3, CalmFinish DEF TagsArrive
<1>19. ASSUME NEW t \in Task, NEW d \in Doc, AnswerTags(t, d)
      PROVE  CalmBody'
  <2> HIDE DEF CalmInv, CalmBody, CalmTask, ToastInv, Settled, Agree, Listed, AllIdle,
           MountInv
  <2>1. calm /\ step' = [step EXCEPT ![t] = "tags"]
    BY <1>19, Zenon DEF AnswerTags, Proceed, Failure
  <2>2. step[t] \in {"tags"}
    BY <1>19 DEF AnswerTags
  <2>3. CalmTask(t)
    BY <2>1, <2>2, CalmAlone
  <2>7. /\ documents = Listed(current) /\ place[t] = current
        /\ \A e \in documents \ left[t] : e \in docs[t] <=> e \in binned
        /\ docs[t] \cap left[t] = {}
    BY <2>2, <2>3 DEF CalmTask
  <2>9. Proceed(t, "tags", IF d \in binned /\ row[d] = "active" THEN docs[t] \cup {d}
                          ELSE docs[t], left[t] \ {d})
    BY <1>19, Zenon DEF AnswerTags, Failure
  <2>8. /\ docs'[t] = IF d \in binned /\ row[d] = "active" THEN docs[t] \cup {d}
                      ELSE docs[t]
        /\ left'[t] = left[t] \ {d} /\ step'[t] = "tags" /\ place'[t] = place[t]
    BY <2>9 DEF Proceed
  <2>10. UNCHANGED <<documents, current, row, binned>>
    BY <1>19 DEF AnswerTags
  <2>11. documents' = Listed(current)'
    BY <2>7, <2>10 DEF Listed
  <2>12. \A e \in documents' \ left'[t] : e \in docs'[t] <=> e \in binned'
    <3> SUFFICES ASSUME NEW e \in documents, e \notin left'[t]
                 PROVE  e \in docs'[t] <=> e \in binned
      BY <2>10
    <3>1. CASE e = d
      <4>1. row[d] = "active"
        BY <2>7, <3>1 DEF Listed
      <4>2. d \in left[t]
        BY <1>19 DEF AnswerTags
      <4> QED
        BY <2>7, <2>8, <3>1, <4>1, <4>2
    <3>2. CASE e # d
      BY <2>7, <2>8, <3>2
    <3> QED
      BY <3>1, <3>2
  <2>13. docs'[t] \cap left'[t] = {}
    BY <2>7, <2>8
  <2>4. CalmTask(t)'
    BY <2>7, <2>8, <2>10, <2>11, <2>12, <2>13 DEF CalmTask
  <2>5. "tags" \in Steps \ {"idle"} /\ step[t] # "idle"
    BY <2>2 DEF Steps
  <2>6. UNCHANGED <<toast, processing, panelTask, previewDoc, previewBytes>>
    BY <1>19, <2>1 DEF AnswerTags, Proceed, Failure
  <2> QED
    BY <2>1, <2>4, <2>5, <2>6, CalmProceed
<1>20. ASSUME NEW t \in Task, NEW d \in Doc, TagDocument(t, d)
      PROVE  CalmBody'
  <2> HIDE DEF CalmInv, CalmBody, CalmTask, ToastInv, Settled, Agree, Listed, AllIdle,
           MountInv
  <2>1. calm /\ step' = [step EXCEPT ![t] = "relist"]
    BY <1>20, Zenon DEF TagDocument, Proceed, HandlerFails, StopLoading, Failure
  <2>2. step[t] \in {"tag"}
    BY <1>20 DEF TagDocument
  <2>3. CalmTask(t)
    BY <2>1, <2>2, CalmAlone
  <2>4. CalmTask(t)'
    BY <1>20, <2>1, <2>2, <2>3 DEF TagDocument, Proceed, HandlerFails,
         StopLoading, Failure, CalmTask, Agree, Listed
  <2>5. "relist" \in Steps \ {"idle"} /\ step[t] # "idle"
    BY <2>2 DEF Steps
  <2>6. UNCHANGED <<toast, processing, panelTask, previewDoc, previewBytes>>
    BY <1>20, <2>1 DEF TagDocument, Proceed, HandlerFails, StopLoading, Failure
  <2> QED
    BY <2>1, <2>4, <2>5, <2>6, CalmProceed
<1>21. ASSUME NEW t \in Task, NEW d \in Doc, DeleteEach(t, d)
      PROVE  CalmBody'
  <2> HIDE DEF CalmInv, CalmBody, CalmTask, ToastInv, Settled, Agree, Listed, AllIdle,
           MountInv
  <2>1. PICK s \in {"delete_each", "relist"} : calm /\ step' = [step EXCEPT ![t] = s]
    BY <1>21, Zenon DEF DeleteEach, Proceed, Failure
  <2>2. step[t] \in {"delete_each"} /\ step'[t] = s
    BY <1>21, <2>1 DEF DeleteEach
  <2>3. CalmTask(t)
    BY <2>1, <2>2, CalmAlone
  <2>4. CalmTask(t)'
    BY <1>21, <2>1, <2>2, <2>3 DEF DeleteEach, Proceed, Failure, CalmTask,
         Agree, Listed
  <2>5. s \in Steps \ {"idle"} /\ step[t] # "idle"
    BY <2>2 DEF Steps
  <2>6. UNCHANGED <<toast, processing, panelTask, previewDoc, previewBytes>>
    BY <1>21, <2>1 DEF DeleteEach, Proceed, Failure
  <2> QED
    BY <2>1, <2>4, <2>5, <2>6, CalmProceed
<1>22. ASSUME NEW t \in Task, NEW d \in Doc, DeleteAbandoned(t, d)
      PROVE  CalmBody'
  BY <1>22 DEF DeleteAbandoned, Proceed, Finish
<1>23. ASSUME NEW t \in Task, NEW d \in Doc, PurgeDocument(t, d)
      PROVE  CalmBody'
  <2> HIDE DEF CalmInv, CalmBody, CalmTask, ToastInv, Settled, Agree, Listed, AllIdle,
           MountInv
  <2>1. PICK s \in {"purge", "purge_all"} : calm /\ step' = [step EXCEPT ![t] = s]
    BY <1>23, Zenon DEF PurgeDocument, Proceed, Failure
  <2>2. step[t] \in {"purge", "purge_all"} /\ step'[t] = s
    BY <1>23, <2>1 DEF PurgeDocument
  <2>3. CalmTask(t)
    BY <2>1, <2>2, CalmAlone
  <2>4. CalmTask(t)'
    BY <1>23, <2>1, <2>2, <2>3 DEF PurgeDocument, Proceed, Failure, CalmTask,
         Agree, Listed
  <2>5. s \in Steps \ {"idle"} /\ step[t] # "idle"
    BY <2>2 DEF Steps
  <2>6. UNCHANGED <<toast, processing, panelTask, previewDoc, previewBytes>>
    BY <1>23, <2>1 DEF PurgeDocument, Proceed, Failure
  <2> QED
    BY <2>1, <2>4, <2>5, <2>6, CalmProceed
<1>24. ASSUME NEW t \in Task, DeleteFolderDocuments(t)
      PROVE  CalmBody'
  <2> HIDE DEF CalmInv, CalmBody, CalmTask, ToastInv, Settled, Agree, Listed, AllIdle,
           MountInv
  <2>1. calm /\ step' = [step EXCEPT ![t] = "relist"]
    BY <1>24, Zenon DEF DeleteFolderDocuments, Proceed, HandlerFails,
         StopLoading, Failure
  <2>2. step[t] \in {"delete_folder"}
    BY <1>24 DEF DeleteFolderDocuments
  <2>3. CalmTask(t)
    BY <2>1, <2>2, CalmAlone
  <2>4. CalmTask(t)'
    BY <1>24, <2>1, <2>2, <2>3 DEF DeleteFolderDocuments, Proceed,
         HandlerFails, StopLoading, Failure, CalmTask, Agree, Listed
  <2>5. "relist" \in Steps \ {"idle"} /\ step[t] # "idle"
    BY <2>2 DEF Steps
  <2>6. UNCHANGED <<toast, processing, panelTask, previewDoc, previewBytes>>
    BY <1>24, <2>1 DEF DeleteFolderDocuments, Proceed, HandlerFails,
         StopLoading, Failure
  <2> QED
    BY <2>1, <2>4, <2>5, <2>6, CalmProceed
<1>25. ASSUME NEW t \in Task, AnswerRelist(t)
      PROVE  CalmBody'
  BY <1>25 DEF AnswerRelist, Proceed
<1>26. ASSUME NEW t \in Task, RelistArrives(t)
      PROVE  CalmBody'
  <2> HIDE DEF CalmInv, CalmBody, CalmTask, ToastInv, Settled, Agree, Listed, AllIdle,
           MountInv
  <2>1. step[t] = "relisted" /\ calm
    BY <1>26 DEF RelistArrives
  <2>2. CalmTask(t)
    BY <2>1, CalmAlone
  <2>3. documents' = Listed(current) /\ Listed(current) \subseteq documents
        /\ Agree(documents \ left[t])
    BY <1>26, <2>1, <2>2 DEF RelistArrives, CalmTask
  <2>4. CASE left[t] = {} /\ StopLoading(t)
    <3>1. (documents = Listed(current))' /\ Agree(documents)'
      BY <1>26, <2>3, <2>4 DEF RelistArrives, Agree, Listed
    <3> QED
      BY <1>26, <2>1, <2>4, <3>1, CalmFinish DEF RelistArrives
  <2>5. CASE Proceed(t, "retag", {}, left[t]) /\ UNCHANGED <<loadingDocs, panel>>
    <3>1. /\ step'[t] = "retag" /\ place'[t] = place[t] /\ left'[t] = left[t]
          /\ "retag" \in Steps \ {"idle"}
      BY <2>5 DEF Proceed, Steps
    <3>2. CalmTask(t)'
      BY <1>26, <2>2, <2>3, <3>1 DEF RelistArrives, CalmTask, Agree, Listed
    <3> QED
      BY <1>26, <2>1, <2>5, <3>1, <3>2, CalmProceed DEF RelistArrives, Proceed
  <2> QED
    BY <1>26, <2>4, <2>5 DEF RelistArrives
<1>27. ASSUME NEW t \in Task, RelistFails(t)
      PROVE  CalmBody'
  BY <1>27 DEF RelistFails, HandlerFails, StopLoading, Finish, Release,
               Failure
<1>28. ASSUME NEW t \in Task, AnswerRetag(t)
      PROVE  CalmBody'
  BY <1>28 DEF AnswerRetag, Proceed
<1>29. ASSUME NEW t \in Task, RetagArrives(t)
      PROVE  CalmBody'
  <2> HIDE DEF CalmInv, CalmBody, CalmTask, ToastInv, Settled, Agree, Listed, AllIdle,
           MountInv
  <2>1. step[t] \in {"retagged"} /\ calm
    BY <1>29 DEF RetagArrives
  <2>2. CalmTask(t)
    BY <2>1, CalmAlone
  <2>3. (documents = Listed(current))' /\ Agree(documents)'
    BY <1>29, <2>1, <2>2 DEF RetagArrives, CalmTask, Agree, Listed
  <2> QED
    BY <1>29, <2>1, <2>3, CalmFinish DEF RetagArrives
<1>30. ASSUME NEW t \in Task, UntagDocument(t)
      PROVE  CalmBody'
  <2> HIDE DEF CalmInv, CalmBody, CalmTask, ToastInv, Settled, Agree, Listed, AllIdle,
           MountInv
  <2>1. calm /\ step' = [step EXCEPT ![t] = "list"]
    BY <1>30, Zenon DEF UntagDocument, Refresh, Proceed, Failure
  <2>2. step[t] \in {"untag"}
    BY <1>30 DEF UntagDocument
  <2>3. CalmTask(t)
    BY <2>1, <2>2, CalmAlone
  <2>4. CalmTask(t)'
    BY <1>30, <2>1, <2>2, <2>3 DEF UntagDocument, Refresh, Proceed, Failure, CalmTask
  <2>5. "list" \in Steps \ {"idle"} /\ step[t] # "idle"
    BY <2>2 DEF Steps
  <2>6. UNCHANGED <<toast, processing, panelTask, previewDoc, previewBytes>>
    BY <1>30, <2>1 DEF UntagDocument, Refresh, Proceed, Failure
  <2> QED
    BY <2>1, <2>4, <2>5, <2>6, CalmProceed
<1>31. ASSUME NEW t \in Task, PurgeDone(t)
      PROVE  CalmBody'
  BY <1>31 DEF PurgeDone, Refresh, Proceed
<1>32. ASSUME NEW t \in Task, PreviewReady(t)
      PROVE  CalmBody'
  BY <1>32 DEF PreviewReady, Finish
<1>33. ASSUME NEW t \in Task, PreviewFails(t)
      PROVE  CalmBody'
  BY <1>33 DEF PreviewFails, Finish, Failure
<1>34. ASSUME NEW f \in Folder, AskDeleteFolder(f)
      PROVE  CalmBody'
  BY <1>34 DEF AskDeleteFolder, FolderToast
<1>35. ASSUME NEW t \in Task, DeleteFolder(t)
      PROVE  CalmBody'
  <2> HIDE DEF CalmInv, CalmBody, CalmTask, ToastInv, Settled, Agree, Listed, AllIdle,
           MountInv
  <2>1. calm /\ DeleteTree(place[t]) /\ LeaveFolder(t)
    BY <1>35, Zenon DEF DeleteFolder, Failure
  <2>2. step[t] \in TreeStep /\ step[t] # "idle"
    BY <1>35 DEF DeleteFolder, TreeStep
  <2>3. CalmTask(t)
    BY <2>1, <2>2, CalmAlone
  <2>4. UNCHANGED <<documents, docTagsCache, binned, toast, processing, panelTask,
                    previewDoc, previewBytes>>
    BY <1>35 DEF DeleteFolder
  <2>5. CASE step[t] = "delete_open_tree"
    <3>1. current # Root
      BY <2>3, <2>5 DEF CalmTask
    <3>2. /\ step' = [step EXCEPT ![t] = "list"] /\ place' = [place EXCEPT ![t] = Root]
          /\ current' = Root
      BY <2>1, <2>5, <3>1 DEF LeaveFolder
    <3>3. step'[t] = "list" /\ place'[t] = Root
      BY <3>2
    <3>4. CalmTask(t)'
      BY <3>2, <3>3 DEF CalmTask
    <3>5. "list" \in Steps \ {"idle"}
      BY DEF Steps
    <3> QED
      BY <2>1, <2>2, <2>4, <3>2, <3>4, <3>5, CalmProceed
  <2>6. CASE step[t] = "delete_tree"
    <3>1. Finish(t) /\ UNCHANGED <<current, loadingDocs>>
      BY <2>1, <2>6 DEF LeaveFolder
    <3>2. Settled /\ current \notin Tree[place[t]]
      BY <2>3, <2>6 DEF CalmTask
    <3>3. Settled'
      BY <2>1, <2>4, <3>1, <3>2 DEF DeleteTree, Settled, Agree, Listed
    <3>4. AllIdle'
      BY <2>1, <2>2, <3>1, CalmAlone DEF Finish, AllIdle
    <3>5. CalmBody
      BY <2>1 DEF CalmInv
    <3>6. ToastInv' /\ (previewDoc' # Nil => previewBytes' \in {Nil, previewDoc'})
      BY <2>4, <3>5 DEF CalmBody, ToastInv
    <3>7. ~processing'
      BY <3>3 DEF Settled
    <3> QED
      BY <3>3, <3>4, <3>6, <3>7 DEF CalmBody, AllIdle
  <2> QED
    BY <2>2, <2>5, <2>6 DEF TreeStep
<1>36. CASE UNCHANGED vars
  BY <1>36 DEF vars
<1> HIDE DEF CalmBody, CalmInv, DataOK
<1> QED
  BY <1>1, <1>2, <1>3, <1>4, <1>5, <1>6, <1>7, <1>8, <1>9, <1>10, <1>11,
     <1>12, <1>13, <1>14, <1>15, <1>16, <1>17, <1>18, <1>19, <1>20, <1>21,
     <1>22, <1>23, <1>24, <1>25, <1>26, <1>27, <1>28, <1>29, <1>30, <1>31,
     <1>32, <1>33, <1>34, <1>35, <1>36
     DEF Next, Gesture, Continue

-----------------------------------------------------------------------------
LEMMA DashboardInvariant == Spec => []DashboardInv
<1>1. Init => DashboardInv
  <2> SUFFICES ASSUME Init PROVE DashboardInv
    OBVIOUS
  <2>1. TypeOK /\ FlagsOK /\ DataOK
    BY TypeInit, TypeSplit
  <2>2. AllIdle /\ documents = {}
    BY DEF Init, AllIdle
  <2>3. MountInv
    BY <2>2 DEF Init, MountInv
  <2>4. BinInv
    BY NilAssumption DEF Init, BinInv, PurgedWasBinned
  <2>5. ListingInv
    BY <2>2 DEF ListingInv, ListingIsOneFolder, Place, AllIdle
  <2>6. CalmInv
    <3>1. current = Nil /\ toast = Nil /\ previewDoc = Nil /\ ~processing
      BY DEF Init
    <3> QED
      BY <2>2, <3>1 DEF CalmInv, CalmBody, ToastInv, AllIdle
  <2> QED
    BY <2>1, <2>3, <2>4, <2>5, <2>6 DEF DashboardInv
<1>2. DashboardInv /\ [Next]_vars => DashboardInv'
  <2> SUFFICES ASSUME DashboardInv, [Next]_vars PROVE DashboardInv'
    OBVIOUS
  <2>1. FlagsOK /\ DataOK
    BY TypeSplit DEF DashboardInv
  <2>2. FlagsOK' /\ DataOK'
    BY <2>1, FlagsStep, DataStep DEF DashboardInv
  <2>3. TypeOK'
    BY <2>2, TypeSplit, PTL
  <2> QED
    BY <2>1, <2>3, MountStep, BinStep, ListingStep, CalmStep DEF DashboardInv
<1> QED
  BY <1>1, <1>2, PTL DEF Spec

\* The page's state and the handlers' locals are always well typed.
THEOREM TypeCorrect == Spec => []TypeOK
<1>1. DashboardInv => TypeOK
  BY DEF DashboardInv
<1> QED
  BY <1>1, DashboardInvariant, PTL

\* However many handlers are in flight and in whatever order their answers arrive,
\* the trash panel deletes only documents that were in the Recycle Bin once.
THEOREM PurgedWasBinnedCorrect == Spec => []PurgedWasBinned
<1>1. DashboardInv => PurgedWasBinned
  BY DEF DashboardInv, BinInv
<1> QED
  BY <1>1, DashboardInvariant, PTL

\* However many handlers are in flight, the listing is that of one folder.
THEOREM ListingIsOneFolderCorrect == Spec => []ListingIsOneFolder
<1>1. DashboardInv => ListingIsOneFolder
  BY DEF DashboardInv, ListingInv
<1> QED
  BY <1>1, DashboardInvariant, PTL

\* For every set of documents and folders, a user who waits for each handler sees
\* the open folder and its Recycle Bin as the server has them.
THEOREM CalmScreenCorrect == Spec => []CalmScreen
<1>1. DashboardInv => CalmScreen
  BY DEF DashboardInv, CalmInv, CalmBody, Settled, Agree, CalmScreen
<1> QED
  BY <1>1, DashboardInvariant, PTL

\* Under the same condition, "Delete All Files" deletes documents of the folder in
\* which it was pressed.
THEOREM CalmDeleteAllCorrect == Spec => []CalmDeleteAll
<1>1. DashboardInv => CalmDeleteAll
  BY DEF DashboardInv, CalmInv, CalmBody, CalmTask, CalmDeleteAll
<1> QED
  BY <1>1, DashboardInvariant, PTL

\* Under the same condition, the preview shows the document it names.
THEOREM CalmPreviewCorrect == Spec => []CalmPreview
<1>1. DashboardInv => CalmPreview
  BY DEF DashboardInv, CalmInv, CalmBody, CalmPreview
<1> QED
  BY <1>1, DashboardInvariant, PTL

=============================================================================
