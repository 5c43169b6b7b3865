--------------------------- MODULE UploadsProofs ---------------------------
(***************************************************************************)
(* Proofs about Uploads for every finite set of files and every number of  *)
(* batches, failures and gestures of the user.                             *)
(***************************************************************************)
EXTENDS Uploads, FiniteSetTheorems, TLAPS

-----------------------------------------------------------------------------
(***************************************************************************)
(* The inductive invariant.  A batch that has started and is not aborted   *)
(* is the one of abortControllerRef, and the latest: the others send       *)
(* nothing, ask nothing and complete no entry any more.                    *)
(***************************************************************************)
Working == {"prompt", "folder", "encrypt", "delete", "upload", "stored", "refused"}
Over == {"next", "reload", "listed", "done"}

BatchInv ==
    /\ current \in {Nil, latest}
    /\ latest # Nil => phase[latest] # "new"
    /\ \A b \in Batch :
         /\ phase[b] # "new" /\ b \notin aborted => b = current
         /\ phase[b] = "new" => b \notin aborted /\ choice[b] = "new"
         /\ phase[b] \in Working => item[b] \in File /\ item[b] \notin queue[b]
         /\ phase[b] = "stored" => Upload(b) \in stored
         /\ phase[b] = "delete" => choice[b] = "overwrite"

\* The prompt on the screen is that of a batch that waits, and while the latest
\* batch overwrites a document no prompt is left of the others.
PromptInv ==
    /\ prompt # Nil => phase[prompt] = "prompt"
    /\ \A b \in Batch : choice[b] = "overwrite" /\ b \notin aborted => prompt = Nil
    /\ PromptAnswerable

\* A loss that is neither repaired nor excused: its request is under way, or its
\* entry has failed and nobody is left who could write the entry again.
UnderWay(f, b) ==
    item[b] = f /\ phase[b] \in {"upload", "refused"} /\ choice[b] = "overwrite"
FailedForGood(f, b) ==
    /\ panel[f] = "failed" /\ f \notin queue[b]
    /\ item[b] = f => phase[b] \in Over
    /\ phase[b] # "new"
    /\ prompt \in {Nil, b}
LossInv ==
    \A f \in File, b \in Batch :
        <<f, b>> \in replaced => \/ <<f, b>> \in stored \/ b \in aborted \cup hidden
                                 \/ UnderWay(f, b) \/ FailedForGood(f, b)

UploadsInv ==
    TypeOK /\ BatchInv /\ PromptInv /\ CompleteIsStored /\ LossInv /\ ZoneIsCurrent

-----------------------------------------------------------------------------
LEMMA NilIsNoBatch == Nil \notin Batch /\ Old \notin Batch
BY NilAssumption, BoundAssumption DEF Batch

LEMMA TypeInit == Init => TypeOK
BY FileAssumption, BoundAssumption, NilAssumption
   DEF Init, TypeOK, Doc, Batch, Phases, Listed, EmptyPanel

LEMMA TypeStep ==
    ASSUME TypeOK, BatchInv, [Next]_vars
    PROVE  TypeOK'
<1> USE FileAssumption, BoundAssumption, NilAssumption, NilIsNoBatch
    DEF TypeOK, Doc, Phases, Goto, ShowEntry, Upload, EmptyPanel, Working, Over,
        server, page, batch, history, marks
<1>1. ASSUME NEW b \in Batch, NEW fs \in SUBSET File, Start(b, fs)
      PROVE  TypeOK'
  <2>1. Cardinality(fs) \in Nat
    BY FileAssumption, FS_Subset, FS_CardinalityType
  <2> QED
    BY <1>1, <2>1 DEF Start, Abort
<1>2. ASSUME NEW b \in Batch, KeyReady(b)
      PROVE  TypeOK'
  BY <1>2 DEF KeyReady
<1>3. ASSUME NEW b \in Batch, KeyFails(b)
      PROVE  TypeOK'
  BY <1>3 DEF KeyFails, Return, Upset, marks
<1>4. ASSUME NEW b \in Batch, NEW f \in File, Pick(b, f)
      PROVE  TypeOK'
  BY <1>4 DEF Pick
<1>5. ASSUME NEW b \in Batch, FolderMade(b)
      PROVE  TypeOK'
  BY <1>5 DEF FolderMade
<1>6. ASSUME NEW b \in Batch, FolderFails(b)
      PROVE  TypeOK'
  <2>1. item[b] \in File
    BY <1>6 DEF FolderFails, BatchInv
  <2> QED
    BY <1>6, <2>1 DEF FolderFails, EntryFails, Upset, marks
<1>7. ASSUME NEW c \in {"skip", "keep-both", "overwrite"}, Answer(c)
      PROVE  TypeOK'
  BY <1>7 DEF Answer
<1>8. ASSUME NEW b \in Batch, Encrypted(b)
      PROVE  TypeOK'
  <2>1. item[b] \in File
    BY <1>8 DEF Encrypted, BatchInv
  <2> QED
    BY <1>8, <2>1 DEF Encrypted, Send
<1>9. ASSUME NEW b \in Batch, EncryptFails(b)
      PROVE  TypeOK'
  <2>1. item[b] \in File
    BY <1>9 DEF EncryptFails, BatchInv
  <2> QED
    BY <1>9, <2>1 DEF EncryptFails, EntryFails, Upset, marks
<1>10. ASSUME NEW b \in Batch, DeleteOld(b)
      PROVE  TypeOK'
  <2>1. item[b] \in File
    BY <1>10 DEF DeleteOld, BatchInv
  <2>2. upsets' \in 0 .. MaxUpsets
    BY <1>10 DEF DeleteOld, Upset
  <2>3. panel' \in [File -> {"absent", "encrypting", "uploading", "complete", "failed"}]
        /\ phase' \in [Batch -> Phases]
    BY <1>10, <2>1 DEF DeleteOld, Send, EntryFails
  <2> QED
    BY <1>10, <2>1, <2>2, <2>3 DEF DeleteOld, Send
<1>11. ASSUME NEW f \in File, NEW b \in Batch, Serve(<<f, b>>)
      PROVE  TypeOK'
  BY <1>11 DEF Serve, Waiting, Upset
<1>12. ASSUME NEW b \in Batch, UploadDone(b)
      PROVE  TypeOK'
  BY <1>12 DEF UploadDone
<1>13. ASSUME NEW b \in Batch, UploadFails(b)
      PROVE  TypeOK'
  <2>1. item[b] \in File
    BY <1>13 DEF UploadFails, BatchInv
  <2>2. upsets' \in 0 .. MaxUpsets
    BY <1>13 DEF UploadFails, Upset
  <2> QED
    BY <1>13, <2>1, <2>2 DEF UploadFails, EntryFails, marks
<1>14. ASSUME NEW b \in Batch, UploadAborted(b)
      PROVE  TypeOK'
  BY <1>14 DEF UploadAborted
<1>15. ASSUME NEW b \in Batch, End(b)
      PROVE  TypeOK'
  BY <1>15 DEF End
<1>16. ASSUME NEW b \in Batch, AnswerReload(b)
      PROVE  TypeOK'
  BY <1>16 DEF AnswerReload, Listed
<1>17. ASSUME NEW b \in Batch, ReloadArrives(b)
      PROVE  TypeOK'
  BY <1>17 DEF ReloadArrives, Return
<1>18. ASSUME NEW b \in Batch, ReloadFails(b)
      PROVE  TypeOK'
  BY <1>18 DEF ReloadFails, Return, Upset, marks
<1>19. CASE Cancel
  BY <1>19 DEF Cancel, Abort, Upset, marks
<1>20. CASE Dismiss
  BY <1>20 DEF Dismiss, Upset
<1>21. ASSUME NEW b \in Batch, Timeout(b)
      PROVE  TypeOK'
  BY <1>21 DEF Timeout
<1>22. ASSUME NEW d \in Doc, OtherTab(d)
      PROVE  TypeOK'
  BY <1>22 DEF OtherTab, Upset, marks
<1>23. CASE UNCHANGED vars
  BY <1>23 DEF vars, server, page, batch, history, marks
<1> QED
  BY <1>1, <1>2, <1>3, <1>4, <1>5, <1>6, <1>7, <1>8, <1>9, <1>10, <1>11, <1>12,
       <1>13, <1>14, <1>15, <1>16, <1>17, <1>18, <1>19, <1>20, <1>21, <1>22,
       <1>23 DEF Next, Gesture, Continue

\* A batch that has not started is neither current nor aborted; one that has, and
\* is not aborted, is the only such one.
LEMMA NewBatch ==
    ASSUME BatchInv, NEW b \in Batch, phase[b] = "new"
    PROVE  current # b /\ b \notin aborted
BY NilIsNoBatch DEF BatchInv

LEMMA LatestBatch ==
    ASSUME BatchInv, NEW b \in Batch, phase[b] # "new", b \notin aborted
    PROVE  /\ b = current /\ b = latest
           /\ \A c \in Batch : c # b => c \in aborted \/ phase[c] = "new"
BY NilIsNoBatch DEF BatchInv

LEMMA BatchStep ==
    ASSUME TypeOK, TypeOK', BatchInv, PromptInv, [Next]_vars
    PROVE  BatchInv'
<1> USE NilAssumption, NilIsNoBatch
    DEF TypeOK, BatchInv, PromptInv, PromptAnswerable, CompleteIsStored, ZoneIsCurrent,
        Phases, Goto, ShowEntry, Upload,
        EmptyPanel, Working, Over, server, page, batch, history, marks, Doc
<1>1. ASSUME NEW b \in Batch, NEW fs \in SUBSET File, Start(b, fs)
      PROVE  BatchInv'
  <2>1. /\ \A c \in Batch \ {b} : /\ phase'[c] = phase[c] /\ choice'[c] = choice[c]
                                /\ item'[c] = item[c] /\ queue'[c] = queue[c]
        /\ phase'[b] = "key" /\ choice'[b] = choice[b]
        /\ current' = b /\ latest' = b /\ stored' = stored
    BY <1>1 DEF Start
  <2>2. phase[b] = "new" /\ aborted' = aborted \cup ({current} \ {Nil})
    BY <1>1 DEF Start, Abort
  <2>3. current # b /\ b \notin aborted
    BY <2>2, NewBatch
  <2> QED
    BY <2>1, <2>2, <2>3
<1>2. ASSUME NEW b \in Batch, KeyReady(b)
      PROVE  BatchInv'
  BY <1>2 DEF KeyReady
<1>3. ASSUME NEW b \in Batch, KeyFails(b)
      PROVE  BatchInv'
  BY <1>3 DEF KeyFails, Return, Upset, marks
<1>4. ASSUME NEW b \in Batch, NEW f \in File, Pick(b, f)
      PROVE  BatchInv'
  <2>1. /\ \A c \in Batch \ {b} : /\ phase'[c] = phase[c] /\ choice'[c] = choice[c]
                                /\ item'[c] = item[c] /\ queue'[c] = queue[c]
        /\ phase[b] = "next" /\ phase'[b] \in {"folder", "prompt", "encrypt"}
        /\ choice'[b] = "new" /\ item'[b] = f /\ queue'[b] = queue[b] \ {f}
    BY <1>4 DEF Pick
  <2>2. UNCHANGED <<current, latest, aborted, stored>>
    BY <1>4 DEF Pick
  <2> HIDE DEF TypeOK
  <2>3. \A c \in Batch :
          /\ phase'[c] # "new" /\ c \notin aborted => c = current
          /\ phase'[c] = "new" => c \notin aborted /\ choice'[c] = "new"
          /\ phase'[c] \in Working => item'[c] \in File /\ item'[c] \notin queue'[c]
    BY <2>1
  <2>4. \A c \in Batch : phase'[c] = "delete" => choice'[c] = "overwrite"
    BY <2>1
  <2>6. \A c \in Batch : phase'[c] = "stored" => item'[c] = item[c] /\ phase[c] = "stored"
    BY <2>1
  <2>5. latest # Nil => phase'[latest] # "new"
    BY <2>1 DEF TypeOK
  <2> QED
    BY <2>2, <2>3, <2>4, <2>5, <2>6
<1>5. ASSUME NEW b \in Batch, FolderMade(b)
      PROVE  BatchInv'
  BY <1>5 DEF FolderMade
<1>6. ASSUME NEW b \in Batch, FolderFails(b)
      PROVE  BatchInv'
  BY <1>6 DEF FolderFails, EntryFails, Upset, marks
<1>7. ASSUME NEW c \in {"skip", "keep-both", "overwrite"}, Answer(c)
      PROVE  BatchInv'
  <2>1. prompt \in Batch /\ phase[prompt] = "prompt"
    BY <1>7 DEF Answer
  <2>2. /\ \A b \in Batch \ {prompt} : /\ phase'[b] = phase[b]
                                     /\ choice'[b] = choice[b]
        /\ phase'[prompt] \in {"next", "encrypt"}
    BY <1>7, <2>1 DEF Answer
  <2>3. UNCHANGED <<current, latest, aborted, stored, item, queue>>
    BY <1>7 DEF Answer
  <2> QED
    BY <2>1, <2>2, <2>3
<1>8. ASSUME NEW b \in Batch, Encrypted(b)
      PROVE  BatchInv'
  BY <1>8 DEF Encrypted, Send
<1>9. ASSUME NEW b \in Batch, EncryptFails(b)
      PROVE  BatchInv'
  BY <1>9 DEF EncryptFails, EntryFails, Upset, marks
<1>10. ASSUME NEW b \in Batch, DeleteOld(b)
      PROVE  BatchInv'
  BY <1>10 DEF DeleteOld, Send, EntryFails, Upset
<1>11. ASSUME NEW f \in File, NEW b \in Batch, Serve(<<f, b>>)
      PROVE  BatchInv'
  BY <1>11 DEF Serve, Waiting, Upset
<1>12. ASSUME NEW b \in Batch, UploadDone(b)
      PROVE  BatchInv'
  BY <1>12 DEF UploadDone
<1>13. ASSUME NEW b \in Batch, UploadFails(b)
      PROVE  BatchInv'
  BY <1>13 DEF UploadFails, EntryFails, Upset, marks
<1>14. ASSUME NEW b \in Batch, UploadAborted(b)
      PROVE  BatchInv'
  BY <1>14 DEF UploadAborted
<1>15. ASSUME NEW b \in Batch, End(b)
      PROVE  BatchInv'
  BY <1>15 DEF End
<1>16. ASSUME NEW b \in Batch, AnswerReload(b)
      PROVE  BatchInv'
  BY <1>16 DEF AnswerReload
<1>17. ASSUME NEW b \in Batch, ReloadArrives(b)
      PROVE  BatchInv'
  BY <1>17 DEF ReloadArrives, Return
<1>18. ASSUME NEW b \in Batch, ReloadFails(b)
      PROVE  BatchInv'
  BY <1>18 DEF ReloadFails, Return, Upset, marks
<1>19. CASE Cancel
  BY <1>19 DEF Cancel, Abort, Upset, marks
<1>20. CASE Dismiss
  BY <1>20 DEF Dismiss, Upset
<1>21. ASSUME NEW b \in Batch, Timeout(b)
      PROVE  BatchInv'
  BY <1>21 DEF Timeout
<1>22. ASSUME NEW d \in Doc, OtherTab(d)
      PROVE  BatchInv'
  BY <1>22 DEF OtherTab, Upset, marks
<1>23. CASE UNCHANGED vars
  BY <1>23 DEF vars, server, page, batch, history, marks
<1> HIDE DEF TypeOK, BatchInv
<1> QED
  BY <1>1, <1>2, <1>3, <1>4, <1>5, <1>6, <1>7, <1>8, <1>9, <1>10, <1>11, <1>12,
       <1>13, <1>14, <1>15, <1>16, <1>17, <1>18, <1>19, <1>20, <1>21, <1>22,
       <1>23 DEF Next, Gesture, Continue

LEMMA PromptStep ==
    ASSUME TypeOK, TypeOK', BatchInv, BatchInv', PromptInv, [Next]_vars
    PROVE  PromptInv'
<1> USE NilAssumption, NilIsNoBatch
    DEF TypeOK, BatchInv, PromptInv, PromptAnswerable, CompleteIsStored, ZoneIsCurrent,
        Phases, Goto, ShowEntry, Upload,
        EmptyPanel, Working, Over, server, page, batch, history, marks, Doc
<1>1. ASSUME NEW b \in Batch, NEW fs \in SUBSET File, Start(b, fs)
      PROVE  PromptInv'
  BY <1>1 DEF Start, Abort
<1>2. ASSUME NEW b \in Batch, KeyReady(b)
      PROVE  PromptInv'
  BY <1>2 DEF KeyReady
<1>3. ASSUME NEW b \in Batch, KeyFails(b)
      PROVE  PromptInv'
  BY <1>3 DEF KeyFails, Return, Upset, marks
<1>4. ASSUME NEW b \in Batch, NEW f \in File, Pick(b, f)
      PROVE  PromptInv'
  <2>1. \A c \in Batch \ {b} : c \in aborted \/ phase[c] = "new"
    BY <1>4 DEF Pick
  <2>2. /\ \A c \in Batch \ {b} : phase'[c] = phase[c] /\ choice'[c] = choice[c]
        /\ choice'[b] = "new" /\ phase[b] = "next"
        /\ phase'[b] = "prompt" <=> prompt' = b
        /\ prompt' # b => prompt' = prompt
    BY <1>4 DEF Pick
  <2> QED
    BY <1>4, <2>1, <2>2 DEF Pick
<1>5. ASSUME NEW b \in Batch, FolderMade(b)
      PROVE  PromptInv'
  BY <1>5 DEF FolderMade
<1>6. ASSUME NEW b \in Batch, FolderFails(b)
      PROVE  PromptInv'
  BY <1>6 DEF FolderFails, EntryFails, Upset, marks
<1>7. ASSUME NEW c \in {"skip", "keep-both", "overwrite"}, Answer(c)
      PROVE  PromptInv'
  BY <1>7 DEF Answer
<1>8. ASSUME NEW b \in Batch, Encrypted(b)
      PROVE  PromptInv'
  BY <1>8 DEF Encrypted, Send
<1>9. ASSUME NEW b \in Batch, EncryptFails(b)
      PROVE  PromptInv'
  BY <1>9 DEF EncryptFails, EntryFails, Upset, marks
<1>10. ASSUME NEW b \in Batch, DeleteOld(b)
      PROVE  PromptInv'
  BY <1>10 DEF DeleteOld, Send, EntryFails, Upset
<1>11. ASSUME NEW f \in File, NEW b \in Batch, Serve(<<f, b>>)
      PROVE  PromptInv'
  BY <1>11 DEF Serve, Waiting, Upset
<1>12. ASSUME NEW b \in Batch, UploadDone(b)
      PROVE  PromptInv'
  BY <1>12 DEF UploadDone
<1>13. ASSUME NEW b \in Batch, UploadFails(b)
      PROVE  PromptInv'
  BY <1>13 DEF UploadFails, EntryFails, Upset, marks
<1>14. ASSUME NEW b \in Batch, UploadAborted(b)
      PROVE  PromptInv'
  BY <1>14 DEF UploadAborted
<1>15. ASSUME NEW b \in Batch, End(b)
      PROVE  PromptInv'
  BY <1>15 DEF End
<1>16. ASSUME NEW b \in Batch, AnswerReload(b)
      PROVE  PromptInv'
  BY <1>16 DEF AnswerReload
<1>17. ASSUME NEW b \in Batch, ReloadArrives(b)
      PROVE  PromptInv'
  BY <1>17 DEF ReloadArrives, Return
<1>18. ASSUME NEW b \in Batch, ReloadFails(b)
      PROVE  PromptInv'
  BY <1>18 DEF ReloadFails, Return, Upset, marks
<1>19. CASE Cancel
  BY <1>19 DEF Cancel, Abort, Upset, marks
<1>20. CASE Dismiss
  BY <1>20 DEF Dismiss, Upset
<1>21. ASSUME NEW b \in Batch, Timeout(b)
      PROVE  PromptInv'
  BY <1>21 DEF Timeout
<1>22. ASSUME NEW d \in Doc, OtherTab(d)
      PROVE  PromptInv'
  BY <1>22 DEF OtherTab, Upset, marks
<1>23. CASE UNCHANGED vars
  BY <1>23 DEF vars, server, page, batch, history, marks
<1> HIDE DEF TypeOK, PromptInv, PromptAnswerable
<1> QED
  BY <1>1, <1>2, <1>3, <1>4, <1>5, <1>6, <1>7, <1>8, <1>9, <1>10, <1>11, <1>12,
       <1>13, <1>14, <1>15, <1>16, <1>17, <1>18, <1>19, <1>20, <1>21, <1>22,
       <1>23 DEF Next, Gesture, Continue

LEMMA CompleteStep ==
    ASSUME TypeOK, TypeOK', BatchInv, PromptInv, CompleteIsStored, [Next]_vars
    PROVE  CompleteIsStored'
<1> USE NilAssumption, NilIsNoBatch
    DEF TypeOK, BatchInv, PromptInv, PromptAnswerable, CompleteIsStored, ZoneIsCurrent,
        Phases, Goto, ShowEntry, Upload,
        EmptyPanel, Working, Over, server, page, batch, history, marks, Doc
<1>1. ASSUME NEW b \in Batch, NEW fs \in SUBSET File, Start(b, fs)
      PROVE  CompleteIsStored'
  BY <1>1 DEF Start, Abort
<1>2. ASSUME NEW b \in Batch, KeyReady(b)
      PROVE  CompleteIsStored'
  BY <1>2 DEF KeyReady
<1>3. ASSUME NEW b \in Batch, KeyFails(b)
      PROVE  CompleteIsStored'
  BY <1>3 DEF KeyFails, Return, Upset, marks
<1>4. ASSUME NEW b \in Batch, NEW f \in File, Pick(b, f)
      PROVE  CompleteIsStored'
  BY <1>4 DEF Pick
<1>5. ASSUME NEW b \in Batch, FolderMade(b)
      PROVE  CompleteIsStored'
  BY <1>5 DEF FolderMade
<1>6. ASSUME NEW b \in Batch, FolderFails(b)
      PROVE  CompleteIsStored'
  BY <1>6 DEF FolderFails, EntryFails, Upset, marks
<1>7. ASSUME NEW c \in {"skip", "keep-both", "overwrite"}, Answer(c)
      PROVE  CompleteIsStored'
  BY <1>7 DEF Answer
<1>8. ASSUME NEW b \in Batch, Encrypted(b)
      PROVE  CompleteIsStored'
  BY <1>8 DEF Encrypted, Send
<1>9. ASSUME NEW b \in Batch, EncryptFails(b)
      PROVE  CompleteIsStored'
  BY <1>9 DEF EncryptFails, EntryFails, Upset, marks
<1>10. ASSUME NEW b \in Batch, DeleteOld(b)
      PROVE  CompleteIsStored'
  BY <1>10 DEF DeleteOld, Send, EntryFails, Upset
<1>11. ASSUME NEW f \in File, NEW b \in Batch, Serve(<<f, b>>)
      PROVE  CompleteIsStored'
  BY <1>11 DEF Serve, Waiting, Upset
<1>12. ASSUME NEW b \in Batch, UploadDone(b)
      PROVE  CompleteIsStored'
  <2>1. b = latest /\ item[b] \in File /\ <<item[b], b>> \in stored
    BY <1>12 DEF UploadDone
  <2>2. \A f \in File : panel'[f] = "complete" => panel[f] = "complete" \/ f = item[b]
    BY <1>12, <2>1 DEF UploadDone
  <2> QED
    BY <1>12, <2>1, <2>2 DEF UploadDone
<1>13. ASSUME NEW b \in Batch, UploadFails(b)
      PROVE  CompleteIsStored'
  BY <1>13 DEF UploadFails, EntryFails, Upset, marks
<1>14. ASSUME NEW b \in Batch, UploadAborted(b)
      PROVE  CompleteIsStored'
  BY <1>14 DEF UploadAborted
<1>15. ASSUME NEW b \in Batch, End(b)
      PROVE  CompleteIsStored'
  BY <1>15 DEF End
<1>16. ASSUME NEW b \in Batch, AnswerReload(b)
      PROVE  CompleteIsStored'
  BY <1>16 DEF AnswerReload
<1>17. ASSUME NEW b \in Batch, ReloadArrives(b)
      PROVE  CompleteIsStored'
  BY <1>17 DEF ReloadArrives, Return
<1>18. ASSUME NEW b \in Batch, ReloadFails(b)
      PROVE  CompleteIsStored'
  BY <1>18 DEF ReloadFails, Return, Upset, marks
<1>19. CASE Cancel
  BY <1>19 DEF Cancel, Abort, Upset, marks
<1>20. CASE Dismiss
  BY <1>20 DEF Dismiss, Upset
<1>21. ASSUME NEW b \in Batch, Timeout(b)
      PROVE  CompleteIsStored'
  BY <1>21 DEF Timeout
<1>22. ASSUME NEW d \in Doc, OtherTab(d)
      PROVE  CompleteIsStored'
  BY <1>22 DEF OtherTab, Upset, marks
<1>23. CASE UNCHANGED vars
  BY <1>23 DEF vars, server, page, batch, history, marks
<1> HIDE DEF TypeOK, CompleteIsStored
<1> QED
  BY <1>1, <1>2, <1>3, <1>4, <1>5, <1>6, <1>7, <1>8, <1>9, <1>10, <1>11, <1>12,
       <1>13, <1>14, <1>15, <1>16, <1>17, <1>18, <1>19, <1>20, <1>21, <1>22,
       <1>23 DEF Next, Gesture, Continue

LEMMA LossStep ==
    ASSUME TypeOK, TypeOK', BatchInv, PromptInv, LossInv, [Next]_vars
    PROVE  LossInv'
<1> SUFFICES ASSUME NEW f \in File, NEW c \in Batch, <<f, c>> \in replaced',
                    <<f, c>> \notin stored', c \notin aborted', c \notin hidden'
             PROVE  (UnderWay(f, c) \/ FailedForGood(f, c))'
  BY DEF LossInv
<1> USE NilAssumption, NilIsNoBatch
    DEF TypeOK, UnderWay, FailedForGood, Phases, Goto, ShowEntry, Upload, EmptyPanel,
        Over, server, page, batch, history, marks, Doc
<1>0. ASSUME <<f, c>> \in replaced, stored \subseteq stored', aborted \subseteq aborted',
             hidden \subseteq hidden'
      PROVE  /\ UnderWay(f, c) \/ FailedForGood(f, c)
             /\ phase[c] # "new" /\ c \notin aborted /\ c = current /\ c = latest
             /\ UnderWay(f, c) => prompt = Nil
             /\ f \notin queue[c]
             /\ \A b \in Batch : b # c => b \in aborted \/ phase[b] = "new"
             /\ \A b \in Batch : phase[b] \in Working =>
                                  item[b] \in File /\ item[b] \notin queue[b]
  <2>1. (UnderWay(f, c) \/ FailedForGood(f, c)) /\ c \notin aborted
    BY <1>0 DEF LossInv
  <2>2. phase[c] # "new"
    BY <2>1
  <2>3. c = current /\ c = latest
    BY <2>1, <2>2, LatestBatch
  <2>4. \A b \in Batch : b # c => b \in aborted \/ phase[b] = "new"
    BY <2>1, <2>2, LatestBatch
  <2>5. \A b \in Batch : phase[b] \in Working =>
                         item[b] \in File /\ item[b] \notin queue[b]
    BY DEF BatchInv
  <2>6. UnderWay(f, c) => prompt = Nil
    BY <2>1 DEF PromptInv
  <2>7. f \notin queue[c]
    BY <2>1, <2>5 DEF Working
  <2> HIDE DEF UnderWay, FailedForGood
  <2> QED
    BY <2>1, <2>2, <2>3, <2>4, <2>5, <2>6, <2>7
<1>1. ASSUME NEW b \in Batch, NEW fs \in SUBSET File, Start(b, fs)
      PROVE  (UnderWay(f, c) \/ FailedForGood(f, c))'
  BY <1>0, <1>1 DEF Start, Abort
<1>2. ASSUME NEW b \in Batch, NEW g \in File, Pick(b, g)
      PROVE  (UnderWay(f, c) \/ FailedForGood(f, c))'
  BY <1>0, <1>2 DEF Pick
<1>3. ASSUME NEW x \in {"skip", "keep-both", "overwrite"}, Answer(x)
      PROVE  (UnderWay(f, c) \/ FailedForGood(f, c))'
  BY <1>0, <1>3 DEF Answer, PromptInv, Working
<1>4. ASSUME NEW b \in Batch, Encrypted(b)
      PROVE  (UnderWay(f, c) \/ FailedForGood(f, c))'
  BY <1>0, <1>4 DEF Encrypted, Send, Working
<1>5. ASSUME NEW b \in Batch, DeleteOld(b)
      PROVE  (UnderWay(f, c) \/ FailedForGood(f, c))'
  <2>1. phase[b] = "delete" /\ item[b] \in File /\ item[b] \notin queue[b]
    BY <1>5 DEF DeleteOld, BatchInv, Working
  <2>5. choice[b] = "overwrite" /\ (b \notin aborted => prompt = Nil)
    BY <2>1 DEF BatchInv, PromptInv
  <2>2. UNCHANGED <<item, queue, choice, prompt, stored, aborted, hidden>>
    BY <1>5 DEF DeleteOld
  <2>3. CASE <<f, c>> = Upload(b)
    <3>1. item[b] = f /\ c = b
      BY <2>3
    <3>4. b \notin aborted
      BY <3>1, <2>2
    <3>2. CASE Send(b)
      BY <3>1, <3>2, <3>4, <2>1, <2>2, <2>5 DEF Send
    <3>3. CASE EntryFails(b)
      BY <3>1, <3>3, <3>4, <2>1, <2>2, <2>5 DEF EntryFails
    <3> QED
      BY <1>5, <3>2, <3>3 DEF DeleteOld
  <2>4. CASE <<f, c>> # Upload(b)
    <3>1. <<f, c>> \in replaced
      BY <1>5, <2>4 DEF DeleteOld
    <3>2. b # c => panel'[f] = "failed" \/ panel'[f] = panel[f]
      BY <1>5, <2>1 DEF DeleteOld, EntryFails
    <3>3. b = c => item[b] # f
      BY <2>4
    <3>4. /\ \A x \in Batch \ {b} : phase'[x] = phase[x]
          /\ phase'[b] \in {"next", "upload"}
      BY <1>5 DEF DeleteOld, Send, EntryFails
    <3>5. b = c => panel'[f] = panel[f]
      BY <1>5, <2>1, <3>3 DEF DeleteOld, EntryFails
    <3> QED
      BY <1>0, <2>1, <2>2, <3>1, <3>2, <3>3, <3>4, <3>5
  <2> QED
    BY <2>3, <2>4
<1>6. ASSUME NEW g \in File, NEW b \in Batch, Serve(<<g, b>>)
      PROVE  (UnderWay(f, c) \/ FailedForGood(f, c))'
  BY <1>0, <1>6 DEF Serve, Waiting, Upset, Working
<1>7. ASSUME NEW b \in Batch, UploadDone(b)
      PROVE  (UnderWay(f, c) \/ FailedForGood(f, c))'
  BY <1>0, <1>7 DEF UploadDone, Working
<1>8. ASSUME NEW b \in Batch, End(b)
      PROVE  (UnderWay(f, c) \/ FailedForGood(f, c))'
  BY <1>0, <1>8 DEF End
<1>9. CASE Cancel
  BY <1>0, <1>9 DEF Cancel, Abort, Upset
<1>10. CASE Dismiss
  BY <1>0, <1>10 DEF Dismiss, Upset
<1>11. ASSUME NEW d \in Doc, OtherTab(d)
      PROVE  (UnderWay(f, c) \/ FailedForGood(f, c))'
  BY <1>0, <1>11 DEF OtherTab, Upset
<1>12. ASSUME NEW b \in Batch, KeyReady(b)
      PROVE  (UnderWay(f, c) \/ FailedForGood(f, c))'
  BY <1>0, <1>12 DEF KeyReady, Working
<1>13. ASSUME NEW b \in Batch, KeyFails(b)
      PROVE  (UnderWay(f, c) \/ FailedForGood(f, c))'
  BY <1>0, <1>13 DEF KeyFails, Return, Upset, marks, Working
<1>14. ASSUME NEW b \in Batch, FolderMade(b)
      PROVE  (UnderWay(f, c) \/ FailedForGood(f, c))'
  BY <1>0, <1>14 DEF FolderMade, Working
<1>15. ASSUME NEW b \in Batch, FolderFails(b)
      PROVE  (UnderWay(f, c) \/ FailedForGood(f, c))'
  BY <1>0, <1>15 DEF FolderFails, EntryFails, Upset, marks, Working
<1>16. ASSUME NEW b \in Batch, EncryptFails(b)
      PROVE  (UnderWay(f, c) \/ FailedForGood(f, c))'
  BY <1>0, <1>16 DEF EncryptFails, EntryFails, Upset, marks, Working
<1>17. ASSUME NEW b \in Batch, UploadFails(b)
      PROVE  (UnderWay(f, c) \/ FailedForGood(f, c))'
  BY <1>0, <1>17 DEF UploadFails, EntryFails, Upset, marks, Working
<1>18. ASSUME NEW b \in Batch, UploadAborted(b)
      PROVE  (UnderWay(f, c) \/ FailedForGood(f, c))'
  BY <1>0, <1>18 DEF UploadAborted, Working
<1>19. ASSUME NEW b \in Batch, AnswerReload(b)
      PROVE  (UnderWay(f, c) \/ FailedForGood(f, c))'
  BY <1>0, <1>19 DEF AnswerReload, Working
<1>20. ASSUME NEW b \in Batch, ReloadArrives(b)
      PROVE  (UnderWay(f, c) \/ FailedForGood(f, c))'
  BY <1>0, <1>20 DEF ReloadArrives, Return, Working
<1>21. ASSUME NEW b \in Batch, ReloadFails(b)
      PROVE  (UnderWay(f, c) \/ FailedForGood(f, c))'
  BY <1>0, <1>21 DEF ReloadFails, Return, Upset, marks, Working
<1>22. ASSUME NEW b \in Batch, Timeout(b)
      PROVE  (UnderWay(f, c) \/ FailedForGood(f, c))'
  BY <1>0, <1>22 DEF Timeout, Working
<1>23. CASE UNCHANGED vars
  BY <1>0, <1>23 DEF vars
<1> HIDE DEF UnderWay, FailedForGood
<1> QED
  BY <1>1, <1>2, <1>3, <1>4, <1>5, <1>6, <1>7, <1>8, <1>9, <1>10, <1>11, <1>12,
       <1>13, <1>14, <1>15, <1>16, <1>17, <1>18, <1>19, <1>20, <1>21, <1>22,
       <1>23 DEF Next, Gesture, Continue

LEMMA ZoneStep ==
    ASSUME TypeOK, TypeOK', BatchInv, PromptInv, ZoneIsCurrent, [Next]_vars
    PROVE  ZoneIsCurrent'
<1> USE NilAssumption, NilIsNoBatch
    DEF TypeOK, BatchInv, PromptInv, PromptAnswerable, CompleteIsStored, ZoneIsCurrent,
        Phases, Goto, ShowEntry, Upload,
        EmptyPanel, Working, Over, server, page, batch, history, marks, Doc
<1>1. ASSUME NEW b \in Batch, NEW fs \in SUBSET File, Start(b, fs)
      PROVE  ZoneIsCurrent'
  <2>1. phase[b] = "new" /\ aborted' = aborted \cup ({current} \ {Nil})
    BY <1>1 DEF Start, Abort
  <2>2. current # b /\ b \notin aborted
    BY <2>1, NewBatch
  <2>3. latest' = b /\ phase'[b] = "key"
    BY <1>1 DEF Start
  <2> QED
    BY <2>1, <2>2, <2>3
<1>2. ASSUME NEW b \in Batch, KeyReady(b)
      PROVE  ZoneIsCurrent'
  BY <1>2 DEF KeyReady
<1>3. ASSUME NEW b \in Batch, KeyFails(b)
      PROVE  ZoneIsCurrent'
  BY <1>3 DEF KeyFails, Return, Upset, marks
<1>4. ASSUME NEW b \in Batch, NEW f \in File, Pick(b, f)
      PROVE  ZoneIsCurrent'
  BY <1>4 DEF Pick
<1>5. ASSUME NEW b \in Batch, FolderMade(b)
      PROVE  ZoneIsCurrent'
  BY <1>5 DEF FolderMade
<1>6. ASSUME NEW b \in Batch, FolderFails(b)
      PROVE  ZoneIsCurrent'
  BY <1>6 DEF FolderFails, EntryFails, Upset, marks
<1>7. ASSUME NEW c \in {"skip", "keep-both", "overwrite"}, Answer(c)
      PROVE  ZoneIsCurrent'
  BY <1>7 DEF Answer
<1>8. ASSUME NEW b \in Batch, Encrypted(b)
      PROVE  ZoneIsCurrent'
  BY <1>8 DEF Encrypted, Send
<1>9. ASSUME NEW b \in Batch, EncryptFails(b)
      PROVE  ZoneIsCurrent'
  BY <1>9 DEF EncryptFails, EntryFails, Upset, marks
<1>10. ASSUME NEW b \in Batch, DeleteOld(b)
      PROVE  ZoneIsCurrent'
  BY <1>10 DEF DeleteOld, Send, EntryFails, Upset
<1>11. ASSUME NEW f \in File, NEW b \in Batch, Serve(<<f, b>>)
      PROVE  ZoneIsCurrent'
  BY <1>11 DEF Serve, Waiting, Upset
<1>12. ASSUME NEW b \in Batch, UploadDone(b)
      PROVE  ZoneIsCurrent'
  BY <1>12 DEF UploadDone
<1>13. ASSUME NEW b \in Batch, UploadFails(b)
      PROVE  ZoneIsCurrent'
  BY <1>13 DEF UploadFails, EntryFails, Upset, marks
<1>14. ASSUME NEW b \in Batch, UploadAborted(b)
      PROVE  ZoneIsCurrent'
  BY <1>14 DEF UploadAborted
<1>15. ASSUME NEW b \in Batch, End(b)
      PROVE  ZoneIsCurrent'
  BY <1>15 DEF End
<1>16. ASSUME NEW b \in Batch, AnswerReload(b)
      PROVE  ZoneIsCurrent'
  BY <1>16 DEF AnswerReload
<1>17. ASSUME NEW b \in Batch, ReloadArrives(b)
      PROVE  ZoneIsCurrent'
  BY <1>17 DEF ReloadArrives, Return
<1>18. ASSUME NEW b \in Batch, ReloadFails(b)
      PROVE  ZoneIsCurrent'
  BY <1>18 DEF ReloadFails, Return, Upset, marks
<1>19. CASE Cancel
  BY <1>19 DEF Cancel, Abort, Upset, marks
<1>20. CASE Dismiss
  BY <1>20 DEF Dismiss, Upset
<1>21. ASSUME NEW b \in Batch, Timeout(b)
      PROVE  ZoneIsCurrent'
  BY <1>21 DEF Timeout
<1>22. ASSUME NEW d \in Doc, OtherTab(d)
      PROVE  ZoneIsCurrent'
  BY <1>22 DEF OtherTab, Upset, marks
<1>23. CASE UNCHANGED vars
  BY <1>23 DEF vars, server, page, batch, history, marks
<1> HIDE DEF TypeOK, ZoneIsCurrent
<1> QED
  BY <1>1, <1>2, <1>3, <1>4, <1>5, <1>6, <1>7, <1>8, <1>9, <1>10, <1>11, <1>12,
       <1>13, <1>14, <1>15, <1>16, <1>17, <1>18, <1>19, <1>20, <1>21, <1>22,
       <1>23 DEF Next, Gesture, Continue

-----------------------------------------------------------------------------
LEMMA UploadsInvariant == Spec => []UploadsInv
<1>1. Init => UploadsInv
  <2> SUFFICES ASSUME Init PROVE UploadsInv
    OBVIOUS
  <2>1. TypeOK
    BY TypeInit
  <2>2. BatchInv /\ PromptInv
    BY NilIsNoBatch DEF Init, BatchInv, PromptInv, PromptAnswerable, Working
  <2>3. CompleteIsStored /\ LossInv /\ ZoneIsCurrent
    BY DEF Init, CompleteIsStored, LossInv, ZoneIsCurrent, EmptyPanel
  <2> QED
    BY <2>1, <2>2, <2>3 DEF UploadsInv
<1>2. UploadsInv /\ [Next]_vars => UploadsInv'
  BY TypeStep, BatchStep, PromptStep, CompleteStep, LossStep, ZoneStep DEF UploadsInv
<1> QED
  BY <1>1, <1>2, PTL DEF Spec

\* The page's upload state and the batches' locals are always well typed.
THEOREM TypeCorrect == Spec => []TypeOK
<1>1. UploadsInv => TypeOK
  BY DEF UploadsInv
<1> QED
  BY <1>1, UploadsInvariant, PTL

\* For any number of batches that follow on each other, an entry shown as complete
\* is a file the server has accepted from the latest of them.
THEOREM CompleteIsStoredCorrect == Spec => []CompleteIsStored
<1>1. UploadsInv => CompleteIsStored
  BY DEF UploadsInv
<1> QED
  BY <1>1, UploadsInvariant, PTL

\* For any number of batches, one that waits and was not cancelled has its prompt
\* on the screen.
THEOREM PromptAnswerableCorrect == Spec => []PromptAnswerable
<1>1. UploadsInv => PromptAnswerable
  BY DEF UploadsInv, PromptInv
<1> QED
  BY <1>1, UploadsInvariant, PTL

\* For any number of batches and failures, a document that "Overwrite" deleted and
\* did not replace is on its way or shown as failed.
THEOREM LossIsShownCorrect == Spec => []LossIsShown
<1>1. UploadsInv => LossIsShown
  <2> SUFFICES ASSUME UploadsInv, NEW d \in replaced
               PROVE  \/ d \in stored
                      \/ d[2] \in aborted \cup hidden
                      \/ Upload(d[2]) = d /\ phase[d[2]] \in {"upload", "refused"}
                      \/ panel[d[1]] = "failed"
    BY DEF LossIsShown
  <2>1. PICK f \in File, b \in Batch : d = <<f, b>>
    BY DEF UploadsInv, TypeOK
  <2> QED
    BY <2>1 DEF UploadsInv, LossInv, UnderWay, FailedForGood, Upload
<1> QED
  BY <1>1, UploadsInvariant, PTL

\* For any number of batches, the zone shows that files are encrypted only while
\* the latest batch is at work.
THEOREM ZoneIsCurrentCorrect == Spec => []ZoneIsCurrent
<1>1. UploadsInv => ZoneIsCurrent
  BY DEF UploadsInv
<1> QED
  BY <1>1, UploadsInvariant, PTL

=============================================================================
