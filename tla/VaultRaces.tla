----------------------------- MODULE VaultRaces -----------------------------
(***************************************************************************)
(* The rows of the store against the objects they name.                    *)
(*                                                                         *)
(* The purges of trash/handlers.rs read the keys, delete the rows and      *)
(* delete the objects in separate statements, and the thumbnail handlers   *)
(* of documents/handlers.rs change the object and the row in two steps;    *)
(* nothing keeps another request from running in between, so a row can     *)
(* lose its object.  The history variable raced names the keys to which    *)
(* one of the races below has happened; no action of Vault reads it.       *)
(* The properties say that these races are the only ways.                  *)
(***************************************************************************)
EXTENDS Vault

VARIABLE raced      \* history: the keys an object may be missing of

racesVars == <<vars, raced>>

Held == UNION {paths[t] : t \in Task}

\* A document in the trash is moved from under the purges that have read its
\* key: it is restored, or loses the folder it came from to another purge.
Moved ==
    {d \in TrashedDocs :
        \/ documents'[d] = "active"
        \/ /\ documents'[d] \in InTrash
           /\ trash_origin_folder_id'[d] # trash_origin_folder_id[d]}
MovedKeys == {k \in Held : k[2] \in Moved}

\* The cleanup's DELETE fails, and the cleanup goes on to the objects.
UndeletedKeys ==
    {k \in paths[Boot] : /\ step[Boot] = "delete_expired_documents"
                         /\ step'[Boot] = "delete_expired_folders"
                         /\ documents' = documents}

\* delete_thumbnail deletes the object that an upload_thumbnail has put and
\* is about to name.
Overtaken ==
    {r \in Request :
        /\ step[r] = "delete_thumbnail_object"
        /\ step'[r] = "clear_thumbnail_path"
        /\ \E q \in Request :
             step[q] = "set_thumbnail_path" /\ target[q] = target[r]}

\* delete_thumbnail ends after the object and before the row.
CutShort ==
    {r \in Request :
        /\ step[r] = "clear_thumbnail_path"
        /\ step'[r] # "clear_thumbnail_path"
        /\ target[r] \in thumbnail_path'}

RecordRaces ==
    raced' = raced \cup MovedKeys \cup UndeletedKeys
                   \cup {ThumbKey(target[r]) : r \in Overtaken \cup CutShort}

RacesInit == Init /\ raced = {}
RacesNext == Next /\ RecordRaces
RacesSpec == RacesInit /\ [][RacesNext]_racesVars

-----------------------------------------------------------------------------
(***************************************************************************)
(* Properties.                                                             *)
(***************************************************************************)

\* A document that is listed or can be restored can be downloaded: while its
\* row exists, trashed or not, its object is in the bucket, unless it was
\* restored, or its folder purged, between a purge's SELECT and its DELETE, or
\* the cleanup's DELETE failed.  Whatever else interleaves, fails or is cut
\* short parts no row from its object.
DocumentsReadable ==
    \A d \in DocRows : DocKey(d) \in bucket \cup raced

\* A thumbnail that a row names is in the bucket, but for the moment between
\* the two steps of delete_thumbnail, and unless one of the four races has
\* happened to it.
ThumbnailsReadable ==
    \A d \in thumbnail_path :
        \/ ThumbKey(d) \in bucket \cup raced
        \/ \E r \in Request : step[r] = "clear_thumbnail_path" /\ target[r] = d

-----------------------------------------------------------------------------
(***************************************************************************)
(* The store implements the life cycle of documents.                       *)
(***************************************************************************)

status ==
    [d \in Doc |-> CASE documents[d] = "none" -> "absent"
                      [] documents[d] = "active" -> "active"
                      [] documents[d] \in InTrash -> "trashed"
                      [] OTHER -> "purged"]
stored == {d \in Doc : DocKey(d) \in bucket}
doomed == {d \in Doc : DocKey(d) \in Held}
spared == {d \in Doc : DocKey(d) \in raced}

Lifecycle == INSTANCE DocLifecycle
               WITH Doc <- Doc, status <- status, stored <- stored,
                    doomed <- doomed, spared <- spared

\* Seen from outside, every interleaving of the handlers is a behaviour of
\* DocLifecycle: no row before its object, no way out of the account but
\* through the trash or under a purge that had read the key there, and no
\* object dropped but by such a purge.
ImplementsLifecycle == Lifecycle!Spec

-----------------------------------------------------------------------------
(***************************************************************************)
(* The inductive invariant behind them.                                    *)
(***************************************************************************)

\* An upload's object is in the bucket, nobody else knows its id, and no key of
\* it is held or raced before its row exists.
UploadsPrivate ==
    /\ \A r \in Task : step[r] = "insert_document" =>
         /\ documents[target[r]] = "none"
         /\ DocKey(target[r]) \in bucket
         /\ \A q \in Task : step[q] = "insert_document" /\ target[q] = target[r]
                            => q = r
    /\ \A d \in Doc : DocKey(d) \in raced => documents[d] # "none"

\* A task that holds a key of a document, to delete its object or thumbnail,
\* holds it for good reason: the row is gone, or the statement that is about to
\* run will delete it, or a race has been recorded.
Doomed(t, d) ==
    \/ documents[d] = "purged"
    \/ step[t] = "delete_document_row" /\ d = target[t] /\ d \in TrashedDocs
    \/ /\ step[t] \in {"collect_folder_thumbnails", "delete_tree_documents"}
       /\ d \in TreeDocs(target[t])
    \/ /\ step[t] \in {"collect_thumbnails", "delete_trashed_documents"}
       /\ d \in TrashedDocs
    \/ step[t] = "delete_expired_documents" /\ d \in ExpiredDocs
PathsDoomed ==
    \A t \in Task :
        /\ \A k \in paths[t] : k \in raced \/ Doomed(t, k[2])
        /\ step[t] \notin PurgeSteps => paths[t] = {}

\* The cleanup runs alone, and runs the statements of the cleanup.
CleanupAlone ==
    /\ step[Boot] # "idle" => \A r \in Request : step[r] = "idle"
    /\ step[Boot] \in {"idle", "collect_expired", "delete_expired_documents",
                       "delete_expired_folders", "delete_objects"}
    /\ \A r \in Request :
         step[r] \notin {"collect_expired", "delete_expired_documents",
                         "delete_expired_folders"}

\* Only rows name thumbnails, and a request that is about to name one has
\* stored it.
ThumbnailsStored ==
    /\ thumbnail_path \subseteq DocRows
    /\ \A r \in Request :
         step[r] = "set_thumbnail_path" /\ documents[target[r]] # "purged"
         => ThumbKey(target[r]) \in bucket \cup raced

RacesInv ==
    /\ raced \subseteq Key
    /\ CleanupAlone
    /\ UploadsPrivate
    /\ PathsDoomed
    /\ DocumentsReadable
    /\ ThumbnailsStored
    /\ ThumbnailsReadable

=============================================================================
