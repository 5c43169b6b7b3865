--------------------------- MODULE DocLifecycle ---------------------------
(***************************************************************************)
(* What the documents and trash handlers promise of a document's row and   *)
(* its object together: the object is stored before the row can be seen,   *)
(* the row moves between the account and the trash, and an object is       *)
(* dropped only after a purge has read its key while the row was in the    *)
(* trash.  A purge first dooms a document and deletes its row and object   *)
(* later, so a row that escapes the purge between the two is spared        *)
(* without its object: nothing else may separate a row from its object.    *)
(* Several documents may move in one step.                                 *)
(***************************************************************************)
CONSTANT Doc

VARIABLES
    status,     \* "absent", "active", "trashed" or "purged"
    stored,     \* the documents whose object is in the bucket
    doomed,     \* the documents whose key a purge has read and holds
    spared      \* history: the rows that escaped a purge that held their key

vars == <<status, stored, doomed, spared>>

Status == {"absent", "active", "trashed", "purged"}

TypeOK ==
    /\ status \in [Doc -> Status]
    /\ stored \subseteq Doc
    /\ doomed \subseteq Doc
    /\ spared \subseteq Doc

Init ==
    /\ status = [d \in Doc |-> "absent"]
    /\ stored = {}
    /\ doomed = {}
    /\ spared = {}

Become(D, to) == status' = [d \in Doc |-> IF d \in D THEN to ELSE status[d]]

Store(d) ==
    /\ status[d] = "absent" /\ d \notin stored
    /\ stored' = stored \cup {d}
    /\ UNCHANGED <<status, doomed, spared>>

Publish(d) ==
    /\ status[d] = "absent" /\ d \in stored
    /\ Become({d}, "active")
    /\ UNCHANGED <<stored, doomed, spared>>

Trash(D) ==
    /\ \A d \in D : status[d] = "active"
    /\ Become(D, "trashed")
    /\ UNCHANGED <<stored, doomed, spared>>

\* A purge that holds the document's key will drop the object all the same.
Restore(D) ==
    /\ \A d \in D : status[d] = "trashed"
    /\ Become(D, "active")
    /\ spared' = spared \cup (D \cap doomed)
    /\ UNCHANGED <<stored, doomed>>

\* A purge reads the keys of documents in the trash.
Doom(D) ==
    /\ \A d \in D : status[d] = "trashed"
    /\ doomed' = doomed \cup D
    /\ UNCHANGED <<status, stored, spared>>

\* Documents stay in the trash although a purge holds their keys: its DELETE
\* fails or does not find them any more.
Spare(D) ==
    /\ \A d \in D : d \in doomed /\ status[d] = "trashed"
    /\ spared' = spared \cup D
    /\ UNCHANGED <<status, stored, doomed>>

\* The rows are deleted; only a row that was spared may be active.
Purge(D) ==
    /\ \A d \in D : \/ status[d] = "trashed"
                    \/ status[d] = "active" /\ d \in spared
    /\ Become(D, "purged")
    /\ UNCHANGED <<stored, doomed, spared>>

\* A purge is done with the document, and has dropped its object or failed to.
Drop(d) ==
    /\ d \in doomed
    /\ status[d] = "purged" \/ d \in spared
    /\ stored' \in {stored, stored \ {d}}
    /\ doomed' \in {doomed, doomed \ {d}}
    /\ UNCHANGED <<status, spared>>

\* A purge is cut short.
Release(D) ==
    /\ doomed' = doomed \ D
    /\ UNCHANGED <<status, stored, spared>>

Next ==
    \/ \E d \in Doc : Store(d) \/ Publish(d) \/ Drop(d)
    \/ \E D \in SUBSET Doc :
         Trash(D) \/ Restore(D) \/ Doom(D) \/ Spare(D) \/ Purge(D) \/ Release(D)

Spec == Init /\ [][Next]_vars

=============================================================================
