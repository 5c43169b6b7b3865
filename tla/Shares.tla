------------------------------ MODULE Shares ------------------------------
(***************************************************************************)
(* The share links of an account: the table share_links, its handlers, the *)
(* owner's share modal and the visitors' share page, on top of documents   *)
(* that behave as DocLifecycle says.                                       *)
(*                                                                         *)
(* download_shared_document checks the link in one statement, counts the   *)
(* download in a second one and reads the object last; it takes no lock,   *)
(* so the downloads of several visitors interleave.                        *)
(***************************************************************************)
EXTENDS Naturals, FiniteSets

CONSTANTS
    Doc,        \* the documents of the account
    Share,      \* the ids (UUIDs) that share links may draw
    Owner,      \* the tabs in which the owner may be creating a link
    Visitor,    \* the share pages that may be open at one time
    Limit,      \* the download limits an owner may choose
    MaxInt,     \* the largest value of a column of type INTEGER
    Nil         \* SQL NULL, and no share link or document

ASSUME NilAssumption == Nil \notin Doc \cup Share \cup Limit
ASSUME VisitorAssumption == IsFiniteSet(Visitor) /\ Visitor # {}
ASSUME LimitAssumption == MaxInt \in Nat /\ Limit \subseteq 0 .. MaxInt

VARIABLES
    status,             \* the state of each document's row (DocLifecycle)
    stored,             \* the documents whose object is in the bucket
    doomed,             \* the documents whose key a purge holds
    spared,             \* history: the rows that escaped such a purge
    share_links,        \* the state of each link's row
    document_id,        \* the columns of share_links
    download_limit,
    downloads_count,
    expires_at,         \* "never", "later" or "past"
    permission,
    creating,           \* the document a tab is creating a link for
    page,               \* what a visitor's page is doing
    at,                 \* the link whose page it is
    served,             \* history: how often a link's document was sent
    lost                \* history: downloads counted and not sent, because
                        \* S3 failed or had no object, or the visitor left

documentVars == <<status, stored, doomed, spared>>
linkVars == <<share_links, document_id, download_limit, downloads_count,
              expires_at, permission>>
pageVars == <<page, at>>
historyVars == <<served, lost>>
vars == <<status, stored, doomed, spared, share_links, document_id,
          download_limit, downloads_count, expires_at, permission, creating,
          page, at, served, lost>>

Documents == INSTANCE DocLifecycle
               WITH Doc <- Doc, status <- status, stored <- stored,
                    doomed <- doomed, spared <- spared

Live(s) == share_links[s] = "live"
Pending(s) == {v \in Visitor : page[v] = "counting" /\ at[v] = s}
Fetching(s) == {v \in Visitor : page[v] = "fetching" /\ at[v] = s}

-----------------------------------------------------------------------------
(***************************************************************************)
(* The documents.  Purging a document deletes its links (ON DELETE         *)
(* CASCADE); trashing it only hides them.                                  *)
(***************************************************************************)

\* Mutant of DocumentStep: document_id has no ON DELETE CASCADE.
DocumentStepAlone ==
    /\ Documents!Next
    /\ UNCHANGED <<linkVars, creating, pageVars, historyVars>>

DocumentStep ==
    /\ Documents!Next
    /\ share_links' =
         [s \in Share |-> IF Live(s) /\ status'[document_id[s]] = "purged"
                          THEN "deleted" ELSE share_links[s]]
    /\ UNCHANGED <<document_id, download_limit, downloads_count, expires_at,
                   permission, creating, pageVars, historyVars>>

-----------------------------------------------------------------------------
(***************************************************************************)
(* The owner.                                                              *)
(***************************************************************************)

\* create_share_link: the ownership check.
CreateShareLink(o, d) ==
    /\ creating[o] = Nil
    /\ status[d] = "active"
    /\ creating' = [creating EXCEPT ![o] = d]
    /\ UNCHANGED <<documentVars, linkVars, pageVars, historyVars>>

\* The INSERT, which the foreign key refuses when the document has been
\* purged meanwhile; one that is in the trash by now gets its link.
InsertShareLink(o, s, limit, expiry, allowed) ==
    /\ creating[o] # Nil
    /\ share_links[s] = "none"
    /\ status[creating[o]] # "purged"
    /\ share_links' = [share_links EXCEPT ![s] = "live"]
    /\ document_id' = [document_id EXCEPT ![s] = creating[o]]
    /\ download_limit' = [download_limit EXCEPT ![s] = limit]
    /\ expires_at' = [expires_at EXCEPT ![s] = expiry]
    /\ permission' = [permission EXCEPT ![s] = allowed]
    /\ creating' = [creating EXCEPT ![o] = Nil]
    /\ UNCHANGED <<documentVars, downloads_count, pageVars, historyVars>>

\* The INSERT fails, or the request is dropped before it.
InsertFails(o) ==
    /\ creating[o] # Nil
    /\ creating' = [creating EXCEPT ![o] = Nil]
    /\ UNCHANGED <<documentVars, linkVars, pageVars, historyVars>>

\* revoke_share_link
RevokeShareLink(s) ==
    /\ Live(s)
    /\ share_links' = [share_links EXCEPT ![s] = "deleted"]
    /\ UNCHANGED <<documentVars, document_id, download_limit, downloads_count,
                   expires_at, permission, creating, pageVars, historyVars>>

\* Time passes: a link reaches its expiry date.
Expire(s) ==
    /\ expires_at[s] = "later"
    /\ expires_at' = [expires_at EXCEPT ![s] = "past"]
    /\ UNCHANGED <<documentVars, share_links, document_id, download_limit,
                   downloads_count, permission, creating, pageVars, historyVars>>

-----------------------------------------------------------------------------
(***************************************************************************)
(* The visitors.                                                           *)
(***************************************************************************)

\* What get_share_link and download_shared_document check: the row, joined
\* with its document outside the trash, the expiry date and the limit.
Available(s) ==
    /\ Live(s)
    /\ status[document_id[s]] = "active"
    /\ expires_at[s] # "past"
    /\ download_limit[s] # Nil => downloads_count[s] < download_limit[s]

\* The page loads the link's metadata with get_share_link.
OpenPage(v, s) ==
    /\ page[v] = "closed"
    /\ share_links[s] # "none"
    /\ page' = [page EXCEPT ![v] = IF Available(s) THEN "ready" ELSE "error"]
    /\ at' = [at EXCEPT ![v] = s]
    /\ UNCHANGED <<documentVars, linkVars, creating, historyVars>>

\* Mutant of DownloadSharedDocument: one download too many is let through.
DownloadPastLimit(v) ==
    LET s == at[v] IN
    /\ page[v] \in {"ready", "previewing"}
    /\ page' = [page EXCEPT ![v] =
                  IF /\ Live(s) /\ status[document_id[s]] = "active"
                     /\ expires_at[s] # "past"
                     /\ permission[s] # "view_only"
                     /\ download_limit[s] # Nil
                        => downloads_count[s] <= download_limit[s]
                  THEN "counting" ELSE "error"]
    /\ UNCHANGED <<documentVars, linkVars, creating, at, historyVars>>

\* The SELECT of download_shared_document, for a download or a preview.
DownloadSharedDocument(v) ==
    LET s == at[v] IN
    /\ page[v] \in {"ready", "previewing"}
    /\ page' = [page EXCEPT ![v] =
                  IF Available(s) /\ permission[s] # "view_only"
                  THEN "counting" ELSE "error"]
    /\ UNCHANGED <<documentVars, linkVars, creating, at, historyVars>>

\* Mutant of CountDownload: the UPDATE sets the count it has read before.
CountDownloadOnce(v) ==
    LET s == at[v] IN
    /\ page[v] = "counting"
    /\ page' = [page EXCEPT ![v] = "fetching"]
    /\ downloads_count' =
         [downloads_count EXCEPT ![s] = IF Live(s) /\ MaxInt > 0 THEN 1 ELSE @]
    /\ UNCHANGED <<documentVars, share_links, document_id, download_limit,
                   expires_at, permission, creating, at, historyVars>>

\* Mutant of CountDownload: the column is not checked for overflow.
CountDownloadUnchecked(v) ==
    LET s == at[v] IN
    /\ page[v] = "counting"
    /\ page' = [page EXCEPT ![v] = "fetching"]
    /\ downloads_count' = [downloads_count EXCEPT ![s] = IF Live(s) THEN @ + 1 ELSE @]
    /\ UNCHANGED <<documentVars, share_links, document_id, download_limit,
                   expires_at, permission, creating, at, historyVars>>

\* The UPDATE: it finds no row when the link is gone, and fails when the
\* column overflows.
CountDownload(v) ==
    LET s == at[v]
        full == Live(s) /\ downloads_count[s] = MaxInt IN
    /\ page[v] = "counting"
    /\ page' = [page EXCEPT ![v] = IF full THEN "error" ELSE "fetching"]
    /\ downloads_count' =
         [downloads_count EXCEPT ![s] = IF Live(s) /\ ~full THEN @ + 1 ELSE @]
    /\ UNCHANGED <<documentVars, share_links, document_id, download_limit,
                   expires_at, permission, creating, at, historyVars>>

\* The object is read, by the storage_path of the SELECT, and sent.
GetObject(v) ==
    LET s == at[v] IN
    /\ page[v] = "fetching"
    /\ IF document_id[s] \in stored
       THEN /\ \E shown \in {"complete", "previewing"} :
                 page' = [page EXCEPT ![v] = shown]
            /\ served' = [served EXCEPT ![s] = @ + 1]
            /\ UNCHANGED lost
       ELSE /\ page' = [page EXCEPT ![v] = "error"]
            /\ lost' = [lost EXCEPT ![s] = @ + 1]
            /\ UNCHANGED served
    /\ UNCHANGED <<documentVars, linkVars, creating, at>>

\* S3 does not answer: the handler returns an error.
GetObjectFails(v) ==
    /\ page[v] = "fetching"
    /\ page' = [page EXCEPT ![v] = "error"]
    /\ lost' = [lost EXCEPT ![at[v]] = @ + 1]
    /\ UNCHANGED <<documentVars, linkVars, creating, at, served>>

\* The buttons Close of a preview and Download Again go back to the start.
BackToStart(v) ==
    /\ page[v] \in {"previewing", "complete"}
    /\ page' = [page EXCEPT ![v] = "ready"]
    /\ UNCHANGED <<documentVars, linkVars, creating, at, historyVars>>

\* The visitor leaves; a handler that has not answered yet is dropped.
ClosePage(v) ==
    /\ page[v] # "closed"
    /\ page' = [page EXCEPT ![v] = "closed"]
    /\ at' = [at EXCEPT ![v] = Nil]
    /\ lost' = IF page[v] = "fetching"
               THEN [lost EXCEPT ![at[v]] = @ + 1] ELSE lost
    /\ UNCHANGED <<documentVars, linkVars, creating, served>>

-----------------------------------------------------------------------------
Permission == {"view_only", "download_allowed"}
Expiry == {"never", "later", "past"}

Init ==
    /\ Documents!Init
    /\ share_links = [s \in Share |-> "none"]
    /\ document_id = [s \in Share |-> Nil]
    /\ download_limit = [s \in Share |-> Nil]
    /\ downloads_count = [s \in Share |-> 0]
    /\ expires_at = [s \in Share |-> "never"]
    /\ permission = [s \in Share |-> "download_allowed"]
    /\ creating = [o \in Owner |-> Nil]
    /\ page = [v \in Visitor |-> "closed"]
    /\ at = [v \in Visitor |-> Nil]
    /\ served = [s \in Share |-> 0]
    /\ lost = [s \in Share |-> 0]

OwnerStep(o) ==
    \/ \E d \in Doc : CreateShareLink(o, d)
    \/ \E s \in Share, limit \in Limit \cup {Nil}, e \in Expiry, a \in Permission :
         InsertShareLink(o, s, limit, e, a)
    \/ InsertFails(o)

Serve(v) == CountDownload(v) \/ GetObject(v) \/ GetObjectFails(v)

VisitorStep(v) ==
    \/ \E s \in Share : OpenPage(v, s)
    \/ DownloadSharedDocument(v)
    \/ Serve(v)
    \/ BackToStart(v)
    \/ ClosePage(v)

Next ==
    \/ DocumentStep
    \/ \E o \in Owner : OwnerStep(o)
    \/ \E s \in Share : RevokeShareLink(s) \/ Expire(s)
    \/ \E v \in Visitor : VisitorStep(v)

Spec == Init /\ [][Next]_vars

-----------------------------------------------------------------------------
(***************************************************************************)
(* Properties.                                                             *)
(***************************************************************************)

\* Every variable has its type.
TypeOK ==
    /\ Documents!TypeOK
    /\ share_links \in [Share -> {"none", "live", "deleted"}]
    /\ document_id \in [Share -> Doc \cup {Nil}]
    /\ download_limit \in [Share -> Limit \cup {Nil}]
    /\ downloads_count \in [Share -> 0 .. MaxInt]
    /\ expires_at \in [Share -> Expiry]
    /\ permission \in [Share -> Permission]
    /\ creating \in [Owner -> Doc \cup {Nil}]
    /\ page \in [Visitor -> {"closed", "ready", "counting", "fetching",
                             "previewing", "complete", "error"}]
    /\ at \in [Visitor -> Share \cup {Nil}]
    /\ served \in [Share -> Nat]
    /\ lost \in [Share -> Nat]

\* A link that exists is the link of a document that exists, so that whoever
\* restores a document from the trash finds its links working, and nobody can
\* open the link of a purged one.
LinksHaveDocuments ==
    \A s \in Share :
        Live(s) => /\ document_id[s] \in Doc
                   /\ status[document_id[s]] \in {"active", "trashed"}

\* The books balance while a link exists: each download that was counted was
\* sent, is being read from the bucket, or was lost to S3, to a purge or to the
\* visitor; none is counted twice or sent uncounted.
LedgerBalanced ==
    \A s \in Share :
        Live(s) => downloads_count[s]
                     = served[s] + lost[s] + Cardinality(Fetching(s))

\* A link is used at most as often as its limit, and once more for each other
\* download that was under way at the same time, whatever the owner does to
\* the link and the document meanwhile.
OvershootBounded ==
    \A s \in Share :
        download_limit[s] # Nil =>
            served[s] + 1 <= download_limit[s] + Cardinality(Visitor)

-----------------------------------------------------------------------------
(***************************************************************************)
(* The inductive invariant behind them.                                    *)
(***************************************************************************)

\* A page that is downloading has a link with a document.
PagesHaveLinks ==
    /\ \A v \in Visitor :
         page[v] # "closed" => /\ at[v] \in Share
                               /\ share_links[at[v]] # "none"
    /\ \A s \in Share : share_links[s] # "none" => document_id[s] \in Doc
    /\ \A s \in Share : share_links[s] = "none" =>
         downloads_count[s] = 0 /\ served[s] = 0 /\ lost[s] = 0
    /\ \A o \in Owner : creating[o] # Nil => status[creating[o]] # "absent"

\* What has been checked but not counted yet is the most a link can exceed
\* its limit by, and what has been checked is the most that can still be sent.
ChecksBounded ==
    \A s \in Share :
        download_limit[s] # Nil =>
            /\ Live(s) => downloads_count[s] + Cardinality(Pending(s)) + 1
                            <= download_limit[s] + Cardinality(Visitor)
            /\ served[s] + Cardinality(Fetching(s)) + Cardinality(Pending(s)) + 1
                 <= download_limit[s] + Cardinality(Visitor)

SharesInv ==
    /\ TypeOK
    /\ PagesHaveLinks
    /\ LinksHaveDocuments
    /\ LedgerBalanced
    /\ ChecksBounded

=============================================================================
