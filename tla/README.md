# Privault in TLA+

Specifications of Privault's server and of the parts of its web client that
keep state, model-checked with TLC on small instances and proved with TLAPS for
every instance where a proof is within reach.

Every definition is a translation of the source at this commit. `PROJECT.json`
names, for each definition, the lines it stands for; the comment above a
definition says what it abstracts. Definitions marked "Mutant of X" are not part
of a specification: each is X with a plausible bug in it, and the run that checks
a property finds the property violated when the mutant takes X's place.

## The system

Privault is an encrypted document vault: an Axum server in Rust
(`src/backend`), PostgreSQL (`src/database`), an S3 bucket, and a Next.js client
(`src/frontend`) that does all the encryption. Three facts shape every model:

- **No modelled handler opens a transaction.** Each SQL statement commits by
  itself, on a pool of five connections, and each S3 call is one more step. Between
  two `.await`s of a handler any other handler may run, and no lock keeps two of them
  apart. A *statement* is atomic in the models, because PostgreSQL makes it so; a
  *handler* is a sequence of steps. The one exception in the source is
  `upload_folder` (`documents/handlers.rs:823-911`), which is not modelled.
- **The row and the object are separate.** A document is a row of `documents`
  and an object `documents/<id>` in the bucket; a thumbnail is the column
  `thumbnail_path` and an object `thumbnails/<id>`. S3 deletes are best effort.
- **One server process.** `main` connects, awaits `cleanup_expired_trash`, and
  only then binds the listener (`main.rs:96-97`, `:199`), so the start-up task
  never overlaps a request. When the process stops, its requests are gone.

### Inventory

| Component | State | Operations that change it | What is hard | Properties that make it correct |
|---|---|---|---|---|
| Documents (`documents/`) | `documents` rows, objects, thumbnails | upload, upload_folder, delete, delete_folder_documents, upload/delete thumbnail | object before row; failures between; several requests | a row that exists has its object; a named thumbnail exists |
| Folders (`folders/`) | `folders` rows: `parent_id` | create, rename, delete (tree to the trash) | three statements; a tree that others change meanwhile | the folders are a forest; the place of an item survives |
| Trash (`trash/`) | `deleted_at`, `trash_origin_*` | restore (document, folder), permanent delete (document, folder), empty, start-up cleanup | keys read in one statement, rows deleted in another, objects last; every statement may fail | a row and its object part only in the races that are known; a restore brings back what was trashed |
| Share links (`shares/`, share page and modal) | `share_links` rows | create, get, download, revoke; document purge (cascade) | check, count and read are three steps | the count is the truth; the limit holds |
| Sessions (`auth/session.rs`, `auth/handlers.rs`) | `sessions` rows, detached touch tasks | login, touch, logout, revoke one, revoke all | touches run late and out of order | idle sessions end, used sessions live |
| Accounts and recovery (`auth/`, `recovery/`) | `users` row: verifier, salts, wrapped keys, recovery fields, lockout | register, verify e-mail, login, change password, store key, recover, recovery password change, delete account | several requests per client operation; read-then-write counter | whoever can log in can unwrap the key; the phrase the user was shown recovers |
| Rate limiter (`ratelimit.rs`) | buckets per address | check on each request | window boundaries, clean-up | no more than the limit per window |
| Tags (`tags/`) | `tags`, `document_tags` | create, delete, assign, remove | check then insert | tags and documents of one owner |
| Quota (`documents/handlers.rs:22-50`) | sum of sizes | checked by uploads | check then insert; restore does not check | used <= quota |
| Web client: session context (`context.tsx`) | keys in memory, `localStorage` | register, login, unlock, recover, logout | several tabs share one storage | each tab holds its own account's key |
| Web client: dashboard (`dashboard/page.tsx`, `trash-panel.tsx`) | open folder, listing, cached tags, toast, preview | open, delete, delete all, restore, purge, preview | no request is ever cancelled: answers arrive late, in any order, in another folder | what is shown, deleted and previewed is what the user asked for |
| Web client: batch uploads (`dashboard/page.tsx`) | queue, panel, zone, prompt, abort signal | drop files, answer the prompt, cancel, dismiss | a batch that was superseded or cancelled goes on until its next check | what the panel says is true; a lost document is reported |
| Web client: crypto worker (`crypto-worker.ts`) | none: a worker per call | encrypt, decrypt | a worker that fails | each call is settled once, by its own worker |
| Audit, activity, usage, e-mail, validation, headers, presentation | append-only rows or none | - | effects nobody reads back | - |

Interactions: the trash, the documents and the folders share their tables and
the bucket; share links refer to documents by a foreign key that cascades;
every authenticated request goes through the session extractor, which spawns a
touch; the client's operations are sequences of those requests. The client's
Recycle Bin is not the server's trash: "Move to Trash" gives a document the tag
TRASH, and only "Delete Permanently" sends the DELETE, which moves the row to the
server's trash; the client never calls `/api/trash`.

## Modules

| Module | What it is |
|---|---|
| `DocLifecycle` | abstract: what the documents and trash handlers promise of a document's row and its object |
| `KeyCustody` | abstract: what registration, login, password change and recovery promise of the accounts' private keys |
| `Vault` | documents, folders, trash, bucket and start-up cleanup, one action per SQL statement or S3 call |
| `VaultRaces` | `Vault` with a history variable that records the races in which a row loses its object or thumbnail, what holds but for them, and the refinement of `DocLifecycle` |
| `VaultAlone` | `Vault` with its requests one after the other, and history variables that say which `delete_folder` trashed an item and which objects a purge left behind |
| `Shares` | share links, share modal and share page, on top of documents that behave as `DocLifecycle` |
| `Sessions` | the session table, the extractor, the touch tasks and the handlers that delete sessions, with a clock |
| `Account` | the key columns of `users`, the handlers that write them, and the browser tabs that register, log in, unlock, change the password and recover |
| `Dashboard` | the dashboard page over one account: listing, cached tags, deletions, Recycle Bin, preview, with all their requests in flight |
| `Uploads` | the dashboard's batch uploads: queue, prompt, panel, zone, cancellation, and requests that are served late |
| `MCVault`, `MCVaultRaces`, `MCVaultAlone`, `MCShares`, `MCSessions`, `MCAccount`, `MCDashboard`, `MCUploads` | instances for TLC: document names and places, browsers, symmetry |
| `VaultProofs`, `VaultReadableProofs`, `VaultRefinementProofs`, `SharesProofs`, `SessionsProofs`, `AccountProofs`, `DashboardProofs`, `UploadsProofs` | theorems and their proofs |

`Vault` implements `DocLifecycle` (property `ImplementsLifecycle` of `VaultRaces`, by
the refinement mapping `status`, `stored`, `doomed`, `spared`; checked by TLC and proved
in `VaultRefinementProofs`, for every interleaving and every fault). `Shares` composes
the links with `DocLifecycle` instead of with `Vault`: a share link sees a document's
`deleted_at`, its row and its object, and nothing of folders or thumbnails. Because
the refinement has no condition, what is checked of `Shares` holds over the real store,
with the documents that lose their object in a race among them.

`DocLifecycle` does not promise that a row has its object, because the code does not.
A purge reads keys and deletes later, so it first *dooms* documents in the trash
(`Doom`); what is then restored, or stays in the trash because the DELETE fails or
does not find it, is *spared* without its object (`Restore`, `Spare`). The promise is
that an object is dropped (`Drop`) only under such a purge, that a row leaves the account
(`Purge`) only from the trash or after it was spared, and that no row is published
before its object is stored.

`Account` implements `KeyCustody` (property `ImplementsCustody`, by the mapping
`accepted`, `chests`, `holding` in `Account.tla`; checked by TLC and proved in
`AccountProofs`). `KeyCustody` has four steps: an account is enrolled with a key pair
of its own, its chest is rewrapped for another password, a tab takes the key of an
account, a tab lets go of it. Salts, requests, answers, phrases and `localStorage` are
gone; every interleaving of the real operations is a sequence of those four.

### Vault

State: the columns of `documents` and `folders` that the handlers read or write
(`documents[d]` is the row's life: `none`, `active`, `trashed`, `expired`,
`purged`; *expired* means `deleted_at` is older than the retention cut), the
keys in the bucket, and for each task its next statement (`step`), the row it
works on (`target`) and the S3 keys it has collected (`paths`).

A handler begins with an action that does its first statement (its guard is the
handler's early return) and goes on with one action per statement:
`restore_folder` is `RestoreFolder`, `RestoreDocuments`, `RestoreSubfolders`,
`RestoreSubfolderDocuments`; `empty_trash` is `EmptyTrash`,
`CollectThumbnails`, `DeleteTrashedDocuments`, `DeleteTrashedFolders`, then
`DeleteObject` per key and `PurgeDone`. Handlers of one statement are one action.
The schema is part of the statements: `ON DELETE CASCADE` on `parent_id`,
`ON DELETE SET NULL` on the other references, and the partial unique index on
the names of active documents, which makes an INSERT, a restore or a folder
DELETE fail as a whole. A recursive CTE is `Tree`, the least set closed under
its join.

A request that changes nothing is not an action: list and download handlers,
and requests that are refused (quota, validation, unknown id). `rename_folder`
writes a name that no other statement reads, and is left out with the names of
folders. One owner's rows are modelled: every statement has `owner_id = $n`.

**Faults.** The constant `Faults` says what may go wrong:

| | what may happen | where |
|---|---|---|
| `abort` | a request ends at any step: an error returned by `?`, a client that disconnects (axum drops the handler), a process that stops | everywhere |
| `s3` | `delete_object` fails; every caller logs it and goes on | purges, thumbnails |
| `db` | a DELETE of the start-up cleanup fails; it is logged, and the cleanup goes on | cleanup |

Requests that overlap are no fault: any number of purges, restores, uploads and
thumbnail requests interleave, statement by statement, as the handlers let them.

**Races.** So a row can lose its object, and `VaultRaces` says exactly how. Its variable
`raced` collects the keys to which one of four things has happened; no action reads it.

| | the race | where |
|---|---|---|
| `Moved` | a document whose key a purge holds is restored, or its folder is purged by somebody else, before the purge's DELETE | `trash/handlers.rs:109-131`, `:332-405` |
| `UndeletedKeys` | the cleanup's DELETE fails, and the objects are deleted all the same | `trash/handlers.rs:579-592` |
| `Overtaken` | `delete_thumbnail` deletes the object that an `upload_thumbnail` has stored and is about to name | `documents/handlers.rs:346-368`, `:436-440` |
| `CutShort` | `delete_thumbnail` ends between the object and the column | `documents/handlers.rs:436-456` |

`DocumentsReadable` and `ThumbnailsReadable` say that every row has its object, and every
named thumbnail is there, but for these keys: no other interleaving, fault or restart
parts them. `OriginIsPlace` and `FolderForest` have no exception at all.

**One after the other.** `VaultAlone` lets a request arrive only when all others have
returned, and lets it run to its end. `trashedWith` records which `delete_folder` moved
an item to the trash, `leftover` the keys whose object was still in the bucket when the
step that should have deleted it had passed (S3 failed, a refused statement ended the
request, or, for the thumbnail of `permanent_delete_document`, nobody asked).

### Shares

`download_shared_document` is `DownloadSharedDocument` (its SELECT and its
checks), `CountDownload` (its UPDATE) and `GetObject` or `GetObjectFails` (S3);
`create_share_link` is `CreateShareLink` (ownership) and `InsertShareLink` or
`InsertFails`. `page[v]` is the `status` of a visitor's page, with the client's
"decrypting" split in the two states of the request it waits for ("counting",
"fetching"). `DocumentStep` is any step of `DocLifecycle` together with the
cascade of the foreign key. `served` and `lost` are history variables: what was
sent, and what was counted and not sent. Limits from 0 up to the
largest value of the column may be chosen (`LimitAssumption`). The server does not check
the sign: a limit of 0 is a link nobody can use, and so is a negative one, which the
assumption leaves out. `downloads_count` is an `INTEGER` with a largest value.

The links' keys and the wrapped document keys are opaque and left out. The
client writes "view" into the fragment of the URL and never sends `permission`
(`share-modal.tsx:111-118`); the handler supports it, so the model creates
links of both kinds.

### Sessions

Time is an integer clock `now`; `Idle`, `Gap`, `HardCap` stand for 24 hours, one
hour and seven days. `AuthSession` accepts a request (`Authenticates`), and
spawns a touch that reads the clock (`ReadClock`), waits for a connection, and
runs its UPDATE with the time it read (`TouchSession`). The pool gives up on a
connection after 30 seconds (sqlx's default `acquire_timeout`, nothing overrides
it), so a touch is at most `Delay` late and `Delay <= Gap`
(`TimesAssumption`). A request that deletes sessions is accepted with one
session and runs its DELETE later, so two sessions may delete each other.
`login` and `recover` insert the same row (`Login`); verifying the password is
not part of this module. A mismatch of the fingerprint is a refusal.

### Account

Three parties touch an account's keys: the `users` row, the browser's
`localStorage` (shared by its tabs), and each tab's memory. An operation of a tab
(`op[t]`) is a sequence of requests with client code between them; `request[t]`
is the one it waits for and `reply[t]` the answer it has not processed, so the
server's commit and the client's next step are two steps, and other tabs act in
between. `NoAnswer` is any error, also `fetchWithTimeout`'s: the request may have
had no effect, or become an *orphan* that is served later. `Reload` loses a tab's
memory at any point. `ReadSession` and `StoreKey` are the tail of `register`,
which goes on while the tab is already on the dashboard.

Cryptography is what it is made from: a verifier is a password and a salt, a
wrapped key a key, a password and a salt, and it opens with exactly those. A
`Draw` stands for everything that one operation draws at random: two salts, which
every statement writes together, and in a registration the key pair and the
phrase. An account's phrase exists twice in the source: the one the web client
draws, shows, and wraps the recovery key with ("own"), and the one the server's
`register` draws, hashes, and returns ("returned"). The web client ignores the
returned one. `Shown` says which a registration shows and wraps with: `{"own"}`
is the web client, `{"returned"}` a client that follows the server's description
of recovery (`recovery/handlers.rs:67-81`), with which the recovery handlers are
exercised; the theorems hold for either and both.

Left out: the session tokens (a refused token is an error answer; `Sessions` has
them), the sandbox, which talks to no server, and the e-mail flags that
`loginInternal` merges into the stored session.

### Dashboard

A handler of the page is a closure of the render it was started from: it keeps
that render's `currentFolderId`, `documents` and `trashTagId`, nothing cancels it,
and its answers are put on the screen whatever the page shows by then. In the
model it is a task: `place[t]` is the folder of its render, `step[t]` the request
it waits for, `docs[t]` the answer that has not arrived and `left[t]` the
documents it still has to handle. A read is served in one step (`AnswerList`,
`AnswerRelist`) and arrives in another (`ListArrives`, `RelistArrives`), so what
arrives may be older than what is on the screen; a write and its answer are one
step, whose failing variants include the write that was served and whose answer
was lost.

`loadData` is `Open`, `AnswerList`, `ListArrives`, `CreateTag`, `AnswerTags` (one
per document, in any order), `TagsArrive`, or `LoadFails`. `AskDelete` and
`AskDeleteAll` open a toast with the values of their render and `ConfirmToast`
starts its handler with them, in whatever folder the user is by then. The trash
panel is mounted only in its view; leaving the view loses its state, and a handler
it started goes on (`panelTask`). The toasts that may be on the screen together
are bounded to one. `AskDeleteFolder` and `DeleteFolder` are the deletion of a
folder from its row or the sidebar, which compares it with the folder open in the
render of the click: if they are the same, the page goes to the root, and the load
that this starts is the rest of the handler's task (what the handler does besides,
listing the folders again, changes the sidebar only, which is not modelled).
`Tree[f]` are the folders deleted with `f`. Documents do not move between folders: the client has no such
operation. The user's other device only deletes: what it adds would be one
more document of a listing.

Sandbox mode (demonstration documents shown while the server cannot be reached)
is the flag `isSandbox`, which closes the operations on the account until a load
succeeds; its own documents are not modelled.

`calm` is a history variable: the user has waited for each handler before starting
the next, has confirmed a deletion in the folder where it was asked, has not deleted
a folder around the open one, no request has failed, and no other device has
written. `CalmScreen`, `CalmDeleteAll` and
`CalmPreview` are about such executions, because the code makes no promise beyond
them ("Known behaviours" lists what happens otherwise); `PurgedWasBinned`,
`ListingIsOneFolder` and the liveness properties need no such user. They are narrower in
turn: `PurgedWasBinned` does not tell a document that was restored meanwhile from one
that is still in the bin, and `ListingIsOneFolder` does not say whose folder it is.

### Uploads

One run of `handleUploadQueue` is a batch, numbered in the order of the drops. A
batch handles one file after the other: `Pick` (creates the directory, looks for
the name in the listing of *its* render, asks), `Answer`, `Encrypted`,
`DeleteOld` for "Overwrite", `Send`, and the answer. A new batch aborts the one
before, and so does "Cancel"; a batch notices at its next check, or when the
request that carries its signal is aborted, and `End` then clears the panel and
the zone, whosever they are by then. `pending` holds the upload requests that left
the browser: `Serve` may store one after its batch was aborted. `UploadAborted`
covers both cases, the request that never left and the one that did.

Names are paths below the open folder; `InDir` are the files of a dropped
directory, whose documents the listing does not contain and which the duplicate
check therefore never finds; the server's unique index (`NameFree`) does. A copy
that "Keep Both" renames is taken to have a free name (the suffix is four digits
of the clock). Files over the size limit are sorted out before a batch starts.

## Runs

All passing runs check deadlock, except three: in `sessions_touch` the model's
clock stops at `Horizon` and nothing is left to do once all sessions are gone; in
`dashboard_races` and `uploads_batches` the user may do nothing more, with the
handlers or files that the bounds allow used up.

| Run | Instance | Checks | Shows |
|---|---|---|---|
| `vault_lifecycle` | 1 document, 1 folder, 2 requests, `abort`, `s3`, `db` (0.2 million states) | `TypeOK`, `DocumentsReadable`, `ThumbnailsReadable`, `ImplementsLifecycle` | whatever interleaves, fails or is cut short, a row parts from its object or thumbnail by the recorded races only, and the store is a behaviour of `DocLifecycle` |
| `vault_two_requests` | 1 document, 2 folders, 2 requests, `abort` (1.3 million states) | `OriginIsPlace`, `FolderForest` | restores return an item to its place, and the recursive CTEs end |
| `vault_progress` | 2 documents of one name, 1 folder, 1 multi-statement request beside the single-statement ones, `s3`, fairness (0.3 million states) | `RequestsEnd`, `StartPurgesExpired` | no request hangs, whatever S3 or the unique index refuses; a start purges what expired |
| `vault_alone` | 1 document, 3 folders, sequential, `s3`, `db` (1.9 million states) | `PurgeIsComplete`, `RestoreBringsBackFolders`, `DeleteTakesContents` | a purge leaves nothing but what it could not delete or never looked for; the folders a deletion took hold no active document; a restored folder brings its sub-folders |
| `shares_downloads` | 1 document, 1 link, 1 owner tab, 3 visitors, limits 0 and 1, counter up to 3 | `TypeOK`, `LinksHaveDocuments`, `LedgerBalanced`, `OvershootBounded` | counting is exact whatever the owner does; the limit is passed by less than the number of visitors |
| `sessions_touch` | 2 sessions, 2 touches, 1 deleting request, clock to 5, `Idle` 3, `Gap` 1, `HardCap` 5, `Delay` 1 | `TypeOK`, `IdleTimeout`, `ExpiryNeverShrinks` | late and reordered touches never extend an idle session nor shorten a used one |
| `account_keys` | 2 accounts, 2 passwords, 2 draws, 2 tabs of one browser, 1 late request, phrases "returned" | `TypeOK`, `VerifierUnwraps`, `MemoryKeyIsOwn`, `StorageUnlocks`, `ImplementsCustody` | whatever two tabs do to one row or to their shared `localStorage`, who can log in can unwrap the key, and each tab holds its own account's key; all of it is a behaviour of `KeyCustody` |
| `dashboard_races` | 2 documents at the root, 1 in a sub-folder of a folder, 2 handlers in flight, 3 handlers and deletions by another device in all, fairness | `TypeOK`, `PurgedWasBinned`, `ListingIsOneFolder`, `CalmScreen`, `CalmDeleteAll`, `CalmPreview`, `SpinnerStops`, `PanelReleased` | late and reordered answers never purge what was not binned nor mix two folders; a user who waits sees and deletes what the server has; the spinner and the buttons come back |
| `uploads_batches` | 2 files, 1 of them in a directory, 2 batches of 2 files together, 1 upset (failure, cancellation, dismissal, other tab), fairness | `TypeOK`, `CompleteIsStored`, `PromptAnswerable`, `LossIsShown`, `ZoneIsCurrent`, `BatchesEnd`, `EntriesSettle` | what the panel says of the batch on the screen is true although the one before still writes it; a document lost by "Overwrite" is reported; from any step of its work a batch ends or asks |

Runs in which TLC finds a documented claim violated by what the code does:

| Run | Claim | What happens |
|---|---|---|
| `vault_restore_nested` | "Restore a trashed folder and all its contents recursively" (`trash/handlers.rs:147`) | `restore_folder` restores the sub-folders in its third statement; its fourth looks for documents in sub-folders *that are still trashed*, finds none, and the documents of sub-folders stay in the trash |
| `sessions_active` | "actively-used sessions refresh themselves up to 7d total" (`migration_session_touch.sql:11`) | each use resets `last_used_at`, and only a use more than an hour after the last one moves `expires_at`: a session used every half hour ends 24 hours after its login |
| `account_recovery` | "12-word mnemonic phrase for account recovery" (README.md:89) | the phrase that wraps the recovery key is not the phrase whose hash finds the account: the one the user has written down recovers nothing |

**Bounds.** Ids are never reused (UUIDs), so the sets bound how many documents,
folders or links an execution *creates*; rows may be trashed and restored any
number of times. Two documents of one name are enough for the unique index to
refuse; two folders for a parent and a child (three in `vault_alone`, so that a
tree has depth); two requests for any race between two handlers, with the
single-statement handlers beside them. The properties of
`vault_lifecycle` were also checked once with two documents of one name, one request and
every fault (1.2 million states); the theorems about races hold for any number. In `Shares` the counter's maximum is
above what three visitors and a limit of 1 can reach on a limited link, and is
reached by unlimited ones. In `Sessions` the horizon lets a session pass its
idle time and reach its hard cap. The theorems below hold without these bounds,
which is the stronger reason to trust them. In `account_keys` a second draw lets two
accounts register, or one register and change its password or recover. In
`dashboard_races` two handlers are what a late answer needs (one that is old, one
that is new), a third start lets a deletion and a relisting meet; two
documents in one folder distinguish "the document" from "the listing", and a folder
with a sub-folder lets the open folder be deleted by itself or with its parent. In
`uploads_batches` two batches are a batch and its successor; the one upset may be
any failure at any moment, and the safety properties were also checked once with
three files (1.0 million states) and with two upsets (0.8 million).

**Fairness.** `FairSpec` is weak fairness of each request's next statement and of
the cleanup: tokio polls every handler in flight and `main` awaits the cleanup.
Nothing forces a request to arrive, the server to restart, or S3 to succeed.
In `Dashboard` and `Uploads` it is weak fairness of what a handler that has started
does next: a promise settles (an answer, an error, the browser's own timeout of a
dead connection; an encryption ends or fails) and its continuation runs, and a
timer fires. Nothing forces the user to answer a prompt or confirm a toast.
`StartPurgesExpired` is checked without `abort` and `db`: a start that is
interrupted purges at the next start.

## Proofs

All theorems are for any values of the constants (any finite or infinite sets of
documents, folders, requests, links, sessions, handlers; `Visitor` and `File`
finite), under the
named assumptions of the modules: `Nil` and `Boot` are no ids, no document has the
id of a folder (`VaultAlone`), `Faults` names
faults, the times of `Sessions` are naturals with `Delay <= Gap`, every document
of `Dashboard` has a place.

- **`VaultProofs`.** `TypeCorrect`, `OriginIsPlaceCorrect`,
  `FolderForestCorrect`, with every fault. `OriginIsPlace` is not inductive:
  deleting a folder clears references to it in two columns, which agree
  afterwards only if the trash origin of *every* folder, trashed or not, is its
  parent or NULL (`RefsExist`). `FolderForest` follows from that and
  `ParentForest`: a restore writes `parent_id` from the trash origin, which is
  the parent or NULL, so no restore can close a cycle. The key lemma is about
  `Tree`: a deletion takes a set closed under `parent_id`, so what is left still
  refers to rows that exist.
- **`VaultReadableProofs`.** `DocumentsReadableCorrect` and
  `ThumbnailsReadableCorrect`, of `VaultRaces`, with every fault and without any
  assumption on what overlaps. Neither is inductive. The invariant (`RacesInv`) is about
  who may hold the key of an object: `PathsDoomed` says that a task holds a key, of a
  document's object or thumbnail, only if the row is gone, or the deleting statement that
  the task comes to next will take it, or a race has been recorded, in every state in
  between. `UploadsPrivate` says that no one else has the key of an upload in flight,
  `CleanupAlone` that the cleanup overlaps no request, and `ThumbnailsStored` that a
  request about to set the column has stored its object, unless it was overtaken. The
  step that looks hardest, a `delete_folder` that trashes documents while a purge is
  between its SELECT and its DELETE, is where `TreeGrows` is needed: the tree that a
  purge deletes has only grown since it read the keys. A second purge that takes the
  folder away is the case where it has not, and is one of the recorded races.
- **`SharesProofs`.** `TypeCorrect`, `LinksHaveDocumentsCorrect`,
  `LedgerBalancedCorrect`, `OvershootBoundedCorrect`. `OvershootBounded` speaks
  of what was sent; the invariant behind it (`ChecksBounded`) bounds what was
  *checked*: count + visitors between check and count < limit + N. It carries
  over when the link is deleted in flight, because what was sent or can still be
  sent is bounded by itself. With one visitor at a time the theorem gives the
  limit exactly.
- **`SessionsProofs`.** `TypeCorrect`, `IdleTimeoutCorrect`,
  `ExpiryNeverShrinksCorrect`, from `ClockInv`: a touch that waits has read a
  time at most `Delay` ago, and no expiry is more than `Idle` ahead. A late touch
  moves the expiry only if `last_used_at < read - Gap`; then the old expiry is at
  most `last_used_at + Idle + Delay <= read + Idle` because `Delay <= Gap`, so
  the new one is no earlier.
- **`AccountProofs`.** `TypeCorrect`, `VerifierUnwrapsCorrect`,
  `MemoryKeyIsOwnCorrect`, `StorageUnlocksCorrect`, for any number of accounts,
  tabs, browsers and late requests. The row is right because every request that
  writes it carries a verifier and a wrapped key that were made together
  (`MessageSafe`), around a key that is the account's own; that in turn needs the
  tab that made it to hold its own account's key (`MemorySafe`) and the stored
  sessions it restores from to be right (`StorageSafe`). Recovery is the place
  where a foreign key could come in, because `store_key` may run with another
  tab's session: `PairSafe` (a recovery key is wrapped with the phrase of its own
  registration) with the fact that a row's phrase belongs to the row's key pair
  shows that such a key never opens. `KeysKept`, that no step changes the key
  pair of an existing account, carries all of it over the other tabs' steps.
  `ImplementsCustodyCorrect` is the refinement of `KeyCustody`. The step that needs
  more than the invariant above is the registration: that its key pair is no other
  account's takes `KeysApart`, a second inductive invariant by which a key pair
  belongs to one row, to one request that a tab waits for, or to one orphan. A
  request that is abandoned and served late moves the pair from one to the next
  (`RequestsKeepApart`); it is never in two places, so no retry registers it again.
  `RowCustody` shows that every handler that writes a row maps to one step, and
  `TabCustody` that a step of a tab leaves it with its account's key or with none.
  `CustodyKept` takes the promise of `KeyCustody` through the refinement: the password a
  row accepts unwraps the key of its own key pair, no two accounts have one pair, and no
  unlocked tab holds another account's key.
- **`VaultRefinementProofs`.** `ImplementsLifecycleCorrect`: `VaultRaces`'
  specification implements `DocLifecycle` under the mapping `status`, `stored`, `doomed`,
  `spared`, with every fault. The invariant is that of `VaultReadableProofs` with
  `RowKeyHeld`: the purge of one document still holds the key it has read when it
  deletes the row, so that a row that was restored in between and is deleted all the
  same was spared first. Each action maps to one step of `DocLifecycle` or to a stutter,
  one lemma per kind of step (`Stutters`, `Trashes`, `Restores`, `Dooms`, `Spares`,
  `Purges`, `Drops`, `Releases`).

  `PurgeIsCompleteCorrect`, of `VaultAlone` with any `Faults` and any names: with one
  request at a time (`OneTask`), a purge that is about to delete rows has read the keys
  of all of them, the thumbnails' in a SELECT of its own (`KeysHeld`), and what a purged
  document still has in the bucket is among the keys that the request in flight will
  delete, or was left (`LeftToDelete`, `ThumbsNamed`). Every step is one of a few effects
  on rows, keys and objects (`Effects`), and the invariant is proved of those.

  `RestoreBringsBackFoldersCorrect` and `DeleteTakesContentsCorrect`, of `VaultAlone`
  with any `Faults` (requests run to their end there; S3 and the cleanup's DELETEs
  may fail), rest on one invariant, `Carried`. The history variable `trashedWith`
  says with which folder g an item went to the trash; the invariant says that such a
  folder still *hangs below* g in the trash: a path along `trash_origin_parent_id`
  leads from it to g through folders that are in the trash themselves, or are being
  restored and have not come to their sub-folders yet (`Opening`). That is what the
  recursive CTE of `restore_folder` walks, so the CTE reaches it. The work is in the
  statements that make such a path longer or cut it: a folder that is trashed with an
  inner folder already in the trash, a restore of a folder in the middle of a path,
  a purge that takes the end of one. `TargetPlaced` keeps the place of the folder a
  request works on. Both theorems assume that no two documents have one name; without
  it the first is false (see "Known behaviours").
- **`DashboardProofs`.** `PurgedWasBinned` and `ListingIsOneFolder` are inductive
  once the answers in flight are included (`BinInv`: cached tags, answers and open
  confirmations speak only of documents that were binned; `ListingInv`: so for one
  folder). The calm properties rest on `CalmInv`: as long as the user is calm at
  most one handler is in flight (`CalmTask`), and for each of its steps it says how
  far the screen may differ from the server: a document that was just tagged, a
  listing that is about to be replaced. When it ends, `Settled` is
  left: listing and tags agree with the server.
- **`UploadsProofs`.** `BatchInv` says that batches start in order, that every
  batch but the last is aborted once another has started, and which locals a batch
  has in which phase. From it: only the last batch, or an aborted one that no
  longer reports success, writes the panel (`CompleteIsStored`); a prompt is
  replaced only by the batch that aborted its owner (`PromptInv`); `LossInv` follows
  a document that "Overwrite" deleted until its successor is stored or its entry
  failed.

Only model-checked: the liveness properties (`RequestsEnd`, `StartPurgesExpired`,
`SpinnerStops`, `PanelReleased`, `BatchesEnd`, `EntriesSettle`), which are out of the
prover's reach. Every invariant, action property and refinement that a passing run
checks is a theorem; where the theorem needs a condition that the run's constants
satisfy (documents with names of their own), the bullets above name it.

## Known behaviours without a run

Met while modelling; each follows from the lines named, and the models contain
the steps that lead to it.

- `empty_trash` and `permanent_delete_*` read the S3 keys in one statement and
  delete the rows in another, without a transaction (`trash/handlers.rs:276-303`,
  `:333-424`, `:469-512`). A document restored in between is active and has lost its
  object ("Soft-delete with restore", README.md:86), and `permanent_delete_document`
  deletes its row although it is active again (`:299`). Without `raced` in it, TLC
  finds `DocumentsReadable` violated; the refinement shows the same as `Restore` of a
  doomed document.
- A `delete_thumbnail` that overlaps an `upload_thumbnail` of the same document, or ends
  between its two steps, leaves a row that names a thumbnail which is gone
  (`documents/handlers.rs:346-368`, `:436-456`).
- `delete_folder` says it takes "all its contents recursively"
  (`folders/handlers.rs:102`). The CTE that trashes the sub-folders walks active folders
  only (`:139-146`), so it stops at one that is in the trash already: an active
  sub-folder that was restored below such a folder stays active, with its documents, and
  is in the listing of no active folder. `DeleteTakesContents` is about the folders that were taken.
- When the unique index refuses the documents of a sub-folder that is restored by
  itself (`trash/handlers.rs:176-189`), the handler returns a 500 with the sub-folder
  active and *its* sub-folders in the trash. A later restore of the outer folder walks
  trashed folders only (`:191-213`) and does not reach them: each has to be found and
  restored by itself. It takes two documents of one name, and is why
  `RestoreBringsBackFoldersCorrect` assumes that names differ.
- `download_shared_document` compares `downloads_count` with the limit after its
  SELECT (`shares/handlers.rs:207-214`) and adds one in an UPDATE that does not
  compare again (`:225-227`): visitors who download together all pass the check, and
  a link with limit 1 is used as often as they overlap ("This share link has
  reached its download limit", `:212`). `OvershootBounded` says by how much.
- The quota is summed in one statement and the document inserted in a later one
  (`documents/handlers.rs:22-50`, `:124-138`): uploads in flight together all fit;
  and a restore from the trash does not look at the quota at all.
- `permanent_delete_document` deletes the document's object and not its
  thumbnail (`trash/handlers.rs:276-306`); the other purges delete both.
- An active document inside a trashed folder (uploaded there, or restored by
  itself) moves to the root when the folder is purged; if the root has a document
  of that name, the unique index refuses the folder's DELETE after the documents'
  rows are gone, and their objects stay in the bucket (`trash/handlers.rs:502-508`).
- The cleanup's SELECT and DELETE use two values of `NOW()`; a document that
  expires in between keeps its object (`trash/handlers.rs:549-588`).
- When the cleanup's DELETE of the rows fails, the error is logged and the objects
  are deleted all the same (`trash/handlers.rs:584-600`): the trash lists documents
  that can be restored and not downloaded.
- `permanent_delete_folder` never asks that the folder it starts from be in the
  trash (`trash/handlers.rs:326-410`); the comment above it speaks of "a trashed
  folder".
- After a change of the password the tab keeps its old `user`, and the stored
  session its old `authSalt` (`dashboard/page.tsx:320-326`): a second change in the
  same login is refused as "Current password is incorrect".
- `change_password` ends no session: a locked tab of another browser still
  unlocks with the old password, and not with the new one (`context.tsx:299-323`).
- `register` stores the recovery key with the session that `localStorage` holds at
  that time (`context.tsx:261-264`); with two tabs that may be another account's,
  although `recovery/handlers.rs:25-26` says it happens "within the same
  registration session".
- A tab without a user that reaches the dashboard logs out
  (`dashboard/page.tsx:160-164`) and removes the session that another tab stored.
- `cleanup_expired_trash` says it is called "on server startup and periodically"
  (`trash/handlers.rs:538-539`); `main.rs:97` is its only caller.
- Two sessions may revoke each other, and `list_sessions` lists a session past its
  hard cap, which authenticates nobody (`auth/handlers.rs:575-640`).

Of the dashboard:

- Answers are never compared with the folder that is open
  (`dashboard/page.tsx:171-201`): after a quick change of folders the listing and the
  tags on the screen may be those of the folder that was left, until the next load.
  The preview may in the same way show the content of a document opened before
  (`:385-390`).
- "Delete All Files" is offered while another folder is loading, and at the root it
  deletes the documents of the listing on the screen (`:771`): pressed after a
  quick return from a folder, it deletes that folder's documents. In a folder it
  deletes whatever the server holds by then (`:773`), more than the number it names.
- "Delete Permanently" and "Empty Trash Bin" send the DELETE of the soft delete
  (`trash-panel.tsx:75`, `:97`), so the document is in the server's trash for the
  retention time, out of the client's sight, while the panel says "Emptying the trash
  will permanently destroy the ciphertext and key references"
  (`trash-panel.tsx:129`). Emptying ignores each failure and reports success
  (`:97-101`).
- The Recycle Bin shows the binned documents of the open folder only
  (`dashboard/page.tsx:1054`). The modals' buttons stay enabled while a deletion is
  in progress (`trash-panel.tsx:222-227`, `:258-263`).
- Two loads may both find no TRASH tag; the second creation is refused, and a page
  that never learns the id answers "Recycle bin not initialized" until it loads again
  (`dashboard/page.tsx:181-189`, `:811`).

- A folder deleted from the sidebar while a sub-folder of it is open, or confirmed
  after its own folder was opened, leaves the page in a folder that is in the trash,
  with the documents it showed before; the other way round, a deletion asked for in
  the folder and confirmed elsewhere takes the user to the root (`:689-692`: the
  folder of the click's render is compared). The toast says "This will permanently
  delete" (`folder-sidebar.tsx:256`); the server moves the folder to its trash.

Of the batch uploads:

- "Overwrite" deletes before it uploads (`:590-594`): a failure or a cancellation in
  between leaves neither document in the folder. A failure is shown (`LossIsShown`);
  a cancellation is not.
- A batch whose prompt was replaced by another batch's never ends (`:461`). It was
  aborted by that batch, so it sends nothing.
- An aborted batch ends by clearing the panel and setting the zone to "idle"
  (`:619-622`), and the timer of a finished one sets it too (`:626`), whichever batch
  they show by then: the batch at work goes on without them.
- When the public key cannot be derived, the entries stay "encrypting" (`:627-630`).
- The zone says "SEALED & VERIFIED" when the loop is through, also if every file has
  failed (`:625`).
- A file of a dropped directory is compared with the listing of the open folder only
  (`:525-526`): a name that is taken in the directory is refused by the server and
  not asked about.

## Not modelled

- *Server*: `upload_folder` (no client calls it), the quota (sizes are no part of the
  models), `delete_tag` and tags other than TRASH, `delete_account`, e-mail
  verification and the lockout counter of recovery, whose row is found by the phrase's
  hash while the verifier it counts failures of is derived from the same phrase. The
  rate limiter prunes, compares and pushes in one critical section.
- *Client*: creation and renaming of folders from the sidebar, download,
  search and tag filters, and the panels for shared links, sessions, activity and file
  details, which list, act and list again. The sandbox's own documents. `use-documents.ts`
  and `thumbnail.ts` are imported by nothing.
- *Left out*: audit and activity logs (written after the effect, errors ignored,
  never read by another component), usage meter (one read-only query), e-mail
  (one outgoing call, logged on failure), input validation and headers
  (stateless, with unit tests that reach them), cryptography itself (the Web
  Crypto API), the word list, landing pages and presentation, which are most of the
  client's lines.

## Plan

1. *(done)* `DocLifecycle`, `Vault`, `VaultAlone`; type, place, forest and
   readability theorems.
2. *(done)* `Shares` over `DocLifecycle`; `Sessions`; their theorems.
3. *(done)* `Account` and its theorems.
4. *(done)* `Dashboard`, `Uploads` and their theorems; theorem
   `Spec => ImplementsLifecycle` for `Vault`.
5. *(done)* `ThumbnailsReadable` and `PurgeIsComplete` as theorems; the deletion of
   folders in `Dashboard`.
6. *(done)* The folder round trip (`RestoreBringsBackFolders`,
   `DeleteTakesContents`) and the refinement of `KeyCustody` as theorems.
7. *(done)* Purges, restores and thumbnail requests that overlap: `VaultRaces`, its
   theorems, and the refinement of `DocLifecycle` without conditions.
8. Sizes in `Vault` for the quota: what uploads in flight together may exceed it by,
   when nothing is restored; `delete_account`; what the panels for shared links and
   sessions show after each operation.
