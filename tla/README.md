# Verification of obsidian-cloud-sync

TLA+ models of the sync server, the TLC configurations that check them, and
TLAPS proofs. Paths below are relative to the repository; `files/handlers.rs`
stands for `src/files/handlers.rs` and so on.

## 1. The system

A single process (axum on tokio) serves HTTP and WebSocket requests for many
users and devices. Its state is one SQLite database, a directory of blobs named
by the hash of their content, and a broadcast channel per user. Every request
is a task of its own; four background tasks run beside them. SQLite executes
one statement (or transaction) at a time, so requests interleave *between*
statements; a request also ends between two statements when the client goes
away, a statement fails or the process is killed.

| Component | Source | State | Operations | Hard behaviour |
|---|---|---|---|---|
| File metadata, version history | `sync/handlers.rs`, `files/handlers.rs` | `files`, `file_versions` | upload ×3, download, rollback, delete, restore, restore_all, delete_permanent, wipe_archive, fix_hash, history | read-then-write without a transaction, stops between statements |
| Blob storage | `files/storage.rs` | `data/blobs` | store, read | existence check, truncating write, writes that outlive their request |
| Background jobs | `background.rs` | none of their own | prune_versions, garbage_collect_blobs, token and cursor clean-up | decide from lists read at the start of a pass |
| Delta engine | `sync/engine.rs` | writes `files.is_deleted` | compute_delta | two clocks, lists of deletions, stale instructions |
| Sync protocol | `sync/handlers.rs`, plugin (not in the repository) | `sync_cursors` | delta, transfers, complete | several devices, lost answers, late uploads |
| Quota and validation | `sync/handlers.rs` | none | check_storage_quota, validate_* | check before act |
| Sessions | `auth/*` | `users`, `refresh_tokens` | register, login, refresh, logout, change_password, salt, vault key | token rotation, counters, first-user rule |
| Devices | `devices/handlers.rs` | `devices` | list, revoke, revoke_all | revocation against refresh |
| Administration | `admin/handlers.rs` | `server_settings`, `users` | users, settings, audit list | last-admin rule |
| Vaults | `vaults/mod.rs`, `db.rs` | `vaults` | list, create, resolve_vault_id | namespace against `UNIQUE(user_id, path)` |
| Notifications | `ws.rs`, `auth/mod.rs` | channel per user | notify_sync_update, ws_upgrade | lag, subscription after the event |
| Start-up and migrations | `db.rs`, `migrations/` | schema, `_migrations` | run_migrations, run_vault_migration, seeding | crash between statements |
| Audit log | `audit.rs` | `audit_log` | log_event | errors ignored |
| Configuration, routing, web panel | `config.rs`, `main.rs`, `web/` | none | | |

Uploads call `BlobStorage::store` and then `upsert_file_record`; a rollback
inserts a row for a blob it read from another row; the pruning job deletes rows;
the collector compares the disk with the rows. So the database and the disk
change at different times, and nothing but the order of the statements keeps
them together. The correctness of the components comes down to:

* history: version numbers only grow, the current version always has a row
  with the hash that sync compares, and the pruning job trims old versions only;
* archive: permanent deletion is final and only for archived files;
* disk: the blob of every version is there and whole, orphans go;
* sync: devices that keep syncing converge, a deletion is not inferred;
* sessions: one refresh token gives one successor, a revoked device stays out;
* notifications: a device is told of other devices' changes, never of its own;
* migrations: a start after a crash ends with the same schema.

## 2. Modules

| Module | Content |
|---|---|
| `VersionStore` | the tables `files` and `file_versions`, every handler that writes them, the pruning job |
| `VersionStoreInv` | the inductive invariant of `VersionStore` |
| `VersionHistory` | `VersionStore` watched: every version there ever was |
| `PrunePasses` | `VersionHistory` watched in its turn: one pass of the pruning job |
| `FileStore` | `VersionStore` composed with the disk, `store` and the collector |
| `CollectorPasses` | `FileStore` watched: one pass of the collector |
| `Sync` | delta engine, transfers, cursors, several devices, the web panel |
| `SyncRounds` | `Sync` watched: one round of a device |
| `Sessions` | accounts, devices, refresh tokens |
| `SessionsInv` | the inductive invariant of `Sessions` |
| `SessionLife` | what a session is to its user: the abstract specification of `Sessions` |
| `Migrations` | the start of the process, statement by statement |
| `Notify` | broadcast channel, handlers that announce, WebSocket tasks |
| `Server` | `Migrations` and `Notify` composed: a process that starts, serves and is killed |
| `ServerInv` | the inductive invariant of `Server` |
| `MC...` | small instances |
| `..._proofs` | theorems and proofs |

`FileStore` EXTENDS `VersionStore`: the steps of the tables are taken over as
they are (`OtherStep`), the step `StoreBlob` is refined into the steps of
`storage.store`, and `Abort` into the ways a request ends during a write. Each step of
`FileStore` is one of `VersionStore` for the tables, or leaves them alone, by the way
it is written; the lemma `FileStoreRunsTables` carries the theorems about the tables
over, and no property claims more for it. `Sync` looks at the same tables from the other side: it keeps
of `files` what the engine compares and of `file_versions` the contents, and
writes a row in one step, which `VersionStore` justifies (uploads are
transactions; the two statements of a rollback or restore and their races are
there). `Server` runs `Migrations` until the process listens and `Notify` from
then on; a kill ends both and keeps only the database and what the devices have
read.

The modules that watch another one add a history variable and nothing else: they
take over each step of the module and say how the variable follows it (`issued`, the
rows there have been; `listed`, the files in the list of the running pass that have
gained no version since; `orphans`, the blobs nobody has named since the collector
began; `steady`, for each device the paths nobody disturbed since its round began).
With them, what a *complete* pass or round has achieved is a safety property, which
can be proved for all instances, and whose liveness counterpart says only that passes
and rounds come to their end: `PassTrims` stands behind `HistoryTrimmed`,
`PassCollects` behind `OrphanCollected`, `RoundsAgree` behind `EventuallyAgree`,
`FailsOnlyStuck` behind `EventuallyListens`.

### VersionStore and the code

`files` has a record for each identifier a UUID may yield: `unused` before it is
drawn, `active`, `archived` (`is_deleted`), `purged` after the row is gone. `rows`
is `file_versions`. `req[r]` holds what a request has read and its program counter.

| Action | Code |
|---|---|
| `UploadStart`, `StoreBlob` | `upload`, `upload_multipart`, one file of `upload_batch`, up to `upsert_file_record` |
| `UpsertNew`, `UpsertSame`, `UpsertChanged`, `UpsertRejected` | the transaction of `upsert_file_record`: no row; same hash; new hash; `UNIQUE(file_id, version)` violated |
| `RollbackStart`, `RollbackTarget`, `RollbackUpdate`, `RollbackInsert` | the four statements of `rollback` |
| `Archive` | `delete_file`; also the UPDATE `compute_delta` does for each of `deleted_paths` |
| `RestoreStart`, `RestoreUpdate`, `RestoreAll` | `restore`, `restore_all` |
| `DeletePermanentStart`, `WipeStart`, `PurgeVersions`, `PurgeFile` | `delete_permanent`, `wipe_archive` |
| `FixHash` | `fix_hash` |
| `Abort` | a handler that stops where it is |
| `PruneStart`, `PruneScan`, `PruneDelete`, `PruneEnd`, `PruneAbort` | `prune_versions` |
| `Tick` | more than the retention period passes |

A transaction of `upsert_file_record` that meets another writer either waits or
fails with `SQLITE_BUSY`; the first is an order of steps, the second is `Abort`.
`download` changes nothing; `CurrentRows` is the join it reads from.

Ghost variables, which no guard reads: `regressed` (files for which a rollback's
UPDATE overwrote a number that had changed since it was read), `headless` (files
a handler left without a current row when it stopped), `fixed` (files whose
hash `fix_hash` set). They state precisely in which cases the code does *not*
keep its promise, so that the properties can claim it in all the others.

### FileStore and the code

`disk[b]` is `absent`, `partial` or `full`; `writer[b]` is who truncated the file
last and is still writing; `io[r]` is the place in `store`: before `path.exists()`,
before `fs::write` opens the file, during the write. tokio hands open, truncation and
write to a thread of its blocking pool in one piece, and dropping the request cancels
none of it: a write under way goes on (`StoreDetached`, `Detached`), and one that still
waits for a thread (`StoreAbandoned`, `queued[b]`) creates or truncates the file when
its turn comes (`QueuedOpens`), unless the server is killed first or the file cannot be
opened (`QueuedLost`). `gc` is
`garbage_collect_blobs`: `known`, the references it read when the pass began, and
`todo`, the names not among them whose place the walk of the directory has yet to
reach. When two writers overlap, only
the one that truncated last is taken to leave the file whole; the bytes both
write are the same, so this is pessimistic, and the properties hold under it.
Ghosts: `exposed` (blobs in use that a running collector will come to or has
removed), `interrupted` (blobs whose last write failed).

### Sync and the code

| Action | Code |
|---|---|
| `SyncStart`, `DeltaDelete`, `DeltaLoad` | the request of the device; `compute_delta`: clock, one UPDATE for each of `deleted_paths`, one SELECT and steps 2 to 4 (`Instruct`, `ActionFor`, `MissingHere`) |
| `UploadSend`, `UploadCommit`, `UploadDies` | `upload`, `upload_multipart`, a file of `upload_batch`: the request leaves; its transaction commits with a time read since; it ends without having stored anything |
| `Download`, `DownloadFails`, `DeleteLocal` | `download` by `file_id`; 404; the device deletes its file |
| `CompleteSend`, `CompleteRead`, `CompleteStore`, `CompleteDies` | `complete`: the request leaves; SELECT of the largest `updated_at`; upsert of the cursor and answer; the request ends without having stored anything |
| `SessionLost` | connection, answer or plugin lost; what the server works on goes on |
| `Edit`, `Remove` | the user on a device |
| `PanelDelete`, `PanelRestore`, `PanelRollback`, `PanelRestoreAll`, `PanelPurge` | `delete_file`, `restore`, `rollback`, `restore_all`, `delete_permanent` and `wipe_archive` |
| `Tick` | the server's clock goes on by one second |

`row[p]` has status, hash and `updated_at`; `sess[d]` is the session of a device
(`manifest` while the delta is computed, `plan` while it is followed); `uploads`
are the requests in the server, `held` while somebody waits for the answer. A
request may read the clock any time before its transaction (`upload_batch` reads
it once for the whole batch), so rows can be dated out of order. `completes` are the
complete requests in the server, of which a device may have several when its sessions
broke off; `nr` keeps them apart. Ghosts: `dirty` (files changed on a device since the
server dated them), `ahead` (files the server stored under an earlier date than the
device, whose clock was ahead, goes on giving them), `high` (the highest date a path has
had; `Backdated` compares it with the row), and `late` of a complete (it read its date
while a path was backdated, or was overtaken by another before its upsert).

The plugin is assumed to do what the endpoints ask for: it sends its files with
their times and the paths it has deleted, keeps those until a delta is answered,
follows instructions in any order, and gives a received file the
`server_modified_at` of the instruction. The clocks of devices may be ahead of the
server's or behind it, by a constant each (`Skew`); the server's clock does not go back.
`SyncStart` is one step for two reads, of its files by the device and of the clock by
`compute_delta`: an edit or a second between the two is not modelled (the edit is taken
to be before the read or after the clock is read), which moves the date of a deletion by
that much. Two uploads that are equal in every field and in flight at once are one. One path in the instance is enough because
the engine treats paths independently; the proofs have any number.

### Sessions and the code

| Action | Code |
|---|---|
| `RegisterCount`, `RegisterUser` | `register`: count, setting and name; INSERT |
| `LoginRead`, `VerifyFails`, `VerifyOk`, `LockExpires` | `login`: the account; wrong password: counter and lock; right one: reset |
| `NewDevice`, `NewToken` | the INSERTs that end register and login, and refresh |
| `RefreshMatch`, `RefreshDelete` | `refresh`: token, device and user found; the old token deleted |
| `TokenEnds` | `logout`, and `cleanup_expired_tokens` |
| `ChangeRead`, `ChangeUpdate`, `ChangeDelete` | `change_password` |
| `RevokeStart`, `RevokeCommit` | `revoke_device`, `revoke_all_devices` |
| `AdminRequest`, `CreateUser`, `SetRegistration`, `DeleteUserRead`, `DeleteUserCount`, `DeleteUserExec` | `require_admin`; `create_user`, `update_settings`, `delete_user` |
| `Abort` | a handler that stops where it is |

An access token names its device and lives for minutes, and `require_auth` looks the
device up as well; the model lets a device make authenticated requests only while it
is in the table, and at any time then. Several reads in a row are one step.
Ghosts name the overlaps under which a promise is not kept: `forked` (a refresh
that found its token gone), `late` (a token given by a request that a change of
password overtook), `raced` (two deletions of admins), `rushed` (two first
registrations), `overlap` (logins of one account). A property claims its promise
in all other cases, which is the strongest true statement, and `failed` and
`founders` record what the tables do not.

`SessionLife` knows of each device whether its session is new, open or closed. The
mapping (`Phase`) takes a session to be open while a token lives or a request under
way will still insert one.

### Migrations, Notify, Server and the code

`Program` is what `init_pool` executes, statement by statement: for each migration
the check of `_migrations`, its statements, the record; the added columns; the
vault step; the seeds (`S(what, of)` is one of them). An action per kind of statement (`Create`, `Alter`,
`AddColumn`, `Recover`, `Check`, `Record`; a `Create` fails where the index is on a column
that could not be added, `LacksColumn`), `Boot` by the supervisor
(`docker-compose.yml:29`, `restart: unless-stopped`) and `Kill`. The database is
the set of the objects it has. It starts empty, as a former release left it, or
as the release left it whose vault migration stopped with `files` dropped.

`channel` is the sequence of messages sent, of which the last `Capacity` (64 in
`auth/mod.rs`) can still be received; `client[d]` is the connection of a device
and what its last sync has read. `Commit` then `Announce` are the two halves of
upload and delete; `ChangeSilently` the handlers that do not announce;
`Connect`, `Receive`, `Lag`, `Disconnect` the WebSocket task; `Synchronise` a sync.
`unsaid` collects changes for which no message will come.

### Abstractions

In `VersionStore`, `FileStore`, `Sync`: one user and one vault (the rows of users never meet
in these handlers). Names, hashes and blobs are model values; a payload pairs a hash
with a blob, since with encryption the two differ. Sizes and audit rows
are left out; `created` counts retention periods. A rejected input changes
nothing and is no step. The settings and the list of files are read by the
pruning job in one step, and a row is deleted as a record rather than by its
UUID. `Tick` of `VersionStore` waits until no request is in flight: no request lasts
longer than a retention period, which is at least a day. Crashes keep what was written:
loss of unsynced pages at a power failure is not modelled. `max_versions_per_file`
is at least 1: `validate_setting` accepts nothing less and `db.rs` seeds the
setting, so the value of the environment is never used.

## 3. Runs

Every bound is a constant of a `.cfg`.

| Run | Instance | Checks |
|---|---|---|
| `version_store` | 2 requests, 1 file, 3 versions, 1 tick, both kinds of limits | `IndInv`, `CurrentIsNewest`, `CurrentRowPresent`, `HashMatchesCurrent`, `RollbackWillInsert`, `PruneKeepsCurrent` |
| `archive` | 2 requests, 2 identifiers for 1 path, 2 versions | `OneFilePerPath`, `PurgedStaysPurged` |
| `pruning` | 2 requests, 1 file, 3 versions, 1 tick, 2 versions kept and an age limit, both histories watched | `NumbersBehind`, `NumbersFinal`, `PassSettles`, `PassTrims` |
| `collector` | 2 requests, 1 file, 2 versions, 1 blob of 2 hashes, 1 queued write, fairness | `CollectInv` (with `FSTypeOK`), `PassCollects`, `HistoryTrimmed`, `OrphanCollected` |
| `writers` | 2 requests, 1 file, 1 version, 2 blobs, 1 queued write of each | `ReferencedBlobPresent`, `ReferencedBlobIntact` |
| `sync` | 2 devices (one clock a second ahead, one a second behind), 1 path, 2 contents, 2 edits, 1 broken session, 1 panel operation, 2 seconds, fairness | `RoundInv` (with `SyncInv`), `RoundsAgree`, `UneditedNeverUploads`, `CursorRetreats`, `EventuallyAgree` |
| `sessions` | 1 account, 3 devices, 3 tokens, 2 requests, 1 change of password | `SessionsInv`, `TokenNeedsDevice`, `OneToken`, `OldSessionsEnd`, `ImplementsLife` |
| `accounts` | 2 accounts, 2 devices, 1 token, 2 requests, lock at 2 failures | `AdminRemains`, `OneFounder`, `CounterExact` |
| `server` | 2 devices, 2 handlers, ring of 2, 3 changes, 1 kill, 3 kinds of database, 2 columns that may fail, fairness | `ServerInv` (with `StartTypeOK`, `NotifyTypeOK`), `ListensOnlyWhenComplete`, `StuckOnlyByCrash`, `NothingUnheard`, `FailsOnlyStuck`, `EventuallyListens` |
| `rollback_newest` | as `version_store` | `RollbackCreatesNewest`, violated |
| `purge_archived` | 2 requests, 1 file | `PurgeOnlyArchived`, violated |
| `collector_race` | 1 request, 1 file | `GcRemovesOnlyUnreferenced`, violated |

Two payloads tell same from changed content, and two requests set any
handler against any other. Three versions let a rollback be overtaken by an upload and another upload
collide with the row it left; in `version_store` a limit of one version makes the pruning job delete
as soon as there are two. One tick separates rows older than the cutoff from
younger ones. In `pruning` two versions are kept, so that each of the
two limits decides where the other does not: the third version goes by its number, and one
of the two that are left by its age. The theorems (`PassesSettle`, `PassesTrim`) are for any
limits. In `collector`, two requests
and a queued write of the one blob, beside the collector, let it be named, written,
abandoned and named again; `fix_hash` may set the other hash, after which an upload of the
one payload is a changed file and makes a second version, as a rollback does.
`writers` has two blobs, so that a file may be written under either.
A limit of one version is exceeded by two, so two suffice there for `HistoryTrimmed`.

In `sync`, two edits let both devices change the file, or one change and remove it
while the other holds an old copy; with a session that breaks off, an upload outlives
it and commits after a later one; with one panel operation, a file disappears,
comes back or is dated again in between; and a complete whose session broke off is
overtaken by the next. Two dates of the server, and a second ahead or behind on the devices,
allow equal, older and newer dates, among them a date the server's clock never reaches.
In `sessions` a change of password needs the device that makes it and another
one to be signed out; the third logs in meanwhile. Three tokens let a device refresh
while another has a token. In `accounts` the threshold is reached and passed, both
accounts may be admins and delete each other, and one may register after the other
was deleted. In `server` three changes overtake a ring of two, one of the columns that may fail has an
index on it and the other has not, and a kill at any
statement is followed by a complete start.

Deadlock is not checked: the bounds end every behaviour, and a server
without requests is at rest. Requests, files, tokens, devices and accounts are
interchangeable where they are symmetric in the code, and so are the two contents, each
with its blob; symmetry is off where liveness is checked.

### What the violations show

* `rollback_newest`: `rollback` (`files/handlers.rs:172`) sets
  `current_version` to the number it read plus one. If two uploads made versions
  2 and 3 since it read 1, it makes 2 current again below a version 3 that stays
  in the history; its INSERT fails, and so does the next upload, which computes 3.
  `SETUP_GUIDE.md:719` promises a new version on a preserved history.
* `purge_archived`: between the check of `is_deleted` and the DELETEs
  (`files/handlers.rs:383-394`) the file is restored or uploaded again.
* `collector_race`: the collector removes a blob whose row was inserted after it
  read the references (`background.rs:204` and `:239`).

### What the passing runs say about the limits of the code

* `CurrentRowPresent`, `CurrentIsNewest`, `HashMatchesCurrent`: except for files that
  a stopped rollback, restore or permanent deletion, an overtaken rollback, or
  `fix_hash` has touched (`headless`, `regressed`, `fixed`).
* `UneditedNeverUploads`: a device that has not changed a file since the server dated it
  never overwrites a newer state, except on a path dated out of order or purged, and except
  where its clock was ahead (`ahead`): it goes on giving the file a date that the server's
  rows do not reach, so the copy it uploaded and never changed again wins against what
  another device has uploaded since, and brings back what was deleted since, where
  `sync/engine.rs:86-87` speaks of a client "modified AFTER server deletion" and "not
  modified since deletion". Two devices that edit in the same second, or with slow clocks,
  are decided by the order of dates; all that is promised then is that everybody ends
  with the same content.
* `EventuallyAgree` is checked with one device ahead. Two devices that are both ahead, with
  two contents of one file, each find their own copy newer and overwrite each other, until
  the server's clock has passed both dates.
* `CursorRetreats`: a cursor goes back after a complete that read its date while a path was
  backdated or after one was purged, and after one that another complete of the device has
  overtaken between its two statements.
* `NumbersFinal`, `PassTrims`: on a file whose number a stale rollback has set back
  (`regressed`) a number may come to stand for a second content, and a pass leaves one
  version more than the limit, the current one. `PassTrims` says nothing of a file
  that gains a version after the job has read its list: the next pass has it.
* `PassCollects`, `OrphanCollected`: a write under way whose file the collector has
  unlinked finishes on an unlinked file and brings nothing back. One that waits in the
  queue when the collector passes does: such a blob is not counted among `orphans`, and goes
  in a later pass.
* `RoundsAgree`: a path is *disturbed* when its file changes on the device otherwise
  than by an instruction, or its row changes once the device has its instructions,
  otherwise than by an upload it gets the answer of. Changes of the row while the
  server still computes the instructions do not count.
* `OneToken`: two refreshes with one token both succeed if the second matches the
  token before the first deletes it (`auth/handlers.rs:377`).
* `OldSessionsEnd`: a login or refresh under way survives a change of password; a
  change that stops between its two writes leaves all sessions.
* `AdminRemains`, `OneFounder`: two admins can delete each other, and who registers on the
  emptied server is a second founder; two first registrations both become admin.
* `CounterExact`: wrong guesses made at the same time count once.
* `StuckOnlyByCrash`, `FailsOnlyStuck`, `EventuallyListens`: a process killed between the ALTER of
  migration 003 and its record never starts again ("duplicate column name"). A start whose
  `ALTER TABLE files ADD COLUMN vault_id` fails logs it and then fails at the index on that
  column (`db.rs:183-187`), as does every start until it can be added: `EventuallyListens`
  has that as its premise. The
  vault step that finds `files_new` renames it, and the indexes that went with the old
  table stay lost if migration 002 is recorded (`lost`).
* `NothingUnheard`: a lagging device is not told that it lagged, but loses nothing
  unless the ring it resumes from holds its own changes only.

### Fairness

`PruneFairness` and `FSFairness` are weak fairness of the start of a pass and of
each of its steps: the tasks are started by `spawn_background_tasks`, sleep and
loop for ever, and a pass is a plain sequence of awaits. A write in the blocking
pool gets its turn and ends. No fairness is assumed of requests, of settings, or against failing
passes: the liveness properties state as a premise that passes are, from
some point on, no longer cut short (`PruneAbort`, `GcAbort`), since a pass that
fails for ever does its work never.

In `Sync`, a device syncs again and again (the interval of the plugin) and goes on
with what it has begun, or a request of its own in the server goes on: one condition for
each device (`DeviceStep(d) \/ RequestOf(d)`), which is weaker than to ask it of every request.
It is enough because a session that waits for an answer has no step of its own, so that the
request must go on, and because an upload that nobody waits for, and that never commits,
harms nobody. Edits, panel operations and broken sessions are not fair, and the bounds end them:
`EventuallyAgree` is about what follows.

In `Server`, the supervisor starts a process that has ended and a start goes on
statement by statement; `MaxCrashes` ends the kills, and the premise of
`EventuallyListens` is that `files.vault_id` can be added from some point on. Nothing is assumed of requests
and clients. `NothingUnheard` is a safety property.

## 4. Proofs

`tlapm` proves, for all values of the constants under the named assumptions on
them (`PayloadAssumption`, `LimitsAssumption`, `BoundsAssumption`,
`WritersAssumption`, which says that two markers are no requests, and `QueuedAssumption`
for the disk;
`SkewAssumption`, which is no more than a type, `NoneAssumption`, `SyncBoundsAssumption` for `Sync`;
`SessionsAssumption`, `UserFinite`, `SessionsNoneAssumption` for `Sessions`;
`MigrationsAssumption`, `NotifyAssumption`, `NotifyNoneAssumption` for `Server`):

| Theorem | Statement |
|---|---|
| `Invariant` | `Spec => []IndInv` |
| `TypeCorrect`, `CurrentNewest`, `CurrentDownloadable`, `HashCorrect`, `ClaimHolds` | `TypeOK`, `CurrentIsNewest`, `CurrentRowPresent`, `HashMatchesCurrent`, `RollbackWillInsert` |
| `HistoryInvariant`, `NumbersStayBehind`, `NumbersAreFinal` | `HistoryInv`, `NumbersBehind`, `NumbersFinal` |
| `PassInvariant`, `PassesSettle`, `PassesTrim` | `PassInv`, `PassSettles`, `PassTrims` |
| `PathsUnique` | `OneFilePerPath` |
| `PruneSafe`, `PurgeFinal` | the action properties `PruneKeepsCurrent`, `PurgedStaysPurged` |
| `DiskTypeCorrect`, `VersionsReadable`, `VersionsIntact` | `FSTypeOK`, `ReferencedBlobPresent`, `ReferencedBlobIntact` |
| `CollectInvariant`, `PassesCollect` | `CollectInv`, `PassCollects` |
| `SyncInvariant` | `SyncInv`, for any number of devices and paths and any clocks |
| `RoundInvariant`, `OneRoundIsEnough` | `RoundInv`, `RoundsAgree` |
| `Unedited`, `Retreats` | the action properties `UneditedNeverUploads`, `CursorRetreats` |
| `SessionsInvariant` | `SessionsInv`, for any number of accounts, devices and requests |
| `SessionsTypeCorrect`, `TokensOwned`, `Rotation`, `OldSessionsEnded` | `SessionsTypeOK`, `TokenNeedsDevice`, `OneToken`, `OldSessionsEnd` |
| `AdminsRemain`, `FounderUnique`, `CountersExact` | `AdminRemains`, `OneFounder`, `CounterExact` |
| `SessionsEnd` | `ImplementsLife`: `Sessions` implements `SessionLife` |
| `ServerInvariant` | `ServerInv` |
| `StartTypeCorrect`, `ListensComplete`, `StuckByCrash` | `StartTypeOK`, `ListensOnlyWhenComplete`, `StuckOnlyByCrash` |
| `StartsFinish` | the action property `FailsOnlyStuck` |
| `NotifyTypeCorrect`, `Unheard` | `NotifyTypeOK`, `NothingUnheard` |

The lemmas `FileStoreRunsTables`, `HistoriesAreRuns`, `PassesAreRuns`, `CollectionsAreRuns` and
`RoundsAreSyncs` say that a specification that composes or watches another implies it. They
follow from how the modules are written and claim nothing of the code; they let the theorems
of the one be used for the other.

None of the table invariants is inductive. `CurrentRowPresent` needs to know that
the rows the pruning job has doomed are older than the current version
(`PruneDoomedInv`), although the job compared them with a list that may be old.
That follows from `PruneListInv`: a row newer than the listed number was inserted
after the cutoff was chosen, so it is not too old; being the newest it is within
the count. The claim of a rollback (`RollbackWillInsert`) needs that the number
it read is never above the current one (`RollbackReadInv`), that nobody else has
claimed it (`RollbackClaimsDiffer`) and that no row is newer than the current
version (`CurrentIsNewest`), which itself needs `RollbackReadInv`. `IndInv` is the
conjunction; run `version_store` checks it, and `pruning` the parts that `HistoryInv` and
`PassInv` add to it, before they are proved. The proof has a
lemma per family of actions with a step per action and a step per group of
conjuncts. For the disk, `BlobInv` says that what is in use is on disk unless
exposed, and that everything unknown to a running collector is exposed; the
crucial lemma is `UseOnlyGrowsOnDisk`: a name comes into use by looking at the
disk, by writing, or through a row. `OneFilePerPath` has an induction of its own
over `PathsDiffer`, which says the same without cardinalities: only `UpsertNew`
creates a file, after a lookup in its transaction, and no step renames one.

`NumbersFinal` compares versions that no longer exist with those that do, so
`KeysUnique` is not enough. `HistoryInv` adds that no number ever in use was above the
current one, and that a rollback which has claimed a number has claimed one that was
never used (`NumbersBehind`); both survive pruning because they speak of `issued`.
An upload then takes a number nobody has had since it is one above all of them, a
rollback takes the one it claimed, and two rollbacks have claimed different ones.

`PassTrims` is about a list that is old when it is used. `PassSettles` has two parts: `PassTodo` says that, until the
job comes to a listed file, the number in the list is that of its newest version, because
rows of the file have only gone since; `PassDone` that after the scan what is not doomed is
within the limits. The scan itself is a counting argument (`ScanTrims`): different
rows of a file have different ranks (`FileRows`), so at most `keep` rows rank below
`keep` (`FewRanked`), and the current row is one of them unless the file is regressed.
The rows of a file are finitely many because their numbers are bounded, although
nothing bounds the files. `PassCollects` needs for each orphan behind the collector
that its file is absent and that no writer owns it (`CollectInv`): writers that have lost
their file do not touch the disk, and the ones that could open it have requests that
name it or wait in the queue, and an orphan has neither (`ClearedStays`).

For `Sync` the argument is about dates. `UneditedNeverUploads` needs that what the
server has dated, in a row, in an instruction that is still to be followed, or on a
device since, is not newer than the highest date of its path, but for the files that go by
a date of the device's own (`DatedByServer`, `OwnDated`). An upload that is answered moves
its file out of `dirty`; the file keeps the device's date, so either that is not after the
one the row was given, or the device was ahead and the file moves to `ahead`. It leaves
`ahead` when the device receives it, with the server's date, or an answered upload dates it
no earlier. The claim is also kept because an answer reaches only the instruction that was
sent (`SessionsFit`, which also says that no list outlives its delta: a file that stops being
dirty while a list of it is under way would break the claim). `CursorRetreats` needs `CursorReached`: a date a complete
has read is behind the cursor only if it is `late`. Whoever stores the cursor in between
makes it so (`Overtake`); and a date read while no path was backdated is the highest one
reached. The proof splits the state: tables (`TablesNext`), sessions and requests (`SessionsNext`), files
(`FilesNext`), dates (`DatedNext`), cursors (`CursorNext`), and each of them by action.

`RoundsAgree` needs what a device has yet to do for an undisturbed path at each point of
its round (`Settling`): while the delta is computed, the list it sent is what it
holds; afterwards the instruction for the path is what is missing (`OnTheWay`): none
only where they agree, a download only of a live row, a deletion only where there is
none, an upload of what the device has, which is then either under way or answered.
`DeltaLoad` establishes this from `ActionFor` and `MissingHere`, case by case; the other
steps keep it, and `CompleteSend` finds no instruction left.

For `Sessions` the base is `SessionsFit` (`SessionsFitting`): types, and the foreign
keys together with what the requests have read. On it rest three facts about every
step: rows that are gone do not come back (`Grow`), one request moves at a time
(`OneMoves`), and a request that arrives at a point came from the point before
(`CameBy`). The properties themselves are not inductive, because a handler acts on
what it read earlier. `TokensDiffer` adds to `OneToken` the requests that still have a
token to insert. `CountsOfUsers` and `CountsOfAdmins` say what a count still
guarantees when it is used: that of another admin holds unless a second deletion
is under way, and then `raced` says so. `CountersRead` says that a login that is alone
has read the counter as it is. `SessionsEntitled` says of everybody who has, or will
get, a token, that the device knows the present password, is `late`, or that a
change is under way that will delete it. For the refinement, `NewDevice` is the only
step that opens a session (`OpensOne`) and every other one only closes some
(`OnlyClose`).

For `Server` there are two inductions. `StartInv` says that a process has done what is
behind it in `Program` (`DoneBefore`), that a recorded migration is complete
(`RecordedDone`), which is what lets a later start pass over it, and that it is not
run again (`NotRepeated`), without which a new `files` would appear beside
`files_new`. `StuckAtRecord` places the only moment at which a kill leaves a server
that never starts. `ProgramTable` evaluates the program once; everything else
uses its shape (`StatementKinds`, `StatementsFollow`, `ProgramShape`).
`FailsOnlyStuck` follows: an ALTER that finds its column belongs to 003, which is then
not recorded, and the recovery of `files` finds the table or `files_new`, since the
start has created one of them or a recorded migration did (`FilesRecoverable`). A CREATE
fails only at the index, behind the statement that adds its column, so that the column is
there or was warned about (`ColumnRefused`); and a database that has the index has the
column (`IndexHasColumn`), which is why a process that listens has it too.
`NotifyInv` says of a device that has synced since it connected, and has not been told
since, that every change is accounted for, or a message of another device is still
to come, or the ring holds its own changes only (`Heard`). A lag moves a device from
the first to one of the others, and `AnnouncedOnce` bounds the messages by the changes.

Only model-checked: the liveness properties `HistoryTrimmed`, `OrphanCollected`,
`EventuallyAgree`, `EventuallyListens`: fairness and ENABLED are out of the prover's
reach. What they add to the theorems above is that passes, rounds and starts
come to their end.

## 5. Not modelled

* Quota (`check_storage_quota`): it compares a sum of sizes before the upload and
  promises no bound. The models have no sizes.
* Validation: a rejected request changes nothing.
* Vaults beyond the default one: the rows of `vaults` never change, and the handlers
  for files of another vault differ in the value of one column. What does differ,
  `UNIQUE(user_id, path)` without the vault, is listed as a hazard.
* `set_encryption_salt`, `set_vault_key`: single UPDATEs of columns that no handler
  decides by; what two devices with different salts do is up to the plugin.
* Audit log (written, errors ignored, read by nobody but the list), configuration,
  routing, rate limiting, the web panel's presentation, TLS, hashing and signatures.
* The plugin, which is not in the repository and enters only as its requests.

## 6. What is left

Quota with sizes, and a second vault.
