---------------------------- MODULE VersionStore ----------------------------
(***************************************************************************)
(* The metadata of one user's vault: the tables files and file_versions,   *)
(* every request handler that writes them, and the pruning job that trims   *)
(* the history in the background.                                           *)
(*                                                                          *)
(* SQLite executes one statement at a time, so a statement (or a            *)
(* transaction) is one step and everything a handler does between two       *)
(* statements may interleave with other handlers.  A handler can also stop  *)
(* between two statements: its future is dropped when the client            *)
(* disconnects, a statement fails, or the server is killed.                 *)
(*                                                                          *)
(* A definition under the comment "Slip" is a plausible mistake in the      *)
(* definition that follows it; no specification uses it.                    *)
(***************************************************************************)
EXTENDS Integers, FiniteSets

CONSTANTS
  Requests,    \* requests in flight at the same time
  FileId,      \* the identifiers that uuid draws will yield; never drawn twice
  Path,        \* vault-relative paths
  Hash,        \* content hashes, as the clients compute them
  Blob,        \* names of blobs on disk
  Payload,     \* what an upload may carry: records [hash, blob]
  Limits,      \* the pruning settings an admin may choose
  MaxVersion,  \* bound: no version number above this one is created
  MaxEpoch     \* bound: the clock stops here

None == "none"

ASSUME PayloadAssumption == Payload \subseteq [hash : Hash, blob : Blob]

\* validate_setting accepts 1..1000 for max_versions_per_file.
ASSUME LimitsAssumption ==
  Limits \subseteq [keep : Nat \ {0}, expire : BOOLEAN, keepArchive : BOOLEAN]

ASSUME BoundsAssumption == MaxVersion \in Nat \ {0} /\ MaxEpoch \in Nat

VARIABLES
  files,      \* table files: a record for every identifier
  rows,       \* table file_versions
  req,        \* what each request in flight has read and where it is
  prune,      \* the pruning job: where it is and what it has read
  epoch,      \* the clock; one tick is longer than the retention period
  regressed,  \* ghost: files whose number a rollback set from a stale read
  headless,   \* ghost: files left without a current row by a stopped handler
  fixed       \* ghost: files whose hash fix_hash has replaced

dbvars == <<files, rows>>
ghosts == <<regressed, headless, fixed>>
vars == <<files, rows, req, prune, epoch, regressed, headless, fixed>>

-----------------------------------------------------------------------------
(* The two tables.                                                          *)

Status == {"unused", "active", "archived", "purged"}

FileRecord == [status : Status, path : Path \cup {None}, cur : 0..MaxVersion,
               hash : Hash \cup {None}]

Row == [file : FileId, version : 1..MaxVersion, hash : Hash, blob : Blob,
        created : 0..MaxEpoch]

\* files holds a row for f.
Existing(f) == files[f].status \in {"active", "archived"}

RowsOf(f) == {x \in rows : x.file = f}

\* UNIQUE(file_id, version)
KeyFree(f, v) == \A x \in rows : ~(x.file = f /\ x.version = v)

\* The rows a download of f without a version number can be served from.
CurrentRows(f) == {x \in RowsOf(f) : x.version = files[f].cur}

\* The row of files with a path, as upsert_file_record looks it up.
Named(p) == {f \in FileId : Existing(f) /\ files[f].path = p}

NewRow(f, v, h, b) ==
  [file |-> f, version |-> v, hash |-> h, blob |-> b, created |-> epoch]

-----------------------------------------------------------------------------
(* The requests.                                                            *)

PC == {"idle", "store", "upsert", "rb_target", "rb_update", "rb_insert",
       "restore", "purge_versions", "purge_file"}

Idle == [pc |-> "idle", path |-> None, file |-> None, cur |-> 0,
         hash |-> None, blob |-> None, todo |-> {}]

Request == [pc : PC, path : Path \cup {None}, file : FileId \cup {None},
            cur : 0..MaxVersion, hash : Hash \cup {None},
            blob : Blob \cup {None}, todo : SUBSET FileId]

At(r, pc) == req[r].pc = pc
Finish(r) == req' = [req EXCEPT ![r] = Idle]

NoPrune == [pc |-> "idle", keep |-> 1, cutoff |-> 0, todo |-> {}, doomed |-> {}]

Init ==
  /\ files = [f \in FileId |->
                [status |-> "unused", path |-> None, cur |-> 0, hash |-> None]]
  /\ rows = {}
  /\ req = [r \in Requests |-> Idle]
  /\ prune = NoPrune
  /\ epoch = 0
  /\ regressed = {} /\ headless = {} /\ fixed = {}

-----------------------------------------------------------------------------
(* Uploads: upload, upload_multipart and each file of upload_batch.         *)

UploadStart(r, p, d) ==
  /\ At(r, "idle")
  /\ req' = [req EXCEPT ![r] = [Idle EXCEPT !.pc = "store", !.path = p,
                                            !.hash = d.hash, !.blob = d.blob]]
  /\ UNCHANGED <<dbvars, prune, epoch, ghosts>>

\* storage.store has put the blob on disk; FileStore says how.
StoreBlob(r) ==
  /\ At(r, "store")
  /\ req' = [req EXCEPT ![r].pc = "upsert"]
  /\ UNCHANGED <<dbvars, prune, epoch, ghosts>>

\* The version number of a file that did not exist.
FirstVersion == 1

\* Slip: no lookup inside the transaction.
PathAlwaysFree(p) == TRUE

\* The lookup by path finds nothing.
PathFree(p) == Named(p) = {}

\* The transaction of upsert_file_record finds no row for the path.
UpsertNew(r, f) ==
  /\ At(r, "upsert")
  /\ PathFree(req[r].path)
  /\ files[f].status = "unused"
  /\ files' = [files EXCEPT ![f] = [status |-> "active", path |-> req[r].path,
                                    cur |-> FirstVersion, hash |-> req[r].hash]]
  /\ rows' = rows \cup {NewRow(f, FirstVersion, req[r].hash, req[r].blob)}
  /\ Finish(r)
  /\ UNCHANGED <<prune, epoch, ghosts>>

\* The stored hash equals the uploaded one: no version, only un-delete.
UpsertSame(r) ==
  /\ At(r, "upsert")
  /\ \E f \in Named(req[r].path) :
       /\ files[f].hash = req[r].hash
       /\ files' = [files EXCEPT ![f].status = "active"]
  /\ Finish(r)
  /\ UNCHANGED <<rows, prune, epoch, ghosts>>

\* Slips: the UPDATE leaves current_version, or the hash, as it was.
NewHeadKeepsNumber(f, v, h) == [files[f] EXCEPT !.status = "active", !.hash = h]
NewHeadKeepsHash(f, v, h) == [files[f] EXCEPT !.status = "active", !.cur = v]

\* The columns an upload or a rollback writes when it makes h version v.
NewHead(f, v, h) == [files[f] EXCEPT !.status = "active", !.cur = v, !.hash = h]

\* Slip: numbering by counting the rows.
NextVersionByCount(f) == Cardinality(RowsOf(f)) + 1

NextVersion(f) == files[f].cur + 1

\* The content changed: UPDATE files and INSERT the version, both or neither.
UpsertChanged(r) ==
  /\ At(r, "upsert")
  /\ \E f \in Named(req[r].path) :
       LET new == NextVersion(f) IN
       /\ files[f].hash # req[r].hash
       /\ files[f].cur < MaxVersion
       /\ KeyFree(f, new)
       /\ files' = [files EXCEPT ![f] = NewHead(f, new, req[r].hash)]
       /\ rows' = rows \cup {NewRow(f, new, req[r].hash, req[r].blob)}
       /\ headless' = headless \ {f}
       /\ fixed' = fixed \ {f}
  /\ Finish(r)
  /\ UNCHANGED <<prune, epoch, regressed>>

\* The INSERT violates UNIQUE(file_id, version): rolled back, answered 500.
UpsertRejected(r) ==
  /\ At(r, "upsert")
  /\ \E f \in Named(req[r].path) :
       /\ files[f].hash # req[r].hash
       /\ ~KeyFree(f, NextVersion(f))
  /\ Finish(r)
  /\ UNCHANGED <<dbvars, prune, epoch, ghosts>>

-----------------------------------------------------------------------------
(* rollback: two reads, an UPDATE and an INSERT, outside a transaction.     *)

RollbackStart(r, f) ==
  /\ At(r, "idle")
  /\ Existing(f)
  /\ files[f].cur < MaxVersion
  /\ req' = [req EXCEPT ![r] = [Idle EXCEPT !.pc = "rb_target", !.file = f,
                                            !.cur = files[f].cur]]
  /\ UNCHANGED <<dbvars, prune, epoch, ghosts>>

\* A version that is not found ends the request as Abort does.
RollbackTarget(r) ==
  /\ At(r, "rb_target")
  /\ \E x \in RowsOf(req[r].file) :
       req' = [req EXCEPT ![r].pc = "rb_update",
                          ![r].hash = x.hash, ![r].blob = x.blob]
  /\ UNCHANGED <<dbvars, prune, epoch, ghosts>>

\* UPDATE ... WHERE id = ?: the number read first, plus one, whatever it is now.
\* An UPDATE of a purged file matches nothing and is not noticed.
RollbackUpdate(r) ==
  LET f == req[r].file IN
  /\ At(r, "rb_update")
  /\ req' = [req EXCEPT ![r].pc = "rb_insert"]
  /\ IF Existing(f)
       THEN /\ files' = [files EXCEPT ![f] =
                           NewHead(f, req[r].cur + 1, req[r].hash)]
            /\ regressed' = IF files[f].cur = req[r].cur THEN regressed
                                                         ELSE regressed \cup {f}
            /\ fixed' = fixed \ {f}
       ELSE UNCHANGED <<files, regressed, fixed>>
  /\ UNCHANGED <<rows, prune, epoch, headless>>

\* Slip: a connection without PRAGMA foreign_keys.
InsertableUnlinked(f, v) == KeyFree(f, v)

\* FOREIGN KEY and UNIQUE must both accept the row.
Insertable(f, v) == Existing(f) /\ KeyFree(f, v)

RollbackInsert(r) ==
  LET f == req[r].file
      v == req[r].cur + 1 IN
  /\ At(r, "rb_insert")
  /\ IF Insertable(f, v)
       THEN /\ rows' = rows \cup {NewRow(f, v, req[r].hash, req[r].blob)}
            /\ headless' = IF files[f].cur = v THEN headless \ {f} ELSE headless
       ELSE UNCHANGED <<rows, headless>>
  /\ Finish(r)
  /\ UNCHANGED <<files, prune, epoch, regressed, fixed>>

-----------------------------------------------------------------------------
(* The archive: soft deletion, restoring, permanent deletion.               *)

\* delete_file, and compute_delta for a path in deleted_paths: one UPDATE.
Archive(f) ==
  /\ files[f].status = "active"
  /\ files' = [files EXCEPT ![f].status = "archived"]
  /\ UNCHANGED <<rows, req, prune, epoch, ghosts>>

RestoreStart(r, f) ==
  /\ At(r, "idle")
  /\ files[f].status = "archived"
  /\ req' = [req EXCEPT ![r] = [Idle EXCEPT !.pc = "restore", !.file = f]]
  /\ UNCHANGED <<dbvars, prune, epoch, ghosts>>

\* Slip: the row is written back when it is gone.
RestoredAlways(f) == "active"

\* UPDATE ... WHERE id = ?: it does not ask is_deleted again, and does nothing
\* when the row is gone.
Restored(f) == IF Existing(f) THEN "active" ELSE files[f].status

RestoreUpdate(r) ==
  LET f == req[r].file IN
  /\ At(r, "restore")
  /\ files' = [files EXCEPT ![f].status = Restored(f)]
  /\ Finish(r)
  /\ UNCHANGED <<rows, prune, epoch, ghosts>>

Archived == {f \in FileId : files[f].status = "archived"}

RestoreAll ==
  /\ Archived # {}
  /\ files' = [f \in FileId |->
                 IF f \in Archived THEN [files[f] EXCEPT !.status = "active"]
                                   ELSE files[f]]
  /\ UNCHANGED <<rows, req, prune, epoch, ghosts>>

\* fix_hash: one UPDATE, whatever the stored hash and version are by now.
FixHash(f, h) ==
  /\ Existing(f)
  /\ files[f].hash # h
  /\ files' = [files EXCEPT ![f].hash = h]
  /\ fixed' = fixed \cup {f}
  /\ UNCHANGED <<rows, req, prune, epoch, regressed, headless>>

\* delete_permanent and wipe_archive: choose what to delete ...
Purge(r, chosen) ==
  /\ At(r, "idle")
  /\ req' = [req EXCEPT ![r] = [Idle EXCEPT !.pc = "purge_versions",
                                            !.todo = chosen]]
  /\ UNCHANGED <<dbvars, prune, epoch, ghosts>>

DeletePermanentStart(r, f) == f \in Archived /\ Purge(r, {f})
WipeStart(r) == Archived # {} /\ Purge(r, Archived)

\* ... then, for each file, DELETE its versions ...
PurgeVersions(r) ==
  /\ At(r, "purge_versions")
  /\ \E f \in req[r].todo :
       /\ rows' = rows \ RowsOf(f)
       /\ req' = [req EXCEPT ![r].pc = "purge_file", ![r].file = f]
  /\ UNCHANGED <<files, prune, epoch, ghosts>>

\* ON DELETE CASCADE takes the versions inserted since.
Cascade(f) == rows \ RowsOf(f)

\* ... and DELETE the file itself, without looking at is_deleted again.
PurgeFile(r) ==
  LET f == req[r].file
      left == req[r].todo \ {f} IN
  /\ At(r, "purge_file")
  /\ files' = [files EXCEPT ![f].status = "purged"]
  /\ rows' = Cascade(f)
  /\ req' = [req EXCEPT ![r] = IF left = {} THEN Idle
                               ELSE [Idle EXCEPT !.pc = "purge_versions",
                                                 !.todo = left]]
  /\ UNCHANGED <<prune, epoch, ghosts>>

\* A handler stops where it is; a file it was changing may lose its head.
Abort(r) ==
  /\ ~At(r, "idle")
  /\ headless' = headless \cup
       {f \in FileId : /\ f = req[r].file
                       /\ req[r].pc \in {"rb_insert", "purge_file"}
                       /\ CurrentRows(f) = {}}
  /\ Finish(r)
  /\ UNCHANGED <<dbvars, prune, epoch, regressed, fixed>>

-----------------------------------------------------------------------------
(* prune_versions.                                                          *)

\* The settings and the list of files, each with its current version, are
\* read once, before the first file is pruned.
PruneStart(limits) ==
  /\ prune.pc = "idle"
  /\ prune' = [pc |-> "run", keep |-> limits.keep,
               cutoff |-> IF limits.expire THEN epoch ELSE 0,
               todo |-> {[file |-> f, cur |-> files[f].cur] : f \in
                           {g \in FileId : /\ Existing(g)
                                           /\ limits.keepArchive
                                                => g \notin Archived}},
               doomed |-> {}]
  /\ UNCHANGED <<dbvars, req, epoch, ghosts>>

\* Slip: the list read oldest first.
RankOldestFirst(x) ==
  Cardinality({y \in rows : y.file = x.file /\ y.version < x.version})

\* The position of a row in the list of its file's versions, newest first.
Rank(x) == Cardinality({y \in rows : y.file = x.file /\ y.version > x.version})

\* Slip: the test for the current version left out.
DoomedIgnoringCurrent(t) ==
  {x \in RowsOf(t.file) : Rank(x) >= prune.keep \/ x.created < prune.cutoff}

\* Slip: a version must exceed both limits.
DoomedBothLimits(t) ==
  {x \in RowsOf(t.file) : /\ x.version # t.cur
                          /\ Rank(x) >= prune.keep /\ x.created < prune.cutoff}

\* Slip: one version more than the limit is kept.
DoomedOneMore(t) ==
  {x \in RowsOf(t.file) : /\ x.version # t.cur
                          /\ Rank(x) > prune.keep \/ x.created < prune.cutoff}

\* The rows of t.file that the job decides to delete.
Doomed(t) ==
  {x \in RowsOf(t.file) : /\ x.version # t.cur
                          /\ Rank(x) >= prune.keep \/ x.created < prune.cutoff}

\* The versions of the next file are read.
PruneScan ==
  /\ prune.pc = "run" /\ prune.doomed = {}
  /\ \E t \in prune.todo :
       prune' = [prune EXCEPT !.todo = @ \ {t}, !.doomed = Doomed(t)]
  /\ UNCHANGED <<dbvars, req, epoch, ghosts>>

\* One DELETE by row id; it is not repeated when the row is already gone.
PruneDelete ==
  /\ prune.pc = "run"
  /\ \E x \in prune.doomed :
       /\ rows' = rows \ {x}
       /\ prune' = [prune EXCEPT !.doomed = @ \ {x}]
  /\ UNCHANGED <<files, req, epoch, ghosts>>

PruneEnd ==
  /\ prune.pc = "run" /\ prune.todo = {} /\ prune.doomed = {}
  /\ prune' = NoPrune
  /\ UNCHANGED <<dbvars, req, epoch, ghosts>>

\* A failed statement or a restart ends a pass that has work left; the next one
\* starts afresh.
PruneAbort ==
  /\ prune.pc = "run"
  /\ prune.todo # {} \/ prune.doomed # {}
  /\ prune' = NoPrune
  /\ UNCHANGED <<dbvars, req, epoch, ghosts>>

\* More than the retention period (a day at least) passes, during which no
\* request stays in flight.
Tick ==
  /\ \A r \in Requests : At(r, "idle")
  /\ epoch < MaxEpoch
  /\ epoch' = epoch + 1
  /\ UNCHANGED <<dbvars, req, prune, ghosts>>

-----------------------------------------------------------------------------

UploadStep(r) ==
  \/ \E p \in Path, d \in Payload : UploadStart(r, p, d)
  \/ \E f \in FileId : UpsertNew(r, f)
  \/ UpsertSame(r)
  \/ UpsertChanged(r)
  \/ UpsertRejected(r)

RollbackStep(r) ==
  \/ \E f \in FileId : RollbackStart(r, f)
  \/ RollbackTarget(r)
  \/ RollbackUpdate(r)
  \/ RollbackInsert(r)

ArchiveStep(r) ==
  \/ \E f \in FileId : RestoreStart(r, f) \/ DeletePermanentStart(r, f)
  \/ RestoreUpdate(r)
  \/ WipeStart(r)
  \/ PurgeVersions(r)
  \/ PurgeFile(r)

PruneStep ==
  \/ \E l \in Limits : PruneStart(l)
  \/ PruneScan
  \/ PruneDelete
  \/ PruneEnd
  \/ PruneAbort

\* The steps that do not involve the blobs on disk.
TableStep ==
  \/ \E r \in Requests : UploadStep(r) \/ RollbackStep(r) \/ ArchiveStep(r)
  \/ \E f \in FileId : Archive(f) \/ (\E h \in Hash : FixHash(f, h))
  \/ RestoreAll
  \/ PruneStep
  \/ Tick

Next == TableStep \/ (\E r \in Requests : StoreBlob(r) \/ Abort(r))

Spec == Init /\ [][Next]_vars

\* A task of its own runs the pruning job after the start and every six hours,
\* and the job goes on from one statement to the next.  Nothing keeps a client from leaving requests
\* undone, and nothing keeps a pass from failing.
PruneFairness ==
  /\ WF_vars(\E l \in Limits : PruneStart(l))
  /\ WF_vars(PruneScan)
  /\ WF_vars(PruneDelete)
  /\ WF_vars(PruneEnd)

FairSpec == Spec /\ PruneFairness

-----------------------------------------------------------------------------
(* What the tables promise.                                                 *)

\* Every variable has its type; in particular a version number is at least 1
\* and every row belongs to an identifier that was drawn.
TypeOK ==
  /\ files \in [FileId -> FileRecord]
  /\ rows \subseteq Row
  /\ req \in [Requests -> Request]
  /\ prune \in [pc : {"idle", "run"}, keep : Nat \ {0}, cutoff : 0..MaxEpoch,
                todo : SUBSET [file : FileId, cur : 0..MaxVersion],
                doomed : SUBSET Row]
  /\ epoch \in 0..MaxEpoch
  /\ regressed \subseteq FileId
  /\ headless \subseteq FileId
  /\ fixed \subseteq FileId

\* No version of a file is newer than its current one, unless a rollback
\* worked from a number that had changed since it read it: the condition
\* under which the next upload gets a free version number.
CurrentIsNewest ==
  \A x \in rows : x.file \notin regressed => x.version <= files[x.file].cur

\* A handler is between the two statements that change f and its history.
InWindow(r, f) ==
  /\ req[r].file = f
  /\ \/ At(r, "purge_file")
     \/ At(r, "rb_insert") /\ req[r].cur + 1 = files[f].cur

\* A file that is neither in the middle of a rollback or a purge, nor was left
\* there by one that stopped, can be downloaded: its current version has its
\* row, whatever uploads, rollbacks and the pruning job do at the same time.
CurrentRowPresent ==
  \A f \in FileId :
    /\ Existing(f)
    /\ f \notin regressed \cup headless
    /\ \A r \in Requests : ~InWindow(r, f)
    => CurrentRows(f) # {}

\* Two uploads of a new path at the same time never create two files.
OneFilePerPath == \A p \in Path : Cardinality(Named(p)) <= 1

\* The hash in files, which sync compares with the client's, is the hash of
\* the content a download returns.
HashMatchesCurrent ==
  \A f \in FileId \ (regressed \cup fixed) :
    \A x \in CurrentRows(f) : x.hash = files[f].hash

\* The version number a rollback claimed with its UPDATE is still free when it
\* comes to INSERT the row: no upload and no other rollback takes it meanwhile.
RollbackWillInsert ==
  \A r \in Requests :
    LET f == req[r].file IN
    At(r, "rb_insert") => \/ ~Existing(f)
                          \/ f \in regressed
                          \/ KeyFree(f, req[r].cur + 1)

\* A file that was deleted permanently does not come back when a restore or a
\* rollback that had already found it goes on.
PurgedStaysPurged ==
  [][\A f \in FileId : files[f].status = "purged" =>
                         files'[f].status = "purged"]_vars

\* The pruning job never deletes the row a download would be served from,
\* although it decides from a list of current versions that may be old.
PruneKeepsCurrent ==
  [][PruneStep => \A f \in FileId \ regressed :
                    CurrentRows(f) \subseteq rows']_vars

\* Once no more versions are written and passes are no longer cut short, every
\* file keeps at most the configured number of versions; one more, its current
\* one, when a rollback may have made an old number current.
HistoryTrimmed ==
  <>[][rows' \subseteq rows /\ ~PruneAbort]_vars =>
    \A l \in Limits : <>[] \A f \in FileId :
       \/ l.keepArchive /\ f \in Archived
       \/ Cardinality(RowsOf(f)) <= IF f \in regressed THEN l.keep + 1 ELSE l.keep

\* The setup guide says that a rollback creates a new version on top of a
\* preserved history: nothing in the history is newer than the current version.
RollbackCreatesNewest ==
  \A f \in FileId : \A x \in RowsOf(f) : x.version <= files[f].cur

\* delete_permanent and wipe_archive only remove files that are archived:
\* "File must be archived before permanent deletion".
PurgeOnlyArchived ==
  [][\A f \in FileId :
       files[f].status # "purged" /\ files'[f].status = "purged"
         => files[f].status = "archived"]_vars
=============================================================================
