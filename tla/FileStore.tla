------------------------------ MODULE FileStore ------------------------------
(***************************************************************************)
(* VersionStore together with the blobs on disk: BlobStorage::store, which  *)
(* an upload runs before its transaction, and the garbage collector, which  *)
(* removes the files no row of file_versions names.                         *)
(*                                                                          *)
(* The table and the disk are not updated together, and the collector       *)
(* decides from a list of references it reads before it walks the disk.     *)
(*                                                                          *)
(* A definition under the comment "Slip" is a plausible mistake in the      *)
(* definition that follows it; no specification uses it.                    *)
(***************************************************************************)
EXTENDS VersionStore

CONSTANT MaxQueued  \* bound: abandoned writes of one blob that wait in the blocking pool

ASSUME QueuedAssumption == MaxQueued \in Nat

VARIABLES
  disk,         \* what is on disk under the name of each blob
  writer,       \* who has truncated the file last and is still writing it
  io,           \* how far store is in each request whose pc is "store"
  queued,       \* how many calls of fs::write for each blob have outlived their
                \*   request and have not opened the file yet
  gc,           \* the collector: whether it runs, the references it read, and
                \*   the names missing from them whose place is yet to be visited
  exposed,      \* ghost: blobs in use that a running collector does not know of
                \*   and will come to, or has removed
  interrupted   \* ghost: blobs whose last write failed

fsvars == <<disk, writer, io, queued, gc>>
allvars == <<vars, disk, writer, io, queued, gc, exposed, interrupted>>

Detached == "detached"  \* a write whose request has gone away

ASSUME WritersAssumption == None \notin Requests /\ Detached \notin Requests

IdleGc == [pc |-> "idle", known |-> {}, todo |-> {}]

\* The blobs named in file_versions.
Referenced == {x.blob : x \in rows}

FSInit ==
  /\ Init
  /\ disk = [b \in Blob |-> "absent"]
  /\ writer = [b \in Blob |-> None]
  /\ io = [r \in Requests |-> "check"]
  /\ queued = [b \in Blob |-> 0]
  /\ gc = IdleGc
  /\ exposed = {} /\ interrupted = {}

\* The request is about to insert a row that names b.
Holds(r, b) ==
  /\ req[r].blob = b
  /\ \/ req[r].pc \in {"upsert", "rb_update", "rb_insert"}
     \/ At(r, "store") /\ io[r] = "write"

InUse(b) == b \in Referenced \/ (\E r \in Requests : Holds(r, b))

Observe ==
  exposed' = {b \in Blob : /\ InUse(b)'
                           /\ \/ b \in gc'.todo \ gc'.known
                              \/ b \in exposed /\ disk'[b] = "absent"}

-----------------------------------------------------------------------------
(* store                                                                    *)

\* The file exists, whole or not: nothing is written.
StoreExists(r) ==
  /\ At(r, "store") /\ io[r] = "check"
  /\ disk[req[r].blob] # "absent"
  /\ StoreBlob(r)
  /\ UNCHANGED <<fsvars, interrupted>>
  /\ Observe

\* Slip: the name is claimed with an empty file.
StoreMissingTouches(r) ==
  /\ At(r, "store") /\ io[r] = "check"
  /\ disk[req[r].blob] = "absent"
  /\ io' = [io EXCEPT ![r] = "open"]
  /\ disk' = [disk EXCEPT ![req[r].blob] = "partial"]
  /\ UNCHANGED <<vars, writer, queued, gc, interrupted>>
  /\ Observe

StoreMissing(r) ==
  /\ At(r, "store") /\ io[r] = "check"
  /\ disk[req[r].blob] = "absent"
  /\ io' = [io EXCEPT ![r] = "open"]
  /\ UNCHANGED <<vars, disk, writer, queued, gc, interrupted>>
  /\ Observe

\* fs::write creates the file or truncates the one that is there by now.
StoreOpen(r) ==
  LET b == req[r].blob IN
  /\ At(r, "store") /\ io[r] = "open"
  /\ io' = [io EXCEPT ![r] = "write"]
  /\ disk' = [disk EXCEPT ![b] = "partial"]
  /\ writer' = [writer EXCEPT ![b] = r]
  /\ interrupted' = interrupted \ {b}
  /\ UNCHANGED <<vars, queued, gc>>
  /\ Observe

\* The write of w ends well.  Only the last to truncate the file is sure to
\* leave it whole, and nobody does once the collector has unlinked it.
Written(w, b) ==
  IF writer[b] = w
    THEN /\ disk' = [disk EXCEPT ![b] = "full"]
         /\ writer' = [writer EXCEPT ![b] = None]
    ELSE UNCHANGED <<disk, writer>>

\* The write of w fails: no space is left, or the server is killed.
WriteFails(w, b) ==
  /\ interrupted' = IF writer[b] = w THEN interrupted \cup {b} ELSE interrupted
  /\ writer' = [writer EXCEPT ![b] = IF @ = w THEN None ELSE @]

StoreWritten(r) ==
  /\ At(r, "store") /\ io[r] = "write"
  /\ StoreBlob(r)
  /\ Written(r, req[r].blob)
  /\ io' = [io EXCEPT ![r] = "check"]
  /\ UNCHANGED <<queued, gc, interrupted>>
  /\ Observe

\* The handler stops before it hands a write to the blocking pool, or after
\* the write.
StopNotWriting(r) ==
  /\ ~(At(r, "store") /\ io[r] = "write")
  /\ Abort(r)
  /\ io' = [io EXCEPT ![r] = "check"]
  /\ UNCHANGED <<disk, writer, queued, gc, interrupted>>
  /\ Observe

\* store returns the error of the write, or the server is killed.
StoreFails(r) ==
  /\ At(r, "store") /\ io[r] = "write"
  /\ Abort(r)
  /\ WriteFails(r, req[r].blob)
  /\ io' = [io EXCEPT ![r] = "check"]
  /\ UNCHANGED <<disk, queued, gc>>
  /\ Observe

\* The client goes away while fs::write waits for a thread of the blocking pool,
\* which nothing takes out of the queue.
StoreAbandoned(r) ==
  LET b == req[r].blob IN
  /\ At(r, "store") /\ io[r] = "open"
  /\ queued[b] < MaxQueued
  /\ Abort(r)
  /\ queued' = [queued EXCEPT ![b] = @ + 1]
  /\ io' = [io EXCEPT ![r] = "check"]
  /\ UNCHANGED <<disk, writer, gc, interrupted>>
  /\ Observe

\* Its turn comes: it creates or truncates the file and writes it.
QueuedOpens(b) ==
  /\ queued[b] > 0
  /\ queued' = [queued EXCEPT ![b] = @ - 1]
  /\ disk' = [disk EXCEPT ![b] = "partial"]
  /\ writer' = [writer EXCEPT ![b] = Detached]
  /\ interrupted' = interrupted \ {b}
  /\ UNCHANGED <<vars, io, gc>>
  /\ Observe

\* It cannot open the file, or the server is killed before its turn.
QueuedLost(b) ==
  /\ queued[b] > 0
  /\ queued' = [queued EXCEPT ![b] = @ - 1]
  /\ UNCHANGED <<vars, disk, writer, io, gc, interrupted>>
  /\ Observe

\* The client goes away during the write, which a thread of the blocking pool
\* carries on.
StoreDetached(r) ==
  LET b == req[r].blob IN
  /\ At(r, "store") /\ io[r] = "write"
  /\ Abort(r)
  /\ writer' = [writer EXCEPT ![b] = IF @ = r THEN Detached ELSE @]
  /\ io' = [io EXCEPT ![r] = "check"]
  /\ UNCHANGED <<disk, queued, gc, interrupted>>
  /\ Observe

DetachedEnds(b) ==
  /\ writer[b] = Detached
  /\ \/ Written(Detached, b) /\ UNCHANGED interrupted
     \/ WriteFails(Detached, b) /\ UNCHANGED disk
  /\ UNCHANGED <<vars, io, queued, gc>>
  /\ Observe

-----------------------------------------------------------------------------
(* garbage_collect_blobs                                                    *)

\* Slip: every file is taken for garbage.
UnreferencedAll == Blob

\* Slip: files that are not whole are left alone.
UnreferencedWhole == {b \in Blob \ Referenced : disk[b] = "full"}

\* The names that SELECT DISTINCT blob_path does not return.
Unreferenced == Blob \ Referenced

GcStart ==
  /\ gc.pc = "idle"
  /\ gc' = [pc |-> "run", known |-> Referenced, todo |-> Unreferenced]
  /\ UNCHANGED <<vars, disk, writer, io, queued, interrupted>>
  /\ Observe

\* Slip: a file that somebody is writing is skipped.
GcVisitSkipsOpen(b) ==
  /\ gc.pc = "run" /\ b \in gc.todo
  /\ gc' = [gc EXCEPT !.todo = @ \ {b}]
  /\ disk' = IF writer[b] = None THEN [disk EXCEPT ![b] = "absent"] ELSE disk
  /\ interrupted' = interrupted \ {b}
  /\ UNCHANGED <<vars, writer, io, queued>>
  /\ Observe

\* The walk comes to the place of b: the file is removed if there is one.
GcVisit(b) ==
  /\ gc.pc = "run" /\ b \in gc.todo
  /\ gc' = [gc EXCEPT !.todo = @ \ {b}]
  /\ disk' = [disk EXCEPT ![b] = "absent"]
  /\ writer' = [writer EXCEPT ![b] = None]
  /\ interrupted' = interrupted \ {b}
  /\ UNCHANGED <<vars, io, queued>>
  /\ Observe

GcEnd ==
  /\ gc.pc = "run" /\ gc.todo = {}
  /\ gc' = IdleGc
  /\ UNCHANGED <<vars, disk, writer, io, queued, interrupted>>
  /\ Observe

\* Any error ends the pass, as does a restart, with places left to visit.
GcAbort ==
  /\ gc.pc = "run" /\ gc.todo # {}
  /\ gc' = IdleGc
  /\ UNCHANGED <<vars, disk, writer, io, queued, interrupted>>
  /\ Observe

-----------------------------------------------------------------------------

StoreStep(r) ==
  \/ StoreExists(r)
  \/ StoreMissing(r)
  \/ StoreOpen(r)
  \/ StoreWritten(r)
  \/ StopNotWriting(r)
  \/ StoreFails(r)
  \/ StoreAbandoned(r)
  \/ StoreDetached(r)

QueuedStep(b) == QueuedOpens(b) \/ QueuedLost(b)

GcStep == GcStart \/ (\E b \in Blob : GcVisit(b)) \/ GcEnd \/ GcAbort

\* What the rest of VersionStore does, which leaves the disk alone.
OtherStep == TableStep /\ UNCHANGED <<fsvars, interrupted>> /\ Observe

FSNext ==
  \/ OtherStep
  \/ \E r \in Requests : StoreStep(r)
  \/ \E b \in Blob : QueuedStep(b) \/ DetachedEnds(b)
  \/ GcStep

FSSpec == FSInit /\ [][FSNext]_allvars

\* The collector runs every six hours and a pass goes on from file to file; a
\* write handed to the blocking pool gets its turn and ends.
FSFairness ==
  /\ WF_allvars(GcStart)
  /\ \A b \in Blob : /\ WF_allvars(GcVisit(b))
                     /\ WF_allvars(QueuedStep(b))
                     /\ WF_allvars(DetachedEnds(b))
  /\ WF_allvars(GcEnd)

FSFairSpec == FSSpec /\ PruneFairness /\ FSFairness

-----------------------------------------------------------------------------

\* The type of the disk and of those who work on it.
FSTypeOK ==
  /\ disk \in [Blob -> {"absent", "partial", "full"}]
  /\ writer \in [Blob -> Requests \cup {None, Detached}]
  /\ io \in [Requests -> {"check", "open", "write"}]
  /\ queued \in [Blob -> 0..MaxQueued]
  /\ gc \in [pc : {"idle", "run"}, known : SUBSET Blob, todo : SUBSET Blob]
  /\ exposed \subseteq Blob
  /\ interrupted \subseteq Blob

\* Every version can be read: the blob its row names is on disk, except when a
\* handler was about to insert such a row, or did insert it, while a collector was
\* on its way to the blob that had read the table too early to know of the row.
ReferencedBlobPresent ==
  \A x \in rows : x.blob \notin exposed => disk[x.blob] # "absent"

\* The blob of a version is whole, or somebody is writing it, except when the
\* last write of it failed: store never looks at what an existing file holds.
ReferencedBlobIntact ==
  \A x \in rows : x.blob \notin exposed \cup interrupted =>
    \/ disk[x.blob] = "full"
    \/ disk[x.blob] = "partial" /\ writer[x.blob] # None

\* "Garbage collect unreferenced blobs from the filesystem": what the collector
\* removes is not named in file_versions.
GcRemovesOnlyUnreferenced ==
  [][\A b \in Blob : disk[b] # "absent" /\ disk'[b] = "absent"
                       => b \notin Referenced]_allvars

\* A blob that no row and no request names any more leaves the disk, once
\* passes of the collector are no longer cut short.
OrphanCollected ==
  <>[][~GcAbort]_allvars =>
    \A b \in Blob :
      <>[](b \notin Referenced /\ \A r \in Requests : req[r].blob # b)
        => <>[](disk[b] = "absent")
=============================================================================
