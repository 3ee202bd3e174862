--------------------------- MODULE FileStore_proofs ---------------------------
(***************************************************************************)
(* Proofs about FileStore: the inductive invariant of the tables holds in   *)
(* it, and on top of that the two invariants that relate the rows to the    *)
(* blobs on disk.                                                           *)
(***************************************************************************)
EXTENDS FileStore, VersionStore_proofs

\* A step on the disk is a step of the tables or leaves them alone.
LEMMA StepImplements == FSNext => [Next]_vars
  <1> SUFFICES ASSUME FSNext PROVE [Next]_vars
    OBVIOUS
  <1>1. CASE OtherStep
    BY <1>1 DEF OtherStep, Next
  <1>2. ASSUME NEW r \in Requests, StoreStep(r) PROVE [Next]_vars
    <2>1. CASE StoreExists(r) \/ StoreWritten(r)
      BY <2>1 DEF StoreExists, StoreWritten, Next
    <2>2. CASE StoreMissing(r) \/ StoreOpen(r)
      BY <2>2 DEF StoreMissing, StoreOpen
    <2>3. CASE \/ StopNotWriting(r) \/ StoreFails(r) \/ StoreAbandoned(r)
               \/ StoreDetached(r)
      BY <2>3 DEF StopNotWriting, StoreFails, StoreAbandoned, StoreDetached, Next
    <2> QED
      BY <1>2, <2>1, <2>2, <2>3 DEF StoreStep
  <1>3. CASE (\E b \in Blob : QueuedStep(b) \/ DetachedEnds(b)) \/ GcStep
    BY <1>3 DEF QueuedStep, QueuedOpens, QueuedLost, DetachedEnds, GcStep,
                GcStart, GcVisit, GcEnd, GcAbort
  <1> QED
    BY <1>1, <1>2, <1>3 DEF FSNext

\* The steps of FileStore are steps of VersionStore or leave its variables
\* alone, so what is proved of the tables alone holds of them here.
LEMMA FileStoreRunsTables == FSSpec => Spec
  <1>1. FSInit => Init
    BY DEF FSInit
  <1>2. [FSNext]_allvars => [Next]_vars
    <2>1. CASE FSNext
      BY <2>1, StepImplements
    <2>2. CASE UNCHANGED allvars
      BY <2>2 DEF allvars
    <2> QED
      BY <2>1, <2>2
  <1> QED
    BY <1>1, <1>2, PTL DEF FSSpec, Spec

\* A request that is not in store is not in the middle of a write.
IoReset == \A r \in Requests : ~At(r, "store") => io[r] = "check"

\* A blob in use is on disk unless it is exposed ...
InUsePresent == \A b \in Blob : InUse(b) /\ b \notin exposed => disk[b] # "absent"

\* ... and it is exposed while a collector that does not know it is to come.
UnknownExposed == \A b \in gc.todo : InUse(b) => b \in exposed

\* The collector is on its way to names it did not find only.
TodoUnknown == gc.todo \cap gc.known = {}

\* The domains that the steps on the disk rely on.
DiskType ==
  /\ rows \subseteq Row
  /\ req \in [Requests -> Request]
  /\ disk \in [Blob -> {"absent", "partial", "full"}]
  /\ io \in [Requests -> {"check", "open", "write"}]
  /\ gc \in [pc : {"idle", "run"}, known : SUBSET Blob, todo : SUBSET Blob]

BlobInv == IoReset /\ InUsePresent /\ UnknownExposed /\ TodoUnknown

LEMMA DiskTypeInit == FSInit => FSTypeOK
  BY QueuedAssumption DEF FSInit, FSTypeOK, IdleGc

LEMMA DiskTypeStep ==
  ASSUME TypeOK, RequestShape, FSTypeOK, FSNext
  PROVE  FSTypeOK'
  <1> USE DEF FSTypeOK
  <1>0. exposed' \subseteq Blob
    BY DEF FSNext, OtherStep, StoreStep, StoreExists, StoreMissing, StoreOpen,
           StoreWritten, StopNotWriting, StoreFails, StoreAbandoned, StoreDetached,
           QueuedStep, QueuedOpens, QueuedLost, DetachedEnds,
           GcStep, GcStart, GcVisit, GcEnd, GcAbort, Observe
  <1>1. CASE OtherStep
    BY <1>0, <1>1 DEF OtherStep, fsvars
  <1>2. ASSUME NEW r \in Requests, StoreStep(r) PROVE FSTypeOK'
    <2>0. At(r, "store") => req[r].blob \in Blob
      BY DEF RequestShape, At
    <2>1. CASE StoreExists(r) \/ StoreMissing(r)
      BY <1>0, <2>1 DEF StoreExists, StoreMissing, fsvars
    <2>2. CASE StoreOpen(r)
      BY <1>0, <2>2 DEF StoreOpen
    <2>3. CASE StoreWritten(r)
      BY <1>0, <2>3 DEF StoreWritten, Written
    <2>4. CASE StopNotWriting(r)
      BY <1>0, <2>4 DEF StopNotWriting
    <2>5. CASE StoreFails(r)
      BY <1>0, <2>0, <2>5 DEF StoreFails, WriteFails
    <2>6. CASE StoreDetached(r)
      BY <1>0, <2>6 DEF StoreDetached
    <2>7. CASE StoreAbandoned(r)
      BY <1>0, <2>0, <2>7, QueuedAssumption DEF StoreAbandoned
    <2> QED
      BY <1>2, <2>1, <2>2, <2>3, <2>4, <2>5, <2>6, <2>7 DEF StoreStep
  <1>3. ASSUME NEW b \in Blob, QueuedStep(b) \/ DetachedEnds(b) PROVE FSTypeOK'
    <2>1. CASE DetachedEnds(b)
      BY <1>0, <2>1 DEF DetachedEnds, Written, WriteFails
    <2>2. CASE QueuedStep(b)
      BY <1>0, <2>2, QueuedAssumption DEF QueuedStep, QueuedOpens, QueuedLost
    <2> QED
      BY <1>3, <2>1, <2>2
  <1>4. CASE GcStep
    <2>1. Referenced \subseteq Blob /\ Unreferenced \subseteq Blob
      BY DEF TypeOK, Row, Referenced, Unreferenced
    <2> QED
      BY <1>0, <1>4, <2>1 DEF GcStep, GcStart, GcVisit, GcEnd, GcAbort, IdleGc
  <1> QED
    BY <1>1, <1>2, <1>3, <1>4 DEF FSNext

\* A file is whole, or being written, or its last write failed.
PartialExplained ==
  \A b \in Blob : disk[b] = "partial" => writer[b] # None \/ b \in interrupted

LEMMA PartialStep ==
  ASSUME TypeOK, RequestShape, FSTypeOK, PartialExplained, FSNext
  PROVE  PartialExplained'
  <1> USE WritersAssumption DEF FSTypeOK, PartialExplained
  <1>1. CASE OtherStep
    BY <1>1 DEF OtherStep, fsvars
  <1>2. ASSUME NEW r \in Requests, StoreStep(r) PROVE PartialExplained'
    <2>0. At(r, "store") => req[r].blob \in Blob
      BY DEF RequestShape, At
    <2>1. CASE StoreExists(r) \/ StoreMissing(r)
      BY <2>1 DEF StoreExists, StoreMissing, fsvars
    <2>2. CASE StoreOpen(r)
      BY <2>0, <2>2 DEF StoreOpen
    <2>3. CASE StoreWritten(r)
      BY <2>0, <2>3 DEF StoreWritten, Written
    <2>4. CASE StopNotWriting(r)
      BY <2>4 DEF StopNotWriting
    <2>5. CASE StoreFails(r)
      BY <2>0, <2>5 DEF StoreFails, WriteFails
    <2>6. CASE StoreDetached(r)
      BY <2>0, <2>6 DEF StoreDetached, Detached, None
    <2>7. CASE StoreAbandoned(r)
      BY <2>7 DEF StoreAbandoned
    <2> QED
      BY <1>2, <2>1, <2>2, <2>3, <2>4, <2>5, <2>6, <2>7 DEF StoreStep
  <1>3. ASSUME NEW b \in Blob, QueuedStep(b) \/ DetachedEnds(b)
        PROVE  PartialExplained'
    BY <1>3 DEF QueuedStep, QueuedOpens, QueuedLost, DetachedEnds, Written,
                WriteFails, Detached, None
  <1>4. CASE GcStep
    BY <1>4 DEF GcStep, GcStart, GcVisit, GcEnd, GcAbort
  <1> QED
    BY <1>1, <1>2, <1>3, <1>4 DEF FSNext

LEMMA BlobInit == FSInit => BlobInv
  BY DEF FSInit, Init, BlobInv, IoReset, InUsePresent, UnknownExposed, TodoUnknown,
         IdleGc, InUse, Holds, Referenced, Idle, At

\* After any step, what is exposed is what Observe says.
LEMMA ExposedAfter ==
  ASSUME Observe, TodoUnknown', gc'.todo \subseteq Blob
  PROVE  UnknownExposed'
  BY DEF Observe, TodoUnknown, UnknownExposed

\* The tables alone put no new name into use: a row gets the name that the
\* request held, and a rollback finds its name in a row.
LEMMA TablesAddNoUse ==
  ASSUME DiskType, IoReset, TableStep, UNCHANGED fsvars,
         NEW b \in Blob, InUse(b)'
  PROVE  InUse(b)
  <1> USE DEF DiskType, IoReset, At, InUse, Holds, Referenced, fsvars
  <1>1. ASSUME NEW r \in Requests, UploadStep(r) PROVE InUse(b)
    <2>1. ASSUME NEW p \in Path, NEW d \in Payload, UploadStart(r, p, d)
          PROVE  InUse(b)
      BY <2>1 DEF UploadStart, dbvars, Idle
    <2>2. ASSUME NEW f \in FileId, UpsertNew(r, f) PROVE InUse(b)
      BY <2>2 DEF UpsertNew, NewRow, Finish, Idle
    <2>3. CASE UpsertSame(r) \/ UpsertRejected(r)
      BY <2>3 DEF UpsertSame, UpsertRejected, Finish, Idle, dbvars
    <2>4. CASE UpsertChanged(r)
      BY <2>4 DEF UpsertChanged, NewRow, Finish, Idle
    <2> QED
      BY <1>1, <2>1, <2>2, <2>3, <2>4 DEF UploadStep
  <1>2. ASSUME NEW r \in Requests, RollbackStep(r) PROVE InUse(b)
    <2>1. ASSUME NEW f \in FileId, RollbackStart(r, f) PROVE InUse(b)
      BY <2>1 DEF RollbackStart, dbvars, Idle
    <2>2. CASE RollbackTarget(r)
      BY <2>2 DEF RollbackTarget, RowsOf, dbvars, Request
    <2>3. CASE RollbackUpdate(r)
      BY <2>3 DEF RollbackUpdate, Request
    <2>4. CASE RollbackInsert(r)
      BY <2>4 DEF RollbackInsert, NewRow, Finish, Idle
    <2> QED
      BY <1>2, <2>1, <2>2, <2>3, <2>4 DEF RollbackStep
  <1>3. ASSUME NEW r \in Requests, ArchiveStep(r) PROVE InUse(b)
    <2>1. ASSUME NEW f \in FileId, RestoreStart(r, f) PROVE InUse(b)
      BY <2>1 DEF RestoreStart, dbvars, Idle
    <2>2. ASSUME NEW chosen, Purge(r, chosen) PROVE InUse(b)
      BY <2>2 DEF Purge, dbvars, Idle
    <2>3. CASE RestoreUpdate(r)
      BY <2>3 DEF RestoreUpdate, Finish, Idle
    <2>4. CASE PurgeVersions(r)
      BY <2>4 DEF PurgeVersions, RowsOf, Request
    <2>5. CASE PurgeFile(r)
      BY <2>5 DEF PurgeFile, Cascade, RowsOf, Idle
    <2> QED
      BY <1>3, <2>1, <2>2, <2>3, <2>4, <2>5
         DEF ArchiveStep, DeletePermanentStart, WipeStart
  <1>4. CASE \/ \E f \in FileId : Archive(f) \/ (\E h \in Hash : FixHash(f, h))
             \/ RestoreAll
             \/ PruneStep
             \/ Tick
    BY <1>4 DEF Archive, FixHash, RestoreAll, Tick, dbvars, PruneStep,
                PruneStart, PruneScan, PruneDelete, PruneEnd, PruneAbort
  <1> QED
    BY <1>1, <1>2, <1>3, <1>4 DEF TableStep

\* A name gets into use by a look at the disk, by a write, or through a row.
LEMMA UseOnlyGrowsOnDisk ==
  ASSUME DiskType, BlobInv, FSNext, NEW b \in Blob, InUse(b)'
  PROVE  InUse(b) \/ disk'[b] # "absent"
  <1> USE DEF DiskType, BlobInv, IoReset, At
  <1>1. CASE OtherStep
    BY <1>1, TablesAddNoUse DEF OtherStep, fsvars
  <1>2. ASSUME NEW r \in Requests, StoreStep(r)
        PROVE  InUse(b) \/ disk'[b] # "absent"
    <2>1. CASE StoreExists(r)
      BY <2>1 DEF StoreExists, StoreBlob, InUse, Holds, Referenced, fsvars,
                  dbvars, Request
    <2>2. CASE StoreMissing(r)
      BY <2>2 DEF StoreMissing, InUse, Holds, Referenced, vars, Request
    <2>3. CASE StoreOpen(r)
      BY <2>3 DEF StoreOpen, InUse, Holds, Referenced, vars, Request
    <2>4. CASE StoreWritten(r)
      BY <2>4 DEF StoreWritten, StoreBlob, InUse, Holds, Referenced, dbvars,
                  Request
    <2>5. CASE \/ StopNotWriting(r) \/ StoreFails(r) \/ StoreAbandoned(r)
               \/ StoreDetached(r)
      BY <2>5 DEF StopNotWriting, StoreFails, StoreAbandoned, StoreDetached, Abort,
                  Finish, Idle,
                  InUse, Holds, Referenced, dbvars, Request
    <2> QED
      BY <1>2, <2>1, <2>2, <2>3, <2>4, <2>5 DEF StoreStep
  <1>3. CASE (\E c \in Blob : QueuedStep(c) \/ DetachedEnds(c)) \/ GcStep
    BY <1>3 DEF QueuedStep, QueuedOpens, QueuedLost, DetachedEnds, GcStep, GcStart,
                GcVisit, GcEnd, GcAbort, vars, InUse, Holds, Referenced
  <1> QED
    BY <1>1, <1>2, <1>3 DEF FSNext

\* Only store itself takes a request on from where it runs.
LEMMA TablesKeepStore ==
  ASSUME DiskType, TableStep, NEW r \in Requests, At(r, "store")
  PROVE  At(r, "store")'
  <1> USE DEF DiskType, At
  <1>1. ASSUME NEW s \in Requests, UploadStep(s) PROVE At(r, "store")'
    BY <1>1 DEF UploadStep, UploadStart, UpsertNew, UpsertSame, UpsertChanged,
                UpsertRejected, Finish
  <1>2. ASSUME NEW s \in Requests, RollbackStep(s) PROVE At(r, "store")'
    BY <1>2 DEF RollbackStep, RollbackStart, RollbackTarget, RollbackUpdate,
                RollbackInsert, Finish
  <1>3. ASSUME NEW s \in Requests, ArchiveStep(s) PROVE At(r, "store")'
    BY <1>3 DEF ArchiveStep, RestoreStart, RestoreUpdate, DeletePermanentStart,
                WipeStart, Purge, PurgeVersions, PurgeFile, Finish
  <1>4. CASE \/ \E f \in FileId : Archive(f) \/ (\E h \in Hash : FixHash(f, h))
             \/ RestoreAll
             \/ PruneStep
             \/ Tick
    BY <1>4 DEF Archive, FixHash, RestoreAll, Tick, PruneStep,
                PruneStart, PruneScan, PruneDelete, PruneEnd, PruneAbort
  <1> QED
    BY <1>1, <1>2, <1>3, <1>4 DEF TableStep

LEMMA BlobStep ==
  ASSUME DiskType, DiskType', BlobInv, FSNext
  PROVE  BlobInv'
  <1> USE DEF DiskType, BlobInv
  <1>0. Observe
    BY DEF FSNext, OtherStep, StoreStep, StoreExists, StoreMissing, StoreOpen,
           StoreWritten, StopNotWriting, StoreFails, StoreAbandoned, StoreDetached,
           QueuedStep, QueuedOpens, QueuedLost, DetachedEnds,
           GcStep, GcStart, GcVisit, GcEnd, GcAbort
  <1>1. TodoUnknown'
    <2>1. CASE GcStep
      BY <2>1 DEF TodoUnknown, GcStep, GcStart, GcVisit, GcEnd, GcAbort, IdleGc,
                  Unreferenced
    <2>2. CASE gc' = gc
      BY <2>2 DEF TodoUnknown
    <2> QED
      BY <2>1, <2>2
         DEF FSNext, OtherStep, StoreStep, StoreExists, StoreMissing, StoreOpen,
             StoreWritten, StopNotWriting, StoreFails, StoreAbandoned,
             StoreDetached, QueuedStep, QueuedOpens, QueuedLost, DetachedEnds,
             fsvars
  <1>5. UnknownExposed'
    BY <1>0, <1>1, ExposedAfter
  <1>2. ASSUME NEW b \in Blob, disk[b] # "absent", disk'[b] = "absent"
        PROVE  b \in gc.todo
    <2>1. CASE GcStep
      BY <1>2, <2>1 DEF GcStep, GcStart, GcVisit, GcEnd, GcAbort
    <2>2. CASE OtherStep
      BY <1>2, <2>2 DEF OtherStep, fsvars
    <2>3. ASSUME NEW r \in Requests, StoreStep(r) PROVE FALSE
      BY <1>2, <2>3
         DEF StoreStep, StoreExists, StoreMissing, StoreOpen, StoreWritten,
             StopNotWriting, StoreFails, StoreAbandoned, StoreDetached, Written,
             fsvars
    <2>4. ASSUME NEW c \in Blob, QueuedStep(c) \/ DetachedEnds(c) PROVE FALSE
      BY <1>2, <2>4 DEF QueuedStep, QueuedOpens, QueuedLost, DetachedEnds, Written
    <2> QED
      BY <2>1, <2>2, <2>3, <2>4 DEF FSNext
  <1>3. InUsePresent'
    <2> SUFFICES ASSUME NEW b \in Blob, InUse(b)', b \notin exposed',
                        disk'[b] = "absent"
                 PROVE  FALSE
      BY DEF InUsePresent
    <2>1. InUse(b)
      BY UseOnlyGrowsOnDisk
    <2>2. b \notin exposed
      BY <1>0 DEF Observe
    <2>3. b \in gc.todo
      BY <1>2, <2>1, <2>2 DEF InUsePresent
    <2> QED
      BY <2>1, <2>2, <2>3 DEF UnknownExposed
  <1>4. IoReset'
    <2> USE DEF IoReset, At
    <2>1. CASE OtherStep
      BY <2>1, TablesKeepStore DEF OtherStep, fsvars
    <2>2. ASSUME NEW r \in Requests, StoreStep(r) PROVE IoReset'
      BY <2>2 DEF StoreStep, StoreExists, StoreMissing, StoreOpen, StoreWritten,
                  StopNotWriting, StoreFails, StoreAbandoned, StoreDetached,
                  StoreBlob, Abort, Finish, vars, fsvars
    <2>3. CASE (\E c \in Blob : QueuedStep(c) \/ DetachedEnds(c)) \/ GcStep
      BY <2>3 DEF QueuedStep, QueuedOpens, QueuedLost, DetachedEnds, GcStep, GcStart, GcVisit, GcEnd, GcAbort, vars
    <2> QED
      BY <2>1, <2>2, <2>3 DEF FSNext
  <1> QED
    BY <1>1, <1>3, <1>4, <1>5

-----------------------------------------------------------------------------

\* What is proved of the tables alone holds here too.
LEMMA TablesHere == FSSpec => []IndInv
  BY FileStoreRunsTables, Invariant, PTL

\* FSTypeOK: the disk, the writers and the collector keep their types.
THEOREM DiskTypeCorrect == FSSpec => []FSTypeOK
  <1>1. IndInv /\ FSTypeOK /\ [FSNext]_allvars => FSTypeOK'
    <2> SUFFICES ASSUME IndInv, FSTypeOK, [FSNext]_allvars PROVE FSTypeOK'
      OBVIOUS
    <2>1. CASE FSNext
      BY <2>1, DiskTypeStep DEF IndInv, RollbackInv
    <2>2. CASE UNCHANGED allvars
      BY <2>2 DEF allvars, FSTypeOK
    <2> QED
      BY <2>1, <2>2
  <1> QED
    BY <1>1, DiskTypeInit, TablesHere, PTL DEF FSSpec

\* BlobInv: what is in use is on disk, unless a collector that read the table
\* too early has removed it or is about to.
LEMMA BlobInvariant == FSSpec => []BlobInv
  <1>1. /\ IndInv /\ IndInv' /\ FSTypeOK /\ FSTypeOK' /\ BlobInv
        /\ [FSNext]_allvars
        => BlobInv'
    <2> SUFFICES ASSUME IndInv, IndInv', FSTypeOK, FSTypeOK', BlobInv,
                        [FSNext]_allvars
                 PROVE  BlobInv'
      OBVIOUS
    <2>1. DiskType /\ DiskType'
      BY DEF IndInv, TypeOK, FSTypeOK, DiskType
    <2>2. CASE FSNext
      BY <2>1, <2>2, BlobStep
    <2>3. CASE UNCHANGED allvars
      BY <2>3 DEF allvars, vars, BlobInv, IoReset, InUsePresent, UnknownExposed,
                  TodoUnknown, InUse, Holds, Referenced, At
    <2> QED
      BY <2>2, <2>3
  <1> QED
    BY <1>1, BlobInit, TablesHere, DiskTypeCorrect, PTL DEF FSSpec

\* PartialExplained: a file that is not whole has a writer, or had one that
\* failed.
LEMMA PartialInvariant == FSSpec => []PartialExplained
  <1>1. FSInit => PartialExplained
    BY DEF FSInit, PartialExplained
  <1>2. IndInv /\ FSTypeOK /\ PartialExplained /\ [FSNext]_allvars
        => PartialExplained'
    <2> SUFFICES ASSUME IndInv, FSTypeOK, PartialExplained, [FSNext]_allvars
                 PROVE  PartialExplained'
      OBVIOUS
    <2>1. CASE FSNext
      BY <2>1, PartialStep DEF IndInv, RollbackInv
    <2>2. CASE UNCHANGED allvars
      BY <2>2 DEF allvars, PartialExplained
    <2> QED
      BY <2>1, <2>2
  <1> QED
    BY <1>1, <1>2, TablesHere, DiskTypeCorrect, PTL DEF FSSpec

\* ReferencedBlobPresent: the blob that a row of file_versions names is on disk,
\* except under a collector that read the table before the row was inserted.
THEOREM VersionsReadable == FSSpec => []ReferencedBlobPresent
  <1>1. IndInv /\ BlobInv => ReferencedBlobPresent
    BY DEF IndInv, TypeOK, Row, BlobInv, InUsePresent, InUse, Referenced,
           ReferencedBlobPresent
  <1> QED
    BY <1>1, TablesHere, BlobInvariant, PTL

\* ReferencedBlobIntact: it is whole or being written, except after a write that
\* failed.
THEOREM VersionsIntact == FSSpec => []ReferencedBlobIntact
  <1>1. IndInv /\ FSTypeOK /\ BlobInv /\ PartialExplained => ReferencedBlobIntact
    BY DEF IndInv, TypeOK, Row, FSTypeOK, BlobInv, InUsePresent, InUse, Referenced,
           PartialExplained, ReferencedBlobIntact
  <1> QED
    BY <1>1, TablesHere, DiskTypeCorrect, BlobInvariant, PartialInvariant, PTL
=============================================================================
