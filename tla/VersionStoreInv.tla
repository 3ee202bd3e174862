--------------------------- MODULE VersionStoreInv ---------------------------
(***************************************************************************)
(* The inductive invariant of VersionStore: what the tables promise,        *)
(* together with what every handler and the pruning job may still rely on   *)
(* of the things they have read.                                            *)
(***************************************************************************)
EXTENDS VersionStore

\* The identifier was drawn for a file, which may be purged by now.
Drawn(f) == f \in FileId /\ files[f].status # "unused"

\* The file is there and no stale rollback has set its version number.
Sound(f) == Existing(f) /\ f \notin regressed

RowsHaveFile == \A x \in rows : Existing(x.file)

KeysUnique ==
  \A x, y \in rows : x.file = y.file /\ x.version = y.version => x = y

\* What a request holds is what its next statement needs.
RequestShape ==
  \A r \in Requests :
    /\ req[r].pc \in {"store", "upsert"}
         => req[r].path \in Path /\ req[r].hash \in Hash /\ req[r].blob \in Blob
    /\ req[r].pc \in {"rb_target", "rb_update", "rb_insert"}
         => Drawn(req[r].file) /\ req[r].cur < MaxVersion
    /\ req[r].pc \in {"rb_update", "rb_insert"}
         => req[r].hash \in Hash /\ req[r].blob \in Blob
    /\ req[r].pc \in {"restore", "purge_file"} => Drawn(req[r].file)
    /\ \A f \in req[r].todo : Drawn(f)

\* The number a rollback has read is never above the current one ...
RollbackReadInv ==
  \A r \in Requests :
    /\ req[r].pc \in {"rb_target", "rb_update"} /\ Sound(req[r].file)
         => req[r].cur <= files[req[r].file].cur
    /\ At(r, "rb_insert") /\ Sound(req[r].file)
         => req[r].cur < files[req[r].file].cur

\* ... the hash it wrote is there while its number is current ...
RollbackHashInv ==
  \A r \in Requests :
    At(r, "rb_insert") /\ Sound(req[r].file) /\ req[r].file \notin fixed
      /\ req[r].cur + 1 = files[req[r].file].cur
    => req[r].hash = files[req[r].file].hash

\* ... and no two rollbacks have claimed the same number.
RollbackClaimsDiffer ==
  \A r, s \in Requests :
    At(r, "rb_insert") /\ At(s, "rb_insert") /\ req[r].file = req[s].file
      /\ Sound(req[r].file) /\ req[r].cur = req[s].cur
    => r = s

\* A row newer than the version number in the pruning job's list was inserted
\* after the job chose its cutoff.
PruneListInv ==
  /\ prune.cutoff <= epoch
  /\ \A t \in prune.todo :
       /\ Drawn(t.file)
       /\ Sound(t.file) =>
            /\ t.cur <= files[t.file].cur
            /\ \A x \in RowsOf(t.file) :
                 x.version > t.cur => x.created >= prune.cutoff

PruneDoomedInv ==
  \A x \in prune.doomed :
    Drawn(x.file) /\ (Sound(x.file) => x.version < files[x.file].cur)

TableInv == /\ RowsHaveFile
            /\ KeysUnique
            /\ CurrentIsNewest
            /\ CurrentRowPresent
            /\ HashMatchesCurrent

RollbackInv == /\ RequestShape
               /\ RollbackReadInv
               /\ RollbackHashInv
               /\ RollbackClaimsDiffer
               /\ RollbackWillInsert

PruneInv == PruneListInv /\ PruneDoomedInv

IndInv == TypeOK /\ TableInv /\ RollbackInv /\ PruneInv
=============================================================================
